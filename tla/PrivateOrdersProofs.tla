------------------------- MODULE PrivateOrdersProofs -------------------------
(***************************************************************************)
(* Proofs about PrivateOrders, for all values of its constants: types; one *)
(* connection at a time; and, between turns, request tables that name the  *)
(* current streams only and agree with the subscriptions these believe     *)
(* they have.                                                              *)
(***************************************************************************)
EXTENDS PrivateOrdersProperties, SequenceTheorems, FiniteSetTheorems, TLAPS

USE DEF NoCursor

-----------------------------------------------------------------------------
(* Types of the operators the actions are built from.                      *)

LEMMA ViewTypes ==
    /\ EmptyView \in Views
    /\ NoView \notin Views
    /\ \A n \in Cursors : ViewAt(n) \in Views
    /\ \A view \in Views, n \in Positions : Apply(view, n) \in Views
BY ViewAssumption, UnitsAssumption
   DEF EmptyView, Views, Cursors, Positions, ViewAt, Apply

LEMMA LastUnit == Len(Units) \in Nat /\ Positions \subseteq Nat
BY UnitsAssumption, LenProperties DEF Positions

\* A frame of a kind that needs nothing of its position or note.
Plain == FrameKinds \ {"unit", "unavailable", "available"}

LEMMA ReplyType ==
    ASSUME NEW kind \in Plain, NEW id \in Nat, NEW sub \in Nat, NEW note \in Notes
    PROVE  Reply(kind, id, sub, note) \in Frames
BY LastUnit DEF Plain, Reply, Frame, Frames, Cursors

LEMMA PostType ==
    ASSUME NEW n \in Network, NEW f \in Frames
    PROVE  Post(n, f) \in Network /\ Post(n, f).srv = n.srv /\ Post(n, f).phase = n.phase
<1>1. Append(n.wire, f) \in Seq(Frames)
  BY DEF Network
<1> QED BY <1>1 DEF Post, Network

LEMMA ServerSubFields ==
    \A r \in ServerSubs : /\ r.sub \in Nat /\ r.seq \in Nat /\ r.ch \in Channels
                          /\ r.pos \in Cursors /\ r.stale \in Scopes
BY DEF ServerSubs

LEMMA EmitType ==
    ASSUME NEW n \in Network, NEW r \in n.srv, NEW q \in ServerSubs,
           NEW kinds \in Seq(FrameKinds), NEW pos \in Cursors, NEW note \in Scopes \cup {"none"},
           \A i \in 1 .. Len(kinds) :
              /\ kinds[i] = "unit" => pos \in Positions \ {0}
              /\ kinds[i] \in {"unavailable", "available"} => note \in Scopes
    PROVE  Emit(n, r, q, kinds, pos, note) \in Network /\ Emit(n, r, q, kinds, pos, note).phase = n.phase
<1> DEFINE new == [i \in 1 .. Len(kinds) |-> Frame(kinds[i], 0, r.sub, r.seq + i, pos, note)]
           left == [q EXCEPT !.seq = r.seq + Len(kinds), !.pos = pos]
<1>1. Len(kinds) \in Nat /\ \A i \in 1 .. Len(kinds) : kinds[i] \in FrameKinds
  BY LenProperties, ElementOfSeq
<1>2. r \in ServerSubs
  BY DEF Network
<1>3. ASSUME NEW i \in 1 .. Len(kinds)
      PROVE  new[i] \in Frames
  <2>1. r.sub \in Nat /\ r.seq + i \in Nat
    <3>1. r.sub \in Nat /\ r.seq \in Nat
      BY <1>2, ServerSubFields
    <3>2. i \in Nat
      BY <1>1
    <3> QED BY <3>1, <3>2
  <2>2. note \in Notes
    BY DEF Notes
  <2>3. new[i] = [kind |-> kinds[i], id |-> 0, sub |-> r.sub, seq |-> r.seq + i, pos |-> pos, note |-> note]
    BY DEF Frame
  <2>4. kinds[i] \in FrameKinds
    BY <1>1
  <2> HIDE DEF new
  <2> QED BY <2>1, <2>2, <2>3, <2>4 DEF Frames
<1>4. new \in Seq(Frames)
  <2>1. new \in [1 .. Len(kinds) -> Frames]
    BY <1>3
  <2> QED BY <1>1, <2>1, SeqDef
<1>5. n.wire \o new \in Seq(Frames)
  BY <1>4, ConcatProperties DEF Network
<1>6. left \in ServerSubs
  <2>1. r.seq \in Nat
    BY <1>2, ServerSubFields
  <2>2. r.seq + Len(kinds) \in Nat
    BY <1>1, <2>1
  <2> QED BY <2>2 DEF ServerSubs
<1> QED BY <1>1, <1>5, <1>6 DEF Emit, Network

LEMMA EmitOneType ==
    ASSUME NEW n \in Network, NEW r \in n.srv, NEW q \in ServerSubs,
           NEW kind \in FrameKinds, NEW pos \in Cursors, NEW note \in Scopes \cup {"none"},
           kind = "unit" => pos \in Positions \ {0},
           kind \in {"unavailable", "available"} => note \in Scopes
    PROVE  Emit(n, r, q, <<kind>>, pos, note) \in Network /\ Emit(n, r, q, <<kind>>, pos, note).phase = n.phase
<1> DEFINE kinds == <<kind>>
<1>1. kinds \in Seq(FrameKinds) /\ Len(kinds) = 1 /\ kinds[1] = kind
  OBVIOUS
<1> HIDE DEF kinds
<1>2. \A i \in 1 .. Len(kinds) : kinds[i] = kind
  BY <1>1
<1>3. Emit(n, r, q, kinds, pos, note) \in Network /\ Emit(n, r, q, kinds, pos, note).phase = n.phase
  BY <1>1, <1>2, EmitType
<1> QED BY <1>3 DEF kinds

\* The connections that may come of n: well formed, and in n's phase.
Like(n) == {m \in Network : m.phase = n.phase}

LEMMA CancelType ==
    ASSUME NEW n \in Network, NEW id \in Nat, NEW sub \in Nat
    PROVE  Cancel(n, id, sub) \in Like(n) /\ Renew(n, id, sub) \in Like(n)
<1>1. \A kind \in {"unsubscribed", "refreshed", "error"}, note \in {"none", "unknown"} :
         Reply(kind, id, sub, note) \in Frames
  BY ReplyType DEF Plain, FrameKinds, StreamFrames, Notes
<1>2. Cancel(n, id, sub) \in Like(n)
  <2> DEFINE reply == IF Known(n, sub) THEN Reply("unsubscribed", id, sub, "none")
                                       ELSE Reply("error", id, sub, "unknown")
  <2>1. reply \in Frames
    BY <1>1
  <2>2. Post(n, reply) \in Network /\ Post(n, reply).phase = n.phase
    BY <2>1, PostType
  <2> QED BY <2>2 DEF Cancel, Network, Like
<1>3. Renew(n, id, sub) \in Like(n)
  BY <1>1, PostType DEF Renew, Like
<1> QED BY <1>2, <1>3

LEMMA AcceptType ==
    ASSUME NEW n \in Network, NEW id \in Nat, NEW ch \in Channels, NEW pos \in Cursors
    PROVE  Accept(n, id, ch, pos) \in Like(n) /\ \E x \in Accept(n, id, ch, pos).srv : x.sub = id
<1> DEFINE p == Post(n, Reply("subscribed", id, id, "none"))
           r == [sub |-> id, ch |-> ch, seq |-> 0, pos |-> pos, ready |-> FALSE, stale |-> "no"]
<1>1. Reply("subscribed", id, id, "none") \in Frames
  BY ReplyType DEF Plain, FrameKinds, StreamFrames, Notes
<1>2. p \in Network /\ p.srv = n.srv /\ p.phase = n.phase
  BY <1>1, PostType
<1>3. r \in ServerSubs
  BY DEF ServerSubs, Scopes
<1>4. Accept(n, id, ch, pos) = [p EXCEPT !.srv = @ \cup {r}]
  BY DEF Accept
<1> HIDE DEF p
<1>5. Accept(n, id, ch, pos) \in Like(n)
  BY <1>2, <1>3, <1>4 DEF Network, Like
<1>6. r \in Accept(n, id, ch, pos).srv /\ r.sub = id
  BY <1>2, <1>4 DEF Network
<1> QED BY <1>5, <1>6

\* What the server sends on its own leaves the connection well formed.
LEMMA SendTypes ==
    ASSUME NEW n \in Network, NEW r \in n.srv, NEW at \in Positions
    PROVE  /\ Serving(n, r, at) \subseteq Like(n)
           /\ Recovering(n, r) \subseteq Like(n)
           /\ \A kind : Failing(n, r, kind, at) \subseteq Like(n)
<1>1. r \in ServerSubs /\ r.pos \in Cursors /\ r.stale \in Scopes
  BY DEF Network, ServerSubs
<1>2. at \in Cursors /\ at \in Nat
  BY LastUnit DEF Cursors
<1>3. Serving(n, r, at) \subseteq Like(n)
  <2>1. CASE r.pos = NoCursor
    <3> DEFINE kinds == <<"begin", "page", "end">>
    <3>1. kinds \in Seq(FrameKinds) /\ \A i \in 1 .. Len(kinds) : kinds[i] \in {"begin", "page", "end"}
      BY DEF FrameKinds, StreamFrames
    <3> HIDE DEF kinds
    <3>2. Emit(n, r, r, kinds, at, "none") \in Like(n)
      BY <1>1, <1>2, <3>1, EmitType DEF Like
    <3> QED BY <2>1, <3>2 DEF Serving, kinds
  <2>2. CASE r.pos # NoCursor /\ r.pos < at
    <3> DEFINE kind == IF Units[r.pos + 1].put \cup Units[r.pos + 1].removed = {} THEN "covered" ELSE "unit"
    <3>1. kind \in FrameKinds /\ kind \in {"unit", "covered"}
      BY DEF FrameKinds, StreamFrames
    <3>2. r.pos + 1 \in Positions \ {0} /\ r.pos + 1 \in Cursors
      BY <1>1, <1>2, <2>2, LastUnit DEF Cursors, Positions
    <3>3. Emit(n, r, r, <<kind>>, r.pos + 1, "none") \in Like(n)
      <4> HIDE DEF kind
      <4> QED BY <1>1, <3>1, <3>2, EmitOneType DEF Like
    <3> QED BY <2>2, <3>3 DEF Serving
  <2>3. CASE r.pos # NoCursor /\ ~(r.pos < at)
    <3>1. "ready" \in FrameKinds
      BY DEF FrameKinds, StreamFrames
    <3>2. [r EXCEPT !.ready = TRUE] \in ServerSubs
      BY <1>1 DEF ServerSubs
    <3>3. Emit(n, r, [r EXCEPT !.ready = TRUE], <<"ready">>, r.pos, "none") \in Like(n)
      BY <1>1, <3>1, <3>2, EmitOneType DEF Like
    <3> QED BY <2>3, <3>3 DEF Serving
  <2> QED BY <2>1, <2>2, <2>3
<1>4. Recovering(n, r) \subseteq Like(n)
  <2>1. "available" \in FrameKinds /\ "no" \in Scopes
    BY DEF FrameKinds, StreamFrames, Scopes
  <2>2. [r EXCEPT !.stale = "no"] \in ServerSubs
    BY <1>1, <2>1 DEF ServerSubs
  <2>3. Emit(n, r, [r EXCEPT !.stale = "no"], <<"available">>, r.pos, "no") \in Like(n)
    BY <1>1, <2>1, <2>2, EmitOneType DEF Like
  <2> QED BY <2>3 DEF Recovering
<1>5. ASSUME NEW kind
      PROVE  Failing(n, r, kind, at) \subseteq Like(n)
  <2>1. Emit(n, r, r, <<"begin", "end">>, at, "none") \in Like(n)
    <3> DEFINE kinds == <<"begin", "end">>
    <3>1. kinds \in Seq(FrameKinds) /\ \A i \in 1 .. Len(kinds) : kinds[i] \in {"begin", "end"}
      BY DEF FrameKinds, StreamFrames
    <3> HIDE DEF kinds
    <3>2. Emit(n, r, r, kinds, at, "none") \in Like(n)
      BY <1>1, <1>2, <3>1, EmitType DEF Like
    <3> QED BY <3>2 DEF kinds
  <2>2. ASSUME NEW scope \in Scopes
        PROVE  Emit(n, r, [r EXCEPT !.stale = scope], <<"unavailable">>, r.pos, scope) \in Like(n)
    <3>1. "unavailable" \in FrameKinds
      BY DEF FrameKinds, StreamFrames
    <3>2. [r EXCEPT !.stale = scope] \in ServerSubs
      BY <1>1 DEF ServerSubs
    <3> QED BY <1>1, <3>1, <3>2, EmitOneType DEF Like
  <2>3. \A k \in {"expiring", "unsubscribed", "error"}, note \in {"none", "unknown", "other"} :
           Post(n, Reply(k, 0, r.sub, note)) \in Like(n)
    BY <1>1, ReplyType, PostType, ServerSubFields DEF Plain, FrameKinds, StreamFrames, Notes, Like
  <2>4. \A m \in Like(n) : [m EXCEPT !.srv = @ \ {r}] \in Like(n)
    BY DEF Network, Like
  <2> QED BY <2>1, <2>2, <2>3, <2>4 DEF Failing
<1> QED BY <1>3, <1>4, <1>5

-----------------------------------------------------------------------------
(* Types of what the shared steps leave behind.                            *)

LEMMA CurrentStreams == ASSUME TypeOK PROVE Current \subseteq Streams
BY DEF TypeOK, Current, MaybeStream

LEMMA EventTypes ==
    /\ Link("connected") \in Events /\ Link("disconnected") \in Events
    /\ \A view \in Views : Snapshot(view) \in Events
    /\ \A n \in Positions \ {0} : UnitEvent(n) \in Events
    /\ \A scope \in Scopes : Stale(scope) \in Events
BY LastUnit DEF Events, Event, Link, Snapshot, UnitEvent, Stale, Cursors, Scopes

LEMMA JobTypes ==
    ASSUME NEW s \in Streams, NEW ev \in Events
    PROVE  /\ Deliver(s, ev) \in Jobs
           /\ \A cs \in SUBSET Consumers, do \in {"deliver", "report", "call"} :
                 Job(do, s, ev, cs) \in Jobs
           /\ \A do \in {"terminate", "finish", "unstale"} : Step(do, s) \in Jobs
           /\ \A socks \in SUBSET Nat : Job("retry", s, ev, socks) \in Jobs
BY EventTypes DEF Jobs, CallJobs, StreamJobs, Job, Deliver, Step

LEMMA ClientJobTypes ==
    ASSUME TypeOK
    PROVE  /\ \A do \in {"terminateAll", "reportAll"} : Every(do) \in Jobs
           /\ \A do \in {"closed", "schedule"} : Step(do, NoStream) \in Jobs
           /\ \A s \in Streams : Report(s) \in Jobs
<1>1. \A s \in Streams : stream[s].consumers \in SUBSET Consumers
  BY DEF TypeOK, StreamObject
<1>2. \A s \in Streams : Report(s) \in Jobs
  BY <1>1, EventTypes, JobTypes DEF Report
<1>3. \A do \in {"terminateAll", "reportAll"} : Every(do) \in Jobs
  BY CurrentStreams, EventTypes DEF Jobs, ClientJobs, Job, Every
<1>4. \A do \in {"closed", "schedule"} : Step(do, NoStream) \in Jobs
  BY EventTypes DEF Jobs, ClientJobs, Job, Step
<1> QED BY <1>2, <1>3, <1>4

LEMMA OfflineType == Offline \in Network /\ Offline.phase = "none"
BY DEF Offline, Network

LEMMA ShortSeqs ==
    ASSUME NEW S, NEW a \in S, NEW b \in S
    PROVE  <<>> \in Seq(S) /\ <<a>> \in Seq(S) /\ <<a, b>> \in Seq(S)
OBVIOUS

LEMMA ConnTypes ==
    ASSUME NEW c \in Connection
    PROVE  /\ ShutDown(c) \in Connection
           /\ Scheduled(c) \in Connection
<1>1. /\ c.ws \in Nat /\ c.generation + 1 \in Nat /\ c.attempt + 1 \in Nat
      /\ c.strays \in Nat /\ c.strays + 1 \in Nat
  BY DEF Connection
<1>2. ShutDown(c) \in Connection
  BY <1>1 DEF Connection, ShutDown
<1>3. Scheduled(c) \in Connection
  BY <1>1 DEF Connection, Scheduled
<1> QED BY <1>2, <1>3

LEMMA TableTypes ==
    ASSUME NEW q \in Tables, NEW sub \in Nat
    PROVE  /\ Unsubscribing(q, sub) \in Tables /\ Unsubscribing(q, sub).seq \in Nat
           /\ \A s : WithoutThoseOf(q, s) \in Tables
           /\ Unnamed(q, sub) \in Tables
           /\ \A id : [q EXCEPT !.pending = {p \in @ : p.id # id}] \in Tables
           /\ \A id : [q EXCEPT !.unsubscribing = @ \ {id}] \in Tables
           /\ \A n \in Nat : [q EXCEPT !.pending = {}, !.bySub = {}, !.unsubscribing = {}, !.seq = n] \in Tables
           /\ [q EXCEPT !.pending = {}, !.bySub = {}, !.unsubscribing = {}] \in Tables
<1>1. q.seq \in Nat /\ q.seq + 1 \in Nat
  BY DEF Tables
<1>2. Unsubscribing(q, sub) \in Tables /\ Unsubscribing(q, sub).seq \in Nat
  BY <1>1 DEF Tables, Unsubscribing
<1>3. \A s : WithoutThoseOf(q, s) \in Tables
  BY DEF Tables, WithoutThoseOf
<1>4. Unnamed(q, sub) \in Tables
  BY DEF Tables, Unnamed
<1>5. ASSUME NEW id
      PROVE  /\ [q EXCEPT !.pending = {p \in @ : p.id # id}] \in Tables
             /\ [q EXCEPT !.unsubscribing = @ \ {id}] \in Tables
  BY DEF Tables
<1>6. \A n \in Nat : [q EXCEPT !.pending = {}, !.bySub = {}, !.unsubscribing = {}, !.seq = n] \in Tables
  BY DEF Tables
<1>7. [q EXCEPT !.pending = {}, !.bySub = {}, !.unsubscribing = {}] \in Tables
  BY DEF Tables
<1> QED BY <1>2, <1>3, <1>4, <1>5, <1>6, <1>7

LEMMA NoRequestsType == ASSUME TypeOK PROVE NoRequests \in Tables
<1>1. [req EXCEPT !.pending = {}, !.bySub = {}, !.unsubscribing = {}] \in Tables
  BY DEF TypeOK, Tables
<1> QED BY <1>1 DEF NoRequests

LEMMA StreamTypes ==
    ASSUME NEW r \in StreamObject, NEW sock \in Nat
    PROVE  /\ Retrying(r, sock) \in StreamObject
           /\ Detached(r) \in StreamObject
           /\ [r EXCEPT !.retryTimer = 0, !.consumers = {}] \in StreamObject
           /\ [r EXCEPT !.consumers = {}, !.retryTimer = 0, !.sub = 0] \in StreamObject
<1>1. r.retries + 1 \in Nat
  BY DEF StreamObject
<1>2. Retrying(r, sock) \in StreamObject
  BY <1>1 DEF StreamObject, Retrying
<1>3. Detached(r) \in StreamObject
  BY DEF StreamObject, Detached, MaybeView
<1>4. [r EXCEPT !.retryTimer = 0, !.consumers = {}] \in StreamObject
  BY DEF StreamObject
<1>5. [r EXCEPT !.consumers = {}, !.retryTimer = 0, !.sub = 0] \in StreamObject
  BY DEF StreamObject
<1> QED BY <1>2, <1>3, <1>4, <1>5

LEMMA OpenTypes ==
    ASSUME TypeOK, NEW c \in Connection, Open(c)
    PROVE  conn' \in Connection /\ fetches' \in SUBSET Fetches /\ micro' \in Seq(Tasks) /\ faults' \in Nat
<1>1. c.opens + 1 \in Nat /\ c.generation \in Nat
  BY DEF Connection
<1>2. Fetch("connect", c.opens + 1, c.generation, NoStream, 0) \in Fetches
  BY <1>1 DEF Fetch, Fetches
<1>3. Task("terminateAll", NoStream, {}) \in Tasks
  BY DEF Task, Tasks
<1>4. [c EXCEPT !.connecting = TRUE, !.opens = @ + 1] \in Connection
  BY <1>1 DEF Connection
<1>5. Append(micro, Task("terminateAll", NoStream, {})) \in Seq(Tasks)
  BY <1>3 DEF TypeOK
<1>6. faults \in Nat /\ faults + 1 \in Nat /\ micro \in Seq(Tasks) /\ fetches \in SUBSET Fetches
  BY DEF TypeOK
<1> QED BY <1>2, <1>4, <1>5, <1>6 DEF Open, Fault

\* The connect tokens being fetched.
Dialled == {f \in fetches : f.kind = "connect"}

LEMMA NotDialling ==
    ASSUME NEW f, f.kind # "connect", fetches' = fetches \cup {f}
    PROVE  Dialled' = Dialled
BY DEF Dialled

LEMMA StartSubscribeTypes ==
    ASSUME TypeOK, NEW s \in Streams, NEW q \in Tables, StartSubscribe(s, q)
    PROVE  req' \in Tables /\ fetches' \in SUBSET Fetches /\ Dialled' = Dialled
<1>1. q.seq + 1 \in Nat /\ conn.ws \in Nat
  BY DEF TypeOK, Tables, Connection
<1>2. Request(q.seq + 1, "subscribe", s) \in Requests
  BY <1>1 DEF Request, Requests
<1>3. Fetch("subscribe", conn.ws, 0, s, q.seq + 1) \in Fetches
  BY <1>1 DEF Fetch, Fetches
<1>4. [q EXCEPT !.seq = @ + 1, !.pending = @ \cup {Request(q.seq + 1, "subscribe", s)}] \in Tables
  BY <1>1, <1>2 DEF Tables
<1>5. Dialled' = Dialled
  BY NotDialling DEF StartSubscribe, Fetch
<1> QED BY <1>3, <1>4, <1>5 DEF StartSubscribe, TypeOK

LEMMA ResubscribeTypes ==
    ASSUME TypeOK, NEW s \in Streams, NEW r \in StreamObject, NEW q \in Tables, NEW n \in Network,
           Resubscribe(s, r, q, n)
    PROVE  /\ stream' \in [Streams -> StreamObject] /\ req' \in Tables
           /\ fetches' \in SUBSET Fetches /\ turn' \in Seq(Jobs) /\ net' \in Like(n)
           /\ Dialled' = Dialled
           /\ UNCHANGED <<subs, conn>>
<1> DEFINE q2 == IF r.sub # 0 THEN Unsubscribing(q, r.sub) ELSE q
           gone == [r EXCEPT !.sub = 0, !.seq = 0, !.staged = NoView,
                             !.state = IF @ = "connected" THEN "disconnected" ELSE @]
<1>1. r.sub \in Nat /\ conn.ws \in Nat
  BY DEF StreamObject, TypeOK, Connection
<1>2. q2 \in Tables /\ q2.seq \in Nat
  BY <1>1, TableTypes DEF Tables
<1>3. gone \in StreamObject /\ [gone EXCEPT !.retries = 1] \in StreamObject
  BY DEF StreamObject, MaybeView, LinkStates
<1>4. Retrying(gone, conn.ws) \in StreamObject
  BY <1>1, <1>3, StreamTypes
<1>5. net' \in Like(n)
  BY <1>1, <1>2, CancelType DEF Resubscribe, Like
<1>6. stream' \in [Streams -> StreamObject]
  <2> HIDE DEF gone
  <2>1. \/ stream' = [stream EXCEPT ![s] = Retrying(gone, conn.ws)]
        \/ stream' = [stream EXCEPT ![s] = [gone EXCEPT !.retries = 1]]
    BY DEF Resubscribe, gone
  <2> QED BY <1>3, <1>4, <2>1 DEF TypeOK
<1>7. req' \in Tables /\ fetches' \in SUBSET Fetches /\ Dialled' = Dialled
  <2>1. (req' = q2 /\ UNCHANGED fetches) \/ StartSubscribe(s, q2)
    BY DEF Resubscribe
  <2> HIDE DEF q2
  <2> QED BY <1>2, <2>1, StartSubscribeTypes DEF TypeOK, Dialled
<1>8. turn' \in Seq(Jobs)
  <2>1. Deliver(s, Link("disconnected")) \in Jobs
    BY EventTypes, JobTypes
  <2> QED BY <2>1, ShortSeqs DEF Resubscribe
<1> QED BY <1>5, <1>6, <1>7, <1>8 DEF Resubscribe

LEMMA TeardownTypes ==
    ASSUME TypeOK, NEW s \in Streams, NEW r \in StreamObject, Teardown(s, r)
    PROVE  /\ subs' \in [Channels -> MaybeStream] /\ stream' \in [Streams -> StreamObject]
           /\ req' \in Tables /\ conn' \in Connection /\ net' \in Network
           /\ \/ conn' = ShutDown(conn) /\ net' = Offline
              \/ UNCHANGED conn /\ net' \in Like(net)
<1> DEFINE drop == conn.ws # 0 /\ r.sub # 0
           q == IF drop THEN Unsubscribing(req, r.sub) ELSE req
<1>1. r.sub \in Nat /\ req \in Tables /\ conn \in Connection /\ net \in Network
  BY DEF StreamObject, TypeOK
<1>2. q \in Tables /\ q.seq \in Nat
  BY <1>1, TableTypes DEF Tables
<1>3. subs' \in [Channels -> MaybeStream]
  BY DEF Teardown, TypeOK, MaybeStream
<1>4. [r EXCEPT !.consumers = {}, !.retryTimer = 0, !.sub = 0] \in StreamObject
  BY StreamTypes
<1>5. stream' \in [Streams -> StreamObject]
  BY <1>4 DEF Teardown, TypeOK
<1>6. CASE Current = {s}
  <2>1. conn' = ShutDown(conn) /\ req' = [NoRequests EXCEPT !.seq = q.seq] /\ net' = Offline
    BY <1>6 DEF Teardown
  <2>2. NoRequests \in Tables
    BY <1>1, TableTypes DEF NoRequests
  <2>3. req' \in Tables
    <3> HIDE DEF q
    <3> QED BY <1>2, <2>1, <2>2 DEF Tables
  <2> QED BY <1>1, <1>3, <1>5, <2>1, <2>3, ConnTypes, OfflineType
<1>7. CASE Current # {s}
  <2>1. /\ req' = WithoutThoseOf(q, s) /\ UNCHANGED conn
        /\ net' = IF drop THEN Cancel(net, q.seq, r.sub) ELSE net
    BY <1>7 DEF Teardown
  <2>2. req' \in Tables
    <3> HIDE DEF q
    <3> QED BY <1>1, <1>2, <2>1, TableTypes
  <2>3. net' \in Like(net) /\ net' \in Network
    BY <1>1, <1>2, <2>1, CancelType DEF Like
  <2> QED BY <1>1, <1>3, <1>5, <2>1, <2>2, <2>3
<1> QED BY <1>6, <1>7

-----------------------------------------------------------------------------
(* Every action keeps the types: the application, microtasks, timers.      *)

LEMMA ConnectKeepsTypes ==
    ASSUME TypeOK, NEW c \in Consumers, NEW ch \in Channels, Connect(c, ch)
    PROVE  TypeOK'
<1>1. CASE subs[ch] # NoStream /\ Join(c, subs[ch])
  <2>1. subs[ch] \in Streams
    BY <1>1 DEF TypeOK, MaybeStream
  <2>2. PICK s \in Streams : s = subs[ch]
    BY <2>1
  <2>3. Task("catchUp", s, {c}) \in Tasks
    BY DEF Task, Tasks
  <2>4. micro' \in Seq(Tasks)
    BY <1>1, <2>2, <2>3 DEF Join, TypeOK
  <2>5. [stream[s] EXCEPT !.consumers = @ \cup {c}] \in StreamObject
    BY DEF TypeOK, StreamObject
  <2>6. stream' \in [Streams -> StreamObject]
    BY <1>1, <2>2, <2>5 DEF Join, TypeOK
  <2>7. [consumer[c] EXCEPT !.s = s] \in Held
    BY DEF TypeOK, Held, MaybeStream
  <2>8. consumer' \in [Consumers -> Held]
    BY <1>1, <2>2, <2>7 DEF Join, TypeOK
  <2> QED BY <1>1, <2>4, <2>6, <2>8 DEF Connect, Join, TypeOK
<1>2. ASSUME NEW s \in Streams, Establish(c, ch, s)
      PROVE  TypeOK'
  <2>1. subs' \in [Channels -> MaybeStream]
    BY <1>2 DEF Establish, TypeOK, MaybeStream
  <2>2. [stream[s] EXCEPT !.channel = ch, !.consumers = {c}] \in StreamObject
    BY DEF TypeOK, StreamObject
  <2>3. stream' \in [Streams -> StreamObject]
    BY <1>2, <2>2 DEF Establish, TypeOK
  <2>4. [consumer[c] EXCEPT !.s = s, !.caughtUp = TRUE] \in Held
    BY DEF TypeOK, Held, MaybeStream
  <2>5. consumer' \in [Consumers -> Held]
    <3>1. consumer' = [consumer EXCEPT ![c] = [consumer[c] EXCEPT !.s = s, !.caughtUp = TRUE]]
      BY <1>2 DEF Establish, TypeOK
    <3> QED BY <2>4, <3>1 DEF TypeOK
  <2>6. req' \in Tables /\ conn' \in Connection /\ fetches' \in SUBSET Fetches
        /\ micro' \in Seq(Tasks) /\ faults' \in Nat
    <3>1. CASE StartSubscribe(s, req) /\ UNCHANGED <<conn, micro, faults>>
      BY <3>1, StartSubscribeTypes DEF TypeOK
    <3>2. CASE Open(conn) /\ UNCHANGED req
      BY <3>2, OpenTypes DEF TypeOK
    <3>3. CASE UNCHANGED <<req, conn, fetches, micro, faults>>
      BY <3>3 DEF TypeOK
    <3> QED BY <1>2, <3>1, <3>2, <3>3 DEF Establish
  <2> QED BY <2>1, <2>3, <2>5, <2>6 DEF Connect, TypeOK
<1> QED BY <1>1, <1>2 DEF Connect

LEMMA RemoveKeepsTypes ==
    ASSUME TypeOK, NEW c \in Consumers, Remove(c)
    PROVE  TypeOK'
<1>1. PICK s \in Streams :
         /\ stream' = [stream EXCEPT ![s].consumers = @ \ {c}]
         /\ micro' \in {micro, Append(micro, Task("teardown", s, {}))}
  BY DEF Remove
<1>2. [stream[s] EXCEPT !.consumers = @ \ {c}] \in StreamObject
  BY DEF TypeOK, StreamObject
<1>3. stream' \in [Streams -> StreamObject]
  BY <1>1, <1>2 DEF TypeOK
<1>4. Task("teardown", s, {}) \in Tasks
  BY DEF Task, Tasks
<1>5. Append(micro, Task("teardown", s, {})) \in Seq(Tasks) /\ micro \in Seq(Tasks)
  BY <1>4 DEF TypeOK
<1>6. micro' \in Seq(Tasks)
  BY <1>1, <1>5
<1> QED BY <1>3, <1>6 DEF Remove, TypeOK, env

LEMMA DisconnectKeepsTypes ==
    ASSUME TypeOK, Disconnect
    PROVE  TypeOK'
<1>1. \A s \in Streams : [stream[s] EXCEPT !.retryTimer = 0, !.consumers = {}] \in StreamObject
  BY StreamTypes DEF TypeOK
<1>2. stream' \in [Streams -> StreamObject]
  BY <1>1 DEF Disconnect, TypeOK
<1>3. req' \in Tables /\ conn' \in Connection /\ net' \in Network
  <2>1. req' = NoRequests /\ conn' = ShutDown(conn) /\ net' = Offline
    BY DEF Disconnect
  <2>2. conn \in Connection
    BY DEF TypeOK
  <2> QED BY <2>1, <2>2, NoRequestsType, ConnTypes, OfflineType
<1>4. UNCHANGED <<fetches, micro, turn, consumer, log, faults>>
  BY DEF Disconnect
<1>5. subs' \in [Channels -> MaybeStream]
  BY DEF Disconnect, MaybeStream
<1> QED BY <1>2, <1>3, <1>4, <1>5 DEF TypeOK

LEMMA RunMicrotaskKeepsTypes ==
    ASSUME TypeOK, RunMicrotask
    PROVE  TypeOK'
<1>1. Head(micro) \in Tasks /\ micro' \in Seq(Tasks)
  BY HeadTailProperties DEF RunMicrotask, TypeOK
<1> DEFINE task == Head(micro)
<1>2. CASE task.do = "catchUp"
  <2>1. task.s \in Streams /\ task.c \in SUBSET Consumers
    BY <1>1, <1>2 DEF Tasks
  <2>2. PICK c \in task.c : CatchUp(task.s, c)
    BY <1>2 DEF RunMicrotask
  <2>3. c \in Consumers
    BY <2>1, <2>2
  <2>4. [consumer[c] EXCEPT !.caughtUp = TRUE] \in Held
    BY <2>3 DEF TypeOK, Held
  <2>5. consumer' \in [Consumers -> Held]
    BY <2>2, <2>3, <2>4 DEF CatchUp, TypeOK
  <2>6. WhatIsKnown(task.s, c) \in Seq(Jobs)
    <3> DEFINE r == stream[task.s]
    <3>1. r \in StreamObject
      BY <2>1 DEF TypeOK
    <3>2. r.stale \in Scopes /\ (r.orders = NoView \/ r.orders \in Views)
      BY <3>1 DEF StreamObject, MaybeView
    <3>3. \A known \in BOOLEAN, ev \in Events : DeliverIf(known, task.s, ev, c) \in Seq(Jobs)
      BY <2>1, <2>3, JobTypes, ShortSeqs DEF DeliverIf
    <3>4. DeliverIf(r.state = "connected", task.s, Link("connected"), c) \in Seq(Jobs)
      BY <3>3, EventTypes
    <3>5. DeliverIf(r.orders # NoView, task.s, Snapshot(r.orders), c) \in Seq(Jobs)
      BY <3>2, <3>3, EventTypes, ShortSeqs DEF DeliverIf
    <3>6. DeliverIf(r.stale # "no", task.s, Stale(r.stale), c) \in Seq(Jobs)
      BY <3>2, <3>3, EventTypes
    <3> HIDE DEF r
    <3> QED BY <3>4, <3>5, <3>6, ConcatProperties DEF WhatIsKnown, r
  <2>7. turn' \in Seq(Jobs)
    BY <2>2, <2>6 DEF CatchUp, TypeOK
  <2> QED BY <1>1, <1>2, <2>5, <2>7 DEF RunMicrotask, TypeOK, core
<1>3. CASE task.do = "teardown"
  <2>1. task.s \in Streams /\ stream[task.s] \in StreamObject
    BY <1>1, <1>3 DEF Tasks, TypeOK
  <2>2. CASE Teardown(task.s, stream[task.s])
    BY <1>1, <1>3, <2>1, <2>2, TeardownTypes DEF RunMicrotask, TypeOK
  <2>3. CASE UNCHANGED <<core, net>>
    BY <1>1, <1>3, <2>3 DEF RunMicrotask, TypeOK, core
  <2> QED BY <1>3, <2>2, <2>3 DEF RunMicrotask
<1>4. CASE task.do = "terminateAll"
  <2>1. turn' \in Seq(Jobs)
    BY <1>4, ClientJobTypes, ShortSeqs DEF RunMicrotask
  <2> QED BY <1>1, <1>4, <2>1 DEF RunMicrotask, TypeOK, core
<1> QED BY <1>2, <1>3, <1>4 DEF RunMicrotask

LEMMA ReconnectTimerKeepsTypes ==
    ASSUME TypeOK, ReconnectTimer
    PROVE  TypeOK'
<1>1. PICK stray \in BOOLEAN :
         /\ IF stray THEN conn.strays > 0 ELSE conn.timer
         /\ Open(Fired(stray)) \/ (conn' = Fired(stray) /\ UNCHANGED <<fetches, micro, faults>>)
  BY DEF ReconnectTimer
<1>2. Fired(stray) \in Connection
  <2>1. conn \in Connection /\ conn.strays \in Nat
    BY DEF TypeOK, Connection
  <2>2. stray => conn.strays - 1 \in Nat
    BY <1>1, <2>1
  <2> QED BY <2>1, <2>2 DEF Fired, Connection
<1>3. conn' \in Connection /\ fetches' \in SUBSET Fetches /\ micro' \in Seq(Tasks) /\ faults' \in Nat
  BY <1>1, <1>2, OpenTypes DEF TypeOK
<1> QED BY <1>3 DEF ReconnectTimer, TypeOK

LEMMA RetryTimerKeepsTypes ==
    ASSUME TypeOK, NEW s \in Streams, RetryTimer(s)
    PROVE  TypeOK'
<1>1. [stream[s] EXCEPT !.retryTimer = 0] \in StreamObject
  BY DEF TypeOK, StreamObject
<1>2. stream' \in [Streams -> StreamObject]
  BY <1>1 DEF RetryTimer, TypeOK
<1>3. req' \in Tables /\ fetches' \in SUBSET Fetches
  BY StartSubscribeTypes DEF RetryTimer, TypeOK
<1> QED BY <1>2, <1>3 DEF RetryTimer, TypeOK, env

-----------------------------------------------------------------------------
(* Token fetches and the socket.  A subscription request is made only for a *)
(* stream that has been given its channel.                                  *)

Named   == Current \cup {p.s : p \in req.pending} \cup {b.s : b \in req.bySub}
              \cup ({f.s : f \in fetches} \ {NoStream})
Created == \A s \in Named : stream[s].channel \in Channels

LEMMA FetchFields ==
    \A f \in Fetches : /\ f.ws \in Nat /\ f.gen \in Nat /\ f.id \in Nat
                       /\ f.kind \in {"subscribe", "refresh"} => f.s \in Streams
                       /\ f.kind \in {"connect", "reauth"} => f.s = NoStream
BY DEF Fetches

LEMMA FaultType == ASSUME TypeOK, NEW kind, Fault(kind) PROVE faults' \in Nat
BY DEF TypeOK, Fault

LEMMA ServerAnswersTypes ==
    ASSUME TypeOK, NEW id \in Nat, NEW ch \in Channels, NEW cursor \in Cursors,
           ServerAnswers(id, ch, cursor)
    PROVE  net' \in Like(net) /\ faults' \in Nat
<1>1. net \in Network /\ NoCursor \in Cursors
  BY DEF TypeOK, Cursors
<1>2. CASE net' = (IF net.phase = "open" THEN Accept(net, id, ch, cursor) ELSE net) /\ UNCHANGED faults
  <2>1. Accept(net, id, ch, cursor) \in Like(net) /\ net \in Like(net)
    BY <1>1, AcceptType DEF Like
  <2> QED BY <1>2, <2>1 DEF TypeOK
<1>3. ASSUME Fault("cursorExpired"),
             LET n == Accept(net, id, ch, NoCursor)
                 r == CHOOSE x \in n.srv : x.sub = id
             IN  net' = Emit(n, r, r, <<"resync">>, NoCursor, "none")
      PROVE  net' \in Like(net) /\ faults' \in Nat
  <2> DEFINE n == Accept(net, id, ch, NoCursor)
             r == CHOOSE x \in n.srv : x.sub = id
  <2>1. n \in Like(net) /\ \E x \in n.srv : x.sub = id
    BY <1>1, AcceptType
  <2>2. r \in n.srv /\ n \in Network
    BY <2>1 DEF Like
  <2>3. r \in ServerSubs /\ "resync" \in FrameKinds
    BY <2>2 DEF Network, FrameKinds, StreamFrames
  <2>4. net' = Emit(n, r, r, <<"resync">>, NoCursor, "none")
    BY <1>3
  <2> HIDE DEF n, r
  <2>5. net' \in Like(n)
    BY <1>1, <2>2, <2>3, <2>4, EmitOneType DEF Like
  <2> QED BY <1>3, <2>1, <2>5, FaultType DEF Like
<1>4. ASSUME NEW note \in {"cursorInvalid", "forbidden"}, NEW kind, Fault(kind),
             net' = Post(net, Reply("error", id, 0, note))
      PROVE  net' \in Like(net) /\ faults' \in Nat
  <2>1. Reply("error", id, 0, note) \in Frames
    BY ReplyType DEF Plain, FrameKinds, StreamFrames, Notes
  <2> QED BY <1>1, <1>4, <2>1, PostType, FaultType DEF Like
<1> QED BY <1>2, <1>3, <1>4 DEF ServerAnswers

LEMMA FetchSettlesKeepsTypes ==
    ASSUME TypeOK, Created, FetchSettles
    PROVE  TypeOK'
<1>1. PICK f \in fetches :
         /\ fetches' = fetches \ {f}
         /\ \/ /\ Wanted(f)
               /\ \/ f.kind = "connect"   /\ ConnectToken(f)
                  \/ f.kind = "reauth"    /\ ReauthToken
                  \/ f.kind = "subscribe" /\ SubscribeToken(f)
                  \/ f.kind = "refresh"   /\ RefreshToken(f)
            \/ ~Wanted(f) /\ UNCHANGED <<core, turn, net, faults>>
  BY DEF FetchSettles
<1>2. f \in Fetches /\ fetches' \in SUBSET Fetches /\ conn \in Connection /\ req \in Tables
      /\ net \in Network /\ faults \in Nat /\ turn \in Seq(Jobs)
  BY <1>1 DEF TypeOK
<1>3. UNCHANGED <<micro, consumer, log>>
  BY DEF FetchSettles
<1>4. /\ \A do \in {"terminateAll", "reportAll"} : <<Every(do)>> \in Seq(Jobs)
      /\ AfterTokenFailure \in Seq(Jobs)
  BY ClientJobTypes, ShortSeqs DEF AfterTokenFailure
<1>5. CASE f.kind = "connect" /\ ConnectToken(f)
  <2> DEFINE ended == [conn EXCEPT !.connecting = FALSE]
  <2>1. ended \in Connection /\ [ended EXCEPT !.ws = f.ws, !.authSent = FALSE] \in Connection
    BY <1>2, FetchFields DEF Connection
  <2>2. [Offline EXCEPT !.phase = "connecting"] \in Network
    BY OfflineType DEF Network
  <2>3. conn' \in Connection
    BY <1>5, <2>1 DEF ConnectToken
  <2>4. net' \in Network /\ turn' \in Seq(Jobs) /\ faults' \in Nat
    BY <1>2, <1>4, <1>5, <2>2, FaultType DEF ConnectToken, TokenFails
  <2> QED BY <1>2, <1>3, <1>5, <2>3, <2>4 DEF ConnectToken, TypeOK
<1>6. CASE f.kind = "reauth" /\ ReauthToken
  <2>1. turn' \in Seq(Jobs) /\ faults' \in Nat
    BY <1>2, <1>4, <1>6, FaultType DEF ReauthToken, TokenFails
  <2> QED BY <1>2, <1>3, <1>6, <2>1 DEF ReauthToken, TypeOK, core
<1>7. CASE Wanted(f) /\ f.kind = "subscribe" /\ SubscribeToken(f)
  <2>1. f.s \in Streams /\ f.id \in Nat /\ f.ws \in Nat
    BY <1>2, <1>7, FetchFields
  <2>2. Request(f.id, "subscribe", f.s) \in req.pending
    BY <1>7 DEF Wanted
  <2>3. stream[f.s].channel \in Channels
    BY <2>2 DEF Created, Named, Request
  <2>4. stream[f.s].cursor \in Cursors
    BY <2>1 DEF TypeOK, StreamObject
  <2>5. CASE ServerAnswers(f.id, stream[f.s].channel, stream[f.s].cursor) /\ UNCHANGED <<req, turn>>
    <3>1. net' \in Network /\ faults' \in Nat
      BY <2>1, <2>3, <2>4, <2>5, ServerAnswersTypes DEF Like
    <3> QED BY <1>2, <1>3, <1>7, <2>5, <3>1 DEF SubscribeToken, TypeOK
  <2>6. ASSUME NEW terminal \in BOOLEAN, TokenFails(terminal),
               req' = [req EXCEPT !.pending = @ \ {Request(f.id, "subscribe", f.s)}],
               turn' = (IF terminal THEN <<Step("terminate", f.s)>>
                        ELSE <<Report(f.s), Job("retry", f.s, Link("disconnected"), {f.ws})>>),
               UNCHANGED net
        PROVE  TypeOK'
    <3>1. req' \in Tables
      BY <1>2, <2>6 DEF Tables
    <3>2. /\ Step("terminate", f.s) \in Jobs /\ Report(f.s) \in Jobs
          /\ Job("retry", f.s, Link("disconnected"), {f.ws}) \in Jobs
      <4>1. {f.ws} \in SUBSET Nat
        BY <2>1
      <4> QED BY <2>1, <4>1, JobTypes, EventTypes, ClientJobTypes
    <3>3. turn' \in Seq(Jobs)
      BY <2>6, <3>2, ShortSeqs
    <3>4. faults' \in Nat
      BY <2>6, FaultType DEF TokenFails
    <3> QED BY <1>2, <1>3, <1>7, <2>6, <3>1, <3>3, <3>4 DEF SubscribeToken, TypeOK
  <2> QED BY <1>7, <2>5, <2>6 DEF SubscribeToken
<1>8. CASE f.kind = "refresh" /\ RefreshToken(f)
  <2>1. f.s \in Streams /\ f.id \in Nat
    BY <1>2, <1>8, FetchFields
  <2>2. CASE \E terminal \in BOOLEAN : TokenFails(terminal) /\ turn' = <<Report(f.s)>> /\ UNCHANGED <<req, net>>
    <3>1. turn' \in Seq(Jobs) /\ faults' \in Nat
      BY <2>1, <2>2, ClientJobTypes, ShortSeqs, FaultType DEF TokenFails
    <3> QED BY <1>2, <1>3, <1>8, <2>2, <3>1 DEF RefreshToken, TypeOK
  <2>3. ASSUME req' = [req EXCEPT !.seq = req.seq + 1,
                                  !.pending = @ \cup {Request(req.seq + 1, "refresh", f.s)}],
               \/ net' = Renew(net, req.seq + 1, f.id) /\ UNCHANGED faults
               \/ Fault("refuseRefresh") /\ net' = Post(net, Reply("error", req.seq + 1, f.id, "forbidden")),
               UNCHANGED turn
        PROVE  TypeOK'
    <3>1. req.seq + 1 \in Nat
      BY <1>2 DEF Tables
    <3>2. Request(req.seq + 1, "refresh", f.s) \in Requests
      BY <2>1, <3>1 DEF Request, Requests
    <3>3. req' \in Tables
      BY <1>2, <2>3, <3>1, <3>2 DEF Tables
    <3>4. Reply("error", req.seq + 1, f.id, "forbidden") \in Frames
      BY <2>1, <3>1, ReplyType DEF Plain, FrameKinds, StreamFrames, Notes
    <3>5. net' \in Network
      <4>1. Renew(net, req.seq + 1, f.id) \in Network
        BY <1>2, <2>1, <3>1, CancelType DEF Like
      <4>2. Post(net, Reply("error", req.seq + 1, f.id, "forbidden")) \in Network
        BY <1>2, <3>4, PostType
      <4> QED BY <2>3, <4>1, <4>2
    <3>6. faults' \in Nat
      BY <1>2, <2>3, FaultType
    <3> QED BY <1>2, <1>3, <1>8, <2>3, <3>3, <3>5, <3>6 DEF RefreshToken, TypeOK
  <2> QED BY <1>8, <2>2, <2>3 DEF RefreshToken
<1>9. CASE UNCHANGED <<core, turn, net, faults>>
  BY <1>2, <1>3, <1>9 DEF TypeOK, core
<1> QED BY <1>1, <1>5, <1>6, <1>7, <1>8, <1>9

LEMMA SocketOpensKeepsTypes ==
    ASSUME TypeOK, SocketOpens
    PROVE  TypeOK'
<1>1. /\ Current \subseteq Streams /\ IsFiniteSet(Current)
      /\ Cardinality(Current) \in Nat
  BY CurrentStreams, FiniteAssumption, FS_Subset, FS_CardinalityType
<1>2. req \in Tables /\ req.seq \in Nat /\ conn \in Connection /\ conn.ws \in Nat
      /\ fetches \in SUBSET Fetches /\ net \in Network
  BY DEF TypeOK, Tables, Connection
<1>3. PICK rank \in [Current -> 1 .. Cardinality(Current)] :
         /\ req' = [req EXCEPT !.seq = @ + Cardinality(Current), !.pending = @ \cup
                       {Request(req.seq + rank[s], "subscribe", s) : s \in Current}]
         /\ fetches' = fetches \cup
                       {Fetch("subscribe", conn.ws, 0, s, req.seq + rank[s]) : s \in Current}
  BY DEF SocketOpens
<1>4. \A s \in Current : s \in Streams /\ req.seq + rank[s] \in Nat
  BY <1>1, <1>2
<1>5. \A s \in Current : Request(req.seq + rank[s], "subscribe", s) \in Requests
  BY <1>4 DEF Request, Requests
<1>6. \A s \in Current : Fetch("subscribe", conn.ws, 0, s, req.seq + rank[s]) \in Fetches
  BY <1>2, <1>4 DEF Fetch, Fetches
<1>7. req' \in Tables
  <2> DEFINE asked == {Request(req.seq + rank[s], "subscribe", s) : s \in Current}
             last == req.seq + Cardinality(Current)
  <2>1. last \in Nat /\ asked \subseteq Requests
    BY <1>1, <1>2, <1>5
  <2>2. req' = [req EXCEPT !.seq = last, !.pending = @ \cup asked]
    BY <1>3
  <2> HIDE DEF asked, last
  <2> QED BY <1>2, <2>1, <2>2 DEF Tables
<1>8. fetches' \in SUBSET Fetches
  BY <1>2, <1>3, <1>6
<1>9. conn' \in Connection /\ net' \in Network
  BY <1>2 DEF SocketOpens, Connection, Network
<1> QED BY <1>7, <1>8, <1>9 DEF SocketOpens, TypeOK

LEMMA ClosedKeepsTypes ==
    ASSUME TypeOK, NEW terminal \in BOOLEAN, Closed(terminal), faults' \in Nat
    PROVE  TypeOK'
<1>1. PICK stable \in BOOLEAN :
         LET c == [conn EXCEPT !.ws = 0, !.authSent = FALSE, !.attempt = IF stable THEN 0 ELSE @]
         IN  conn' = IF Current = {} \/ terminal THEN c ELSE Scheduled(c)
  BY DEF Closed
<1>2. conn' \in Connection
  <2> DEFINE c == [conn EXCEPT !.ws = 0, !.authSent = FALSE, !.attempt = IF stable THEN 0 ELSE @]
  <2>1. c \in Connection
    BY DEF TypeOK, Connection
  <2>2. conn' \in {c, Scheduled(c)}
    BY <1>1
  <2> HIDE DEF c
  <2> QED BY <2>1, <2>2, ConnTypes
<1>3. turn' \in Seq(Jobs)
  <2>1. Every("terminateAll") \in Jobs /\ Step("closed", NoStream) \in Jobs
    BY ClientJobTypes
  <2> QED BY <2>1, ShortSeqs DEF Closed
<1>4. stream' \in [Streams -> StreamObject]
  <2>1. \A s \in Streams : Detached(stream[s]) \in StreamObject
    BY StreamTypes DEF TypeOK
  <2> QED BY <2>1 DEF Closed, TypeOK
<1>5. req' \in Tables
  BY NoRequestsType DEF Closed
<1>6. net' \in Network
  BY OfflineType DEF Closed
<1>7. UNCHANGED <<subs, fetches, micro, consumer, log>>
  BY DEF Closed
<1> QED BY <1>2, <1>3, <1>4, <1>5, <1>6, <1>7 DEF TypeOK

LEMMA SocketClosesKeepsTypes ==
    ASSUME TypeOK, SocketCloses \/ HeartbeatTimer
    PROVE  TypeOK'
<1>1. faults' \in Nat
  BY FaultType DEF SocketCloses, HeartbeatTimer, TypeOK
<1>2. Closed(net.phase = "refused") \/ Closed(FALSE)
  BY DEF SocketCloses, HeartbeatTimer
<1> QED BY <1>1, <1>2, ClosedKeepsTypes

-----------------------------------------------------------------------------
(* Frames.                                                                 *)

\* What one frame may change, and how the variables it changes must be typed.
FrameTypes == /\ stream' \in [Streams -> StreamObject] /\ req' \in Tables
              /\ fetches' \in SUBSET Fetches /\ turn' \in Seq(Jobs) /\ net' \in Like(net)
              /\ Dialled' = Dialled
              /\ UNCHANGED <<subs, conn>>

LEMMA ReadType ==
    ASSUME TypeOK, net.wire # <<>>
    PROVE  Read \in Like(net) /\ Read \in Network /\ Like(Read) = Like(net) /\ Head(net.wire) \in Frames
<1>1. net.wire \in Seq(Frames)
  BY DEF TypeOK, Network
<1>2. Tail(net.wire) \in Seq(Frames) /\ Head(net.wire) \in Frames
  BY <1>1, HeadTailProperties
<1> QED BY <1>2 DEF TypeOK, Network, Read, Like

LEMMA AnsweredTypes ==
    ASSUME TypeOK, net.wire # <<>>, NEW q \in Tables, NEW jobs \in Seq(Jobs), Answered(q, jobs)
    PROVE  FrameTypes
BY ReadType DEF Answered, FrameTypes, TypeOK, Dialled

LEMMA UpdateTypes ==
    ASSUME TypeOK, net.wire # <<>>, NEW s \in Streams, NEW r \in StreamObject,
           NEW jobs \in Seq(Jobs), Update(s, r, jobs)
    PROVE  FrameTypes
BY ReadType DEF Update, FrameTypes, TypeOK, Dialled

LEMMA FrameFields ==
    \A f \in Frames : /\ f.id \in Nat /\ f.sub \in Nat /\ f.seq \in Nat /\ f.pos \in Cursors
                      /\ f.kind = "unit" => f.pos \in Positions \ {0}
                      /\ f.kind \in {"unavailable", "available"} => f.note \in Scopes
BY DEF Frames, Cursors

LEMMA EndedTypes ==
    ASSUME TypeOK, net.wire # <<>>, NEW s \in Streams, NEW q \in Tables, Ended(s, q)
    PROVE  FrameTypes
<1>1. [stream[s] EXCEPT !.sub = 0] \in StreamObject /\ stream[s].sub \in Nat
  BY DEF TypeOK, StreamObject
<1>2. Unnamed(q, stream[s].sub) \in Tables
  BY <1>1, TableTypes
<1>3. Read \in Network /\ Like(Read) = Like(net)
  BY ReadType
<1> QED BY <1>1, <1>2, <1>3, ResubscribeTypes DEF Ended, FrameTypes

LEMMA OnSubscribedTypes ==
    ASSUME TypeOK, net.wire # <<>>, NEW f \in Frames, OnSubscribed(f)
    PROVE  FrameTypes
<1>1. req \in Tables /\ req.seq + 1 \in Nat /\ f.sub \in Nat /\ fetches \in SUBSET Fetches
      /\ stream \in [Streams -> StreamObject] /\ turn \in Seq(Jobs)
  BY FrameFields DEF TypeOK, Tables
<1>2. CASE DropUnwanted(f)
  <2>1. Unsubscribing(req, f.sub) \in Tables
    BY <1>1, TableTypes
  <2>2. Cancel(Read, req.seq + 1, f.sub) \in Like(net)
    BY <1>1, ReadType, CancelType
  <2> QED BY <1>1, <1>2, <2>1, <2>2 DEF DropUnwanted, FrameTypes, Dialled
<1>3. ASSUME NEW s \in Streams,
             req' = [Forget(f.id) EXCEPT !.bySub = @ \cup {[sub |-> f.sub, s |-> s]}],
             stream' = [stream EXCEPT ![s].sub = f.sub, ![s].seq = 0, ![s].state = "connected"],
             turn' = (IF stream[s].state = "connected" THEN <<>>
                      ELSE <<Deliver(s, Link("connected"))>>) \o <<Step("unstale", s)>>,
             net' = Read, UNCHANGED <<subs, conn, fetches>>
      PROVE  FrameTypes
  <2>1. Forget(f.id) \in Tables
    BY <1>1, TableTypes DEF Forget
  <2>2. req' \in Tables
    <3> DEFINE q == Forget(f.id)
    <3>1. q \in Tables
      BY <2>1
    <3>2. req' = [q EXCEPT !.bySub = @ \cup {[sub |-> f.sub, s |-> s]}]
      BY <1>3
    <3> HIDE DEF q
    <3> QED BY <1>1, <3>1, <3>2 DEF Tables
  <2>3. [stream[s] EXCEPT !.sub = f.sub, !.seq = 0, !.state = "connected"] \in StreamObject
    BY <1>1 DEF StreamObject, LinkStates
  <2>4. stream' = [stream EXCEPT ![s] = [stream[s] EXCEPT !.sub = f.sub, !.seq = 0, !.state = "connected"]]
    BY <1>1, <1>3
  <2>5. stream' \in [Streams -> StreamObject]
    BY <1>1, <2>3, <2>4
  <2>6. turn' \in Seq(Jobs)
    <3>1. Deliver(s, Link("connected")) \in Jobs /\ Step("unstale", s) \in Jobs
      BY EventTypes, JobTypes
    <3>2. /\ <<Step("unstale", s)>> \in Seq(Jobs) /\ <<Deliver(s, Link("connected"))>> \in Seq(Jobs)
          /\ <<>> \in Seq(Jobs)
      BY <3>1, ShortSeqs
    <3> QED BY <1>3, <3>2, ConcatProperties
  <2> QED BY <1>1, <1>3, <2>2, <2>5, <2>6, ReadType DEF FrameTypes, Dialled
<1> QED BY <1>2, <1>3 DEF OnSubscribed

LEMMA OnErrorTypes ==
    ASSUME TypeOK, net.wire # <<>>, NEW f \in Frames, OnError(f)
    PROVE  FrameTypes
<1>1. req \in Tables /\ f.sub \in Nat
  BY FrameFields DEF TypeOK
<1>2. /\ req.pending \subseteq Requests /\ req.bySub \subseteq [sub : Nat, s : Streams]
      /\ \A p \in req.pending : p.s \in Streams
      /\ \A b \in req.bySub : b.s \in Streams
  BY <1>1 DEF Tables, Requests
<1>3. Forget(f.id) \in Tables /\ [req EXCEPT !.unsubscribing = @ \ {f.id}] \in Tables
  BY <1>1, TableTypes DEF Forget
<1>4. <<>> \in Seq(Jobs) /\ <<Every("reportAll")>> \in Seq(Jobs)
  BY ClientJobTypes, ShortSeqs
<1>5. ASSUME NEW s \in Streams
      PROVE  <<Report(s)>> \in Seq(Jobs) /\ <<Step("terminate", s)>> \in Seq(Jobs)
  <2>1. Report(s) \in Jobs /\ Step("terminate", s) \in Jobs
    BY ClientJobTypes, JobTypes, EventTypes
  <2> QED BY <2>1, ShortSeqs
<1>6. ASSUME NEW s \in Streams, Ended(s, Forget(f.id)) \/ Answered(Forget(f.id), <<Report(s)>>)
      PROVE  FrameTypes
  BY <1>3, <1>5, <1>6, EndedTypes, AnsweredTypes
<1>7. ASSUME NEW s \in Streams, SubscribeError(s, f)
      PROVE  FrameTypes
  <2>1. CASE Answered(Forget(f.id), <<Step("terminate", s)>>)
    BY <1>3, <1>5, <2>1, AnsweredTypes
  <2>2. CASE /\ stream' = [stream EXCEPT ![s].cursor = NoCursor]
             /\ StartSubscribe(s, Forget(f.id))
             /\ net' = Read
             /\ UNCHANGED <<subs, conn, turn>>
    <3>1. [stream[s] EXCEPT !.cursor = NoCursor] \in StreamObject
      BY DEF TypeOK, StreamObject, Cursors
    <3>2. stream' \in [Streams -> StreamObject]
      BY <2>2, <3>1 DEF TypeOK
    <3>3. req' \in Tables /\ fetches' \in SUBSET Fetches /\ Dialled' = Dialled
      BY <1>3, <2>2, StartSubscribeTypes
    <3>4. turn' \in Seq(Jobs) /\ net' \in Like(net)
      BY <2>2, ReadType DEF TypeOK
    <3> QED BY <2>2, <3>2, <3>3, <3>4 DEF FrameTypes
  <2> QED BY <1>7, <2>1, <2>2 DEF SubscribeError
<1>8. CASE Answered([req EXCEPT !.unsubscribing = @ \ {f.id}], <<>>) \/ Answered(req, <<>>)
           \/ Answered(req, <<Every("reportAll")>>)
  BY <1>1, <1>3, <1>4, <1>8, AnsweredTypes
<1>9. CASE \E s \in Streams : \/ Ended(s, Forget(f.id)) \/ Answered(Forget(f.id), <<Report(s)>>)
                              \/ SubscribeError(s, f)
  BY <1>6, <1>7, <1>9
<1> QED BY <1>2, <1>8, <1>9 DEF OnError

LEMMA SnapshotEndTypes ==
    ASSUME TypeOK, net.wire # <<>>, NEW f \in Frames, NEW s \in Streams, SnapshotEnd(s, f)
    PROVE  FrameTypes
<1> DEFINE r == [stream[s] EXCEPT !.seq = f.seq, !.staged = NoView]
           view == stream[s].staged
<1>1. stream[s] \in StreamObject /\ f.seq \in Nat /\ f.pos \in Cursors /\ req \in Tables
  BY FrameFields DEF TypeOK
<1>2. r \in StreamObject /\ view \in MaybeView
  BY <1>1 DEF StreamObject, MaybeView
<1>3. Read \in Network /\ Like(Read) = Like(net)
  BY ReadType
<1>4. [r EXCEPT !.cursor = NoCursor] \in StreamObject
  <2> HIDE DEF r
  <2> QED BY <1>2 DEF StreamObject, Cursors
<1>5. CASE Resubscribe(s, [r EXCEPT !.cursor = NoCursor], req, Read)
  BY <1>1, <1>3, <1>4, <1>5, ResubscribeTypes DEF FrameTypes
<1>6. CASE /\ view # NoView
           /\ Update(s, [r EXCEPT !.cursor = f.pos, !.retries = 0, !.orders = view],
                     <<Deliver(s, Snapshot(view))>>)
  <2>1. [r EXCEPT !.cursor = f.pos, !.retries = 0, !.orders = view] \in StreamObject
    <3> HIDE DEF r, view
    <3> QED BY <1>1, <1>2 DEF StreamObject
  <2>2. Snapshot(view) \in Events
    BY <1>2, <1>6, EventTypes DEF MaybeView
  <2>3. <<Deliver(s, Snapshot(view))>> \in Seq(Jobs)
    BY <2>2, JobTypes, ShortSeqs
  <2> QED BY <1>6, <2>1, <2>3, UpdateTypes
<1> QED BY <1>5, <1>6 DEF SnapshotEnd

LEMMA OnUnitTypes ==
    ASSUME TypeOK, net.wire # <<>>, NEW f \in Frames, NEW s \in Streams, f.kind = "unit", OnUnit(s, f)
    PROVE  FrameTypes
<1>1. /\ stream[s] \in StreamObject /\ f.seq \in Nat /\ f.pos \in Cursors /\ f.pos \in Positions \ {0}
      /\ stream[s].orders \in MaybeView
  BY FrameFields DEF TypeOK, StreamObject
<1> DEFINE orders == IF stream[s].orders = NoView THEN stream[s].orders ELSE Apply(stream[s].orders, f.pos)
<1>2. orders \in MaybeView
  BY <1>1, ViewTypes DEF MaybeView
<1>3. [stream[s] EXCEPT !.seq = f.seq, !.cursor = f.pos, !.retries = 0, !.orders = orders] \in StreamObject
  <2> HIDE DEF orders
  <2> QED BY <1>1, <1>2 DEF StreamObject
<1>4. UnitEvent(f.pos) \in Events
  BY <1>1, EventTypes
<1>5. <<Deliver(s, UnitEvent(f.pos))>> \in Seq(Jobs)
  BY <1>4, JobTypes, ShortSeqs
<1>6. Update(s, [stream[s] EXCEPT !.seq = f.seq, !.cursor = f.pos, !.retries = 0, !.orders = orders],
             <<Deliver(s, UnitEvent(f.pos))>>)
  BY <1>1 DEF OnUnit, StreamObject
<1> QED BY <1>3, <1>5, <1>6, UpdateTypes

LEMMA OnStreamFrameTypes ==
    ASSUME TypeOK, net.wire # <<>>, NEW f \in Frames, NEW s \in Streams, OnStreamFrame(s, f)
    PROVE  FrameTypes
<1> DEFINE r == IF f.seq > 0 THEN [stream[s] EXCEPT !.seq = f.seq] ELSE stream[s]
<1>1. stream[s] \in StreamObject /\ f.seq \in Nat /\ f.pos \in Cursors /\ req \in Tables /\ conn.ws \in Nat
  BY FrameFields DEF TypeOK, Connection
<1>2. r \in StreamObject /\ r.staged \in MaybeView /\ r.sub \in Nat
  BY <1>1 DEF StreamObject
<1>3. Read \in Network /\ Like(Read) = Like(net) /\ Read \in Like(net) /\ <<>> \in Seq(Jobs)
  BY ReadType
<1>4. CASE Resubscribe(s, stream[s], req, Read)
  BY <1>1, <1>3, <1>4, ResubscribeTypes DEF FrameTypes
<1> HIDE DEF r
<1>5. CASE Update(s, [r EXCEPT !.staged = EmptyView], <<>>)
  <2>1. [r EXCEPT !.staged = EmptyView] \in StreamObject
    BY <1>2, ViewTypes DEF StreamObject, MaybeView
  <2> QED BY <1>3, <1>5, <2>1, UpdateTypes
<1>6. CASE Update(s, [r EXCEPT !.staged = IF @ = NoView THEN @ ELSE ViewAt(f.pos)], <<>>)
  <2>1. (IF r.staged = NoView THEN r.staged ELSE ViewAt(f.pos)) \in MaybeView
    BY <1>1, <1>2, ViewTypes DEF MaybeView
  <2>2. [r EXCEPT !.staged = IF @ = NoView THEN @ ELSE ViewAt(f.pos)] \in StreamObject
    BY <1>2, <2>1 DEF StreamObject
  <2> QED BY <1>3, <1>6, <2>2, UpdateTypes
<1>7. CASE SnapshotEnd(s, f)
  BY <1>7, SnapshotEndTypes
<1>8. CASE f.kind = "unit" /\ OnUnit(s, f)
  BY <1>8, OnUnitTypes
<1>9. CASE \/ Update(s, [r EXCEPT !.cursor = f.pos, !.retries = 0], <<>>)
           \/ Update(s, [r EXCEPT !.retries = 0], <<>>) \/ Update(s, r, <<>>)
  <2>1. [r EXCEPT !.cursor = f.pos, !.retries = 0] \in StreamObject /\ [r EXCEPT !.retries = 0] \in StreamObject
    BY <1>1, <1>2 DEF StreamObject
  <2> QED BY <1>2, <1>3, <1>9, <2>1, UpdateTypes
<1>10. CASE /\ f.kind \in {"unavailable", "available"}
            /\ Update(s, [r EXCEPT !.stale = f.note], <<Deliver(s, Stale(f.note))>>)
  <2>1. f.note \in Scopes
    BY <1>10, FrameFields
  <2>2. [r EXCEPT !.stale = f.note] \in StreamObject
    BY <1>2, <2>1 DEF StreamObject
  <2>3. Stale(f.note) \in Events
    BY <2>1, EventTypes
  <2>4. <<Deliver(s, Stale(f.note))>> \in Seq(Jobs)
    BY <2>3, JobTypes, ShortSeqs
  <2> QED BY <1>10, <2>2, <2>4, UpdateTypes
<1>11. CASE /\ fetches' = fetches \cup {Fetch("refresh", conn.ws, 0, s, r.sub)}
            /\ net' = Read
            /\ UNCHANGED <<core, turn>>
  <2>1. Fetch("refresh", conn.ws, 0, s, r.sub) \in Fetches
    BY <1>1, <1>2 DEF Fetch, Fetches
  <2>2. Dialled' = Dialled
    BY <1>11, NotDialling DEF Fetch
  <2> QED BY <1>3, <1>11, <2>1, <2>2 DEF FrameTypes, TypeOK, core
<1>12. CASE Ended(s, req)
  BY <1>1, <1>12, EndedTypes
<1> QED BY <1>4, <1>5, <1>6, <1>7, <1>8, <1>9, <1>10, <1>11, <1>12 DEF OnStreamFrame, r

LEMMA OnFrameKeepsTypes ==
    ASSUME TypeOK, OnFrame \/ OnGarbledFrame
    PROVE  TypeOK' /\ net' \in Like(net) /\ Dialled' = Dialled /\ UNCHANGED conn
<1> DEFINE f == Head(net.wire)
<1>1. net.wire # <<>>
  BY DEF OnFrame, OnGarbledFrame
<1>2. f \in Frames /\ Read \in Like(net)
  BY <1>1, ReadType
<1>3. req \in Tables /\ conn.ws \in Nat /\ f.id \in Nat /\ \A b \in req.bySub : b.s \in Streams
  BY <1>2, FrameFields DEF TypeOK, Tables, Connection
<1>4. Forget(f.id) \in Tables /\ [req EXCEPT !.unsubscribing = @ \ {f.id}] \in Tables
  BY <1>3, TableTypes DEF Forget
<1>5. <<>> \in Seq(Jobs) /\ <<Every("reportAll")>> \in Seq(Jobs)
  BY ClientJobTypes, ShortSeqs
<1>6. FrameTypes
  <2>1. CASE \/ Answered(Forget(f.id), <<>>) \/ Answered([req EXCEPT !.unsubscribing = @ \ {f.id}], <<>>)
             \/ Answered(req, <<>>) \/ Answered(req, <<Every("reportAll")>>)
    BY <1>1, <1>3, <1>4, <1>5, <2>1, AnsweredTypes
  <2>2. CASE /\ fetches' = fetches \cup {Fetch("reauth", conn.ws, 0, NoStream, 0)}
             /\ net' = Read
             /\ UNCHANGED <<core, turn>>
    <3>1. Fetch("reauth", conn.ws, 0, NoStream, 0) \in Fetches
      BY <1>3 DEF Fetch, Fetches
    <3>2. Dialled' = Dialled
      BY <2>2, NotDialling DEF Fetch
    <3> QED BY <1>2, <2>2, <3>1, <3>2 DEF FrameTypes, TypeOK, core
  <2>3. CASE OnSubscribed(f)
    BY <1>1, <1>2, <2>3, OnSubscribedTypes
  <2>4. CASE OnError(f)
    BY <1>1, <1>2, <2>4, OnErrorTypes
  <2>5. CASE \E b \in req.bySub : OnStreamFrame(b.s, f)
    BY <1>1, <1>2, <1>3, <2>5, OnStreamFrameTypes
  <2> HIDE DEF f
  <2>6. CASE OnGarbledFrame
    BY <2>1, <2>6 DEF OnGarbledFrame
  <2>7. CASE OnFrame
    BY <2>1, <2>2, <2>3, <2>4, <2>5, <2>7 DEF OnFrame, f
  <2> QED BY <2>6, <2>7
<1>7. faults' \in Nat /\ UNCHANGED <<micro, consumer, log>>
  BY FaultType DEF OnFrame, OnGarbledFrame, TypeOK
<1> QED BY <1>6, <1>7 DEF FrameTypes, Like, TypeOK

-----------------------------------------------------------------------------
(* The rest of a turn.                                                     *)

LEMMA TurnType ==
    ASSUME TypeOK, turn # <<>>
    PROVE  /\ Head(turn) \in Jobs /\ Tail(turn) \in Seq(Jobs)
           /\ \A jobs \in Seq(Jobs) : jobs \o Tail(turn) \in Seq(Jobs)
<1>1. Head(turn) \in Jobs /\ Tail(turn) \in Seq(Jobs)
  BY HeadTailProperties DEF TypeOK
<1> QED BY <1>1, ConcatProperties

LEMMA JobFields ==
    \A job \in Jobs :
       /\ job.do \in {"deliver", "report", "call"} =>
             job.s \in Streams /\ job.ev \in Events /\ job.left \in SUBSET Consumers /\ job \in CallJobs
       /\ job.do \in {"terminate", "finish", "unstale", "retry"} => job.s \in Streams
       /\ job.do = "retry" => job.left \in SUBSET Nat
       /\ job.do \in {"terminateAll", "reportAll"} => job.left \in SUBSET Streams /\ job \in ClientJobs
BY DEF Jobs, CallJobs, StreamJobs, ClientJobs

LEMMA ToldType ==
    ASSUME NEW h \in Held, NEW ev \in Events
    PROVE  Told(h, ev) \in Held
<1>1. h.view \in MaybeView
  BY DEF Held
<1>2. CASE ev.type = "snapshot"
  <2>1. ev.view \in Views
    BY <1>2 DEF Events
  <2> QED BY <1>2, <2>1 DEF Told, Held, MaybeView
<1>3. CASE ev.type = "unit"
  <2> DEFINE view == Apply(IF h.view = NoView THEN EmptyView ELSE h.view, ev.pos)
  <2>1. ev.pos \in Positions
    BY <1>3 DEF Events
  <2>2. view \in Views
    BY <1>1, <2>1, ViewTypes DEF MaybeView
  <2>3. Told(h, ev) = [h EXCEPT !.view = view]
    BY <1>3 DEF Told, Held
  <2> HIDE DEF view
  <2> QED BY <2>2, <2>3 DEF Held, MaybeView
<1>4. CASE ev.type = "stale"
  <2>1. ev.stale \in Scopes
    BY DEF Events
  <2> QED BY <1>4, <2>1 DEF Told, Held
<1>5. CASE ev.type \in {"connected", "disconnected"}
  BY <1>5 DEF Told, Held, LinkStates
<1>6. ev.type \in {"snapshot", "unit", "stale", "connected", "disconnected"}
  BY DEF Events
<1> QED BY <1>2, <1>3, <1>4, <1>5, <1>6

LEMMA CallConsumerKeepsTypes ==
    ASSUME TypeOK, CallConsumer
    PROVE  TypeOK'
<1> DEFINE job == Head(turn)
<1>1. turn # <<>> /\ job \in Jobs
  BY TurnType DEF CallConsumer
<1>2. PICK c \in Callable(job) :
         /\ Push(<<[job EXCEPT !.left = @ \ {c}, !.called = TRUE]>>)
         /\ consumer' = IF job.do = "report" THEN consumer
                        ELSE [consumer EXCEPT ![c] = Told(@, job.ev)]
  BY DEF CallConsumer
<1>3. job.do \in {"deliver", "report", "call"}
  BY <1>2 DEF Callable
<1>4. job \in CallJobs /\ job.ev \in Events /\ job.left \in SUBSET Consumers
  BY <1>1, <1>3, JobFields
<1>5. c \in Consumers
  BY <1>2, <1>3, <1>4 DEF Callable, Attached
<1>6. [job EXCEPT !.left = @ \ {c}, !.called = TRUE] \in Jobs
  <2> HIDE DEF job
  <2> QED BY <1>4 DEF CallJobs, Jobs
<1>7. turn' \in Seq(Jobs)
  BY <1>1, <1>2, <1>6, TurnType, ShortSeqs DEF Push
<1>8. Told(consumer[c], job.ev) \in Held
  BY <1>4, <1>5, ToldType DEF TypeOK
<1>9. consumer' \in [Consumers -> Held]
  BY <1>2, <1>8 DEF TypeOK
<1> QED BY <1>7, <1>9 DEF CallConsumer, TypeOK, core, env

LEMMA CallsDoneKeepsTypes ==
    ASSUME TypeOK, CallsDone
    PROVE  TypeOK'
<1>1. <<>> \in Seq(Jobs) /\ turn # <<>>
  BY DEF CallsDone
<1>2. turn' \in Seq(Jobs)
  BY <1>1, TurnType DEF CallsDone, Pop, Push
<1> QED BY <1>2 DEF CallsDone, TypeOK, core, env

LEMMA NextStreamKeepsTypes ==
    ASSUME TypeOK, NextStream
    PROVE  TypeOK'
<1> DEFINE job == Head(turn)
           open == {s \in Current : stream[s].state = "connected"}
<1>1. turn # <<>> /\ job \in Jobs /\ <<>> \in Seq(Jobs)
  BY TurnType DEF NextStream
<1>2. ASSUME NEW jobs \in Seq(Jobs), Push(jobs)
      PROVE  turn' \in Seq(Jobs)
  BY <1>1, <1>2, TurnType DEF Push
<1>0. UNCHANGED <<subs, req, conn, fetches, micro, consumer, env>>
  BY DEF NextStream
<1>3. CASE job.do \in {"terminateAll", "reportAll"} /\ UNCHANGED stream
  <2>1. job.left \in SUBSET Streams /\ job \in ClientJobs
    BY <1>1, <1>3, JobFields
  <2>2. ASSUME NEW s \in job.left
        PROVE  <<IF job.do = "reportAll" THEN Report(s) ELSE Step("terminate", s),
                 [job EXCEPT !.left = @ \ {s}]>> \in Seq(Jobs)
    <3>1. [job EXCEPT !.left = @ \ {s}] \in Jobs
      <4> HIDE DEF job
      <4> QED BY <2>1 DEF ClientJobs, Jobs
    <3>2. s \in Streams
      BY <2>1
    <3>3. Report(s) \in Jobs /\ Step("terminate", s) \in Jobs
      BY <3>2, ClientJobTypes, JobTypes, EventTypes
    <3> QED BY <3>1, <3>3, ShortSeqs
  <2>3. \/ \E s \in job.left : Push(<<IF job.do = "reportAll" THEN Report(s) ELSE Step("terminate", s),
                                      [job EXCEPT !.left = @ \ {s}]>>)
        \/ Push(<<>>)
    BY <1>3 DEF NextStream, Pop
  <2>4. turn' \in Seq(Jobs)
    BY <1>1, <1>2, <2>2, <2>3
  <2> QED BY <1>0, <1>3, <2>4 DEF env, TypeOK
<1>4. CASE job.do = "closed"
  <2>1. ASSUME NEW s \in open, stream' = [stream EXCEPT ![s].state = "disconnected"],
               Push(<<Deliver(s, Link("disconnected")), job>>)
        PROVE  stream' \in [Streams -> StreamObject] /\ turn' \in Seq(Jobs)
    <3>1. s \in Streams
      BY CurrentStreams
    <3>2. [stream[s] EXCEPT !.state = "disconnected"] \in StreamObject
      BY <3>1 DEF TypeOK, StreamObject, LinkStates
    <3>3. Deliver(s, Link("disconnected")) \in Jobs
      BY <3>1, JobTypes, EventTypes
    <3>4. <<Deliver(s, Link("disconnected")), job>> \in Seq(Jobs)
      BY <1>1, <3>3, ShortSeqs
    <3> QED BY <1>2, <2>1, <3>2, <3>4 DEF TypeOK
  <2>2. stream' \in [Streams -> StreamObject] /\ turn' \in Seq(Jobs)
    <3>1. \/ \E s \in open : /\ stream' = [stream EXCEPT ![s].state = "disconnected"]
                             /\ Push(<<Deliver(s, Link("disconnected")), job>>)
          \/ Push(<<>>) /\ UNCHANGED stream
      BY <1>4 DEF NextStream, Pop
    <3> QED BY <1>1, <1>2, <2>1, <3>1 DEF TypeOK
  <2> QED BY <1>0, <2>2 DEF env, TypeOK
<1> HIDE DEF job, open
<1> QED BY <1>3, <1>4 DEF NextStream, job

LEMMA ResumeKeepsTypes ==
    ASSUME TypeOK, Resume
    PROVE  TypeOK'
<1> DEFINE job == Head(turn)
<1>1. turn # <<>> /\ job \in Jobs /\ <<>> \in Seq(Jobs)
  BY TurnType DEF Resume
<1>2. ASSUME NEW jobs \in Seq(Jobs), Push(jobs)
      PROVE  turn' \in Seq(Jobs)
  BY <1>1, <1>2, TurnType DEF Push
<1>3. UNCHANGED <<fetches, micro, consumer, log, faults>>
  BY DEF Resume
<1>4. CASE /\ job.do = "terminate"
           /\ IF IsCurrent(job.s) THEN Push(<<Report(job.s), Step("finish", job.s)>>) ELSE Push(<<>>)
           /\ UNCHANGED <<core, net>>
  <2>1. job.s \in Streams
    BY <1>1, <1>4, JobFields
  <2>2. Report(job.s) \in Jobs /\ Step("finish", job.s) \in Jobs
    BY <2>1, ClientJobTypes, JobTypes, EventTypes
  <2>3. <<Report(job.s), Step("finish", job.s)>> \in Seq(Jobs)
    BY <2>2, ShortSeqs
  <2>4. turn' \in Seq(Jobs)
    BY <1>1, <1>2, <1>4, <2>3
  <2> QED BY <1>3, <1>4, <2>4 DEF TypeOK, core
<1>5. CASE job.do = "finish" /\ FinishTerminate(job.s)
  <2>1. PICK s \in Streams : s = job.s
    BY <1>1, <1>5, JobFields
  <2>2. [stream[s] EXCEPT !.state = "disconnected"] \in StreamObject
    BY DEF TypeOK, StreamObject, LinkStates
  <2>3. OwedClose(s) \in SUBSET Consumers
    BY DEF TypeOK, StreamObject, OwedClose
  <2>4. Job("call", s, Link("disconnected"), OwedClose(s)) \in Jobs
    BY <2>3, JobTypes, EventTypes
  <2>5. turn' \in Seq(Jobs)
    BY <1>2, <1>5, <2>1, <2>4, ShortSeqs DEF FinishTerminate
  <2>6. CASE Teardown(s, [stream[s] EXCEPT !.state = "disconnected"])
    BY <1>3, <2>2, <2>5, <2>6, TeardownTypes DEF TypeOK
  <2>7. CASE /\ stream' = [stream EXCEPT ![s] = [stream[s] EXCEPT !.state = "disconnected"]]
             /\ UNCHANGED <<subs, req, conn, net>>
    BY <1>3, <2>2, <2>5, <2>7 DEF TypeOK
  <2> QED BY <1>5, <2>1, <2>6, <2>7 DEF FinishTerminate
<1>6. CASE /\ job.do = "unstale"
           /\ IF stream[job.s].stale = "no" THEN Push(<<>>) ELSE Push(<<Deliver(job.s, Stale("no"))>>)
           /\ stream' = [stream EXCEPT ![job.s].stale = "no"]
           /\ UNCHANGED <<subs, req, conn, net>>
  <2>1. job.s \in Streams
    BY <1>1, <1>6, JobFields
  <2>2. [stream[job.s] EXCEPT !.stale = "no"] \in StreamObject
    <3>1. stream[job.s] \in StreamObject /\ "no" \in Scopes
      BY <2>1 DEF TypeOK, Scopes
    <3> QED BY <3>1 DEF StreamObject
  <2>3. <<Deliver(job.s, Stale("no"))>> \in Seq(Jobs)
    <3>1. Stale("no") \in Events
      BY EventTypes DEF Scopes
    <3>2. Deliver(job.s, Stale("no")) \in Jobs
      BY <2>1, <3>1, JobTypes
    <3> QED BY <3>2, ShortSeqs
  <2>4. turn' \in Seq(Jobs)
    BY <1>1, <1>2, <1>6, <2>3
  <2>5. stream' \in [Streams -> StreamObject]
    BY <1>6, <2>1, <2>2 DEF TypeOK
  <2> QED BY <1>3, <1>6, <2>4, <2>5 DEF TypeOK
<1>7. CASE /\ job.do = "retry"
           /\ \E sock \in job.left : stream' = [stream EXCEPT ![job.s] = Retrying(@, sock)]
           /\ Push(<<>>)
           /\ UNCHANGED <<subs, req, conn, net>>
  <2>1. job.s \in Streams /\ job.left \in SUBSET Nat
    BY <1>1, <1>7, JobFields
  <2>2. \A sock \in Nat : Retrying(stream[job.s], sock) \in StreamObject
    BY <2>1, StreamTypes DEF TypeOK
  <2>3. stream' \in [Streams -> StreamObject]
    BY <1>7, <2>1, <2>2 DEF TypeOK
  <2>4. turn' \in Seq(Jobs)
    BY <1>1, <1>2, <1>7
  <2> QED BY <1>3, <1>7, <2>3, <2>4 DEF TypeOK
<1>8. CASE conn' = Scheduled(conn) /\ Push(<<>>) /\ UNCHANGED <<subs, stream, req, net>>
  <2>1. conn' \in Connection
    BY <1>8, ConnTypes DEF TypeOK
  <2>2. turn' \in Seq(Jobs)
    BY <1>1, <1>2, <1>8
  <2> QED BY <1>3, <1>8, <2>1, <2>2 DEF TypeOK
<1> HIDE DEF job
<1> QED BY <1>4, <1>5, <1>6, <1>7, <1>8 DEF Resume, Pop, job

-----------------------------------------------------------------------------
(* Accounts, server and network.                                           *)

LEMMA AccountMovesKeepsTypes ==
    ASSUME TypeOK, NEW ch \in Channels, AccountMoves(ch)
    PROVE  TypeOK'
<1>1. log[ch] + 1 \in Positions
  BY LastUnit DEF AccountMoves, TypeOK, Positions
<1>2. log' \in [Channels -> Positions]
  BY <1>1 DEF AccountMoves, TypeOK
<1> QED BY <1>2 DEF AccountMoves, TypeOK, core

LEMMA ServerKeepsTypes ==
    ASSUME TypeOK, ServerSends \/ FrameLost \/ ConnectionEnds
    PROVE  TypeOK'
<1>1. net \in Network
  BY DEF TypeOK
<1>2. CASE ServerSends
  <2>1. \A r \in net.srv : log[r.ch] \in Positions
    BY <1>1 DEF TypeOK, Network, ServerSubs
  <2>2. \A kind \in {"tokenExpiring", "error"} : Post(net, Reply(kind, 0, 0, "other")) \in Network
    <3>1. \A kind \in {"tokenExpiring", "error"} : Reply(kind, 0, 0, "other") \in Frames
      BY ReplyType DEF Plain, FrameKinds, StreamFrames, Notes
    <3> QED BY <1>1, <3>1, PostType
  <2>3. net' \in Network
    BY <1>1, <1>2, <2>1, <2>2, SendTypes DEF ServerSends, Like
  <2>4. faults' \in Nat
    BY <1>2, FaultType DEF ServerSends, TypeOK
  <2> QED BY <1>2, <2>3, <2>4 DEF ServerSends, TypeOK, core
<1>3. CASE FrameLost
  <2>1. PICK i \in DOMAIN net.wire :
           net' = [net EXCEPT !.wire = SubSeq(@, 1, i - 1) \o SubSeq(@, i + 1, Len(@))]
    BY <1>3 DEF FrameLost
  <2>2. net.wire \in Seq(Frames) /\ i \in 1 .. Len(net.wire) /\ Len(net.wire) \in Nat
    BY <1>1, <2>1 DEF Network
  <2>3. SubSeq(net.wire, 1, i - 1) \in Seq(Frames) /\ SubSeq(net.wire, i + 1, Len(net.wire)) \in Seq(Frames)
    <3>1. \A k \in 1 .. (i - 1) : k \in 1 .. Len(net.wire)
      BY <2>2
    <3>2. \A k \in (i + 1) .. Len(net.wire) : k \in 1 .. Len(net.wire)
      BY <2>2
    <3> QED BY <2>2, <3>1, <3>2, SubSeqProperties
  <2>4. SubSeq(net.wire, 1, i - 1) \o SubSeq(net.wire, i + 1, Len(net.wire)) \in Seq(Frames)
    BY <2>3, ConcatProperties
  <2>5. net' \in Network
    BY <1>1, <2>1, <2>4 DEF Network
  <2> QED BY <1>3, <2>5, FaultType DEF FrameLost, TypeOK, core
<1>4. CASE ConnectionEnds
  <2>1. net' \in Network /\ faults' \in Nat
    BY <1>1, <1>4, FaultType DEF ConnectionEnds, Network
  <2> QED BY <1>4, <2>1 DEF ConnectionEnds, TypeOK, core
<1> QED BY <1>2, <1>3, <1>4

LEMMA InitTypes == Init => TypeOK
<1> SUFFICES ASSUME Init PROVE TypeOK
  OBVIOUS
<1>1. NewStream \in StreamObject
  BY DEF NewStream, StreamObject, Cursors, MaybeView, LinkStates, Scopes
<1>2. stream \in [Streams -> StreamObject]
  BY <1>1 DEF Init
<1>3. consumer \in [Consumers -> Held]
  BY DEF Init, Held, MaybeStream, MaybeView, LinkStates, Scopes
<1>4. log \in [Channels -> Positions]
  BY LastUnit DEF Init, Positions
<1>5. req \in Tables /\ conn \in Connection
  BY DEF Init, Tables, Connection
<1>6. net \in Network
  BY OfflineType DEF Init
<1>7. fetches \in SUBSET Fetches /\ micro \in Seq(Tasks) /\ turn \in Seq(Jobs)
  BY DEF Init
<1>8. subs \in [Channels -> MaybeStream] /\ faults \in Nat
  BY DEF Init, MaybeStream
<1> QED BY <1>2, <1>3, <1>4, <1>5, <1>6, <1>7, <1>8 DEF TypeOK

LEMMA StepKeepsTypes ==
    ASSUME TypeOK, Created, [Next]_vars
    PROVE  TypeOK'
<1>1. CASE App
  BY <1>1, ConnectKeepsTypes, RemoveKeepsTypes, DisconnectKeepsTypes DEF App
<1>2. CASE Client
  BY <1>2, RunMicrotaskKeepsTypes, FetchSettlesKeepsTypes, ReconnectTimerKeepsTypes,
     RetryTimerKeepsTypes, SocketOpensKeepsTypes, SocketClosesKeepsTypes, OnFrameKeepsTypes,
     CallConsumerKeepsTypes, CallsDoneKeepsTypes, NextStreamKeepsTypes, ResumeKeepsTypes DEF Client
<1>3. CASE Server
  BY <1>3, AccountMovesKeepsTypes, ServerKeepsTypes DEF Server
<1>4. CASE UNCHANGED vars
  BY <1>4 DEF TypeOK, vars, core, env
<1> QED BY <1>1, <1>2, <1>3, <1>4 DEF Next

-----------------------------------------------------------------------------
(* No step names a stream that has no channel.                             *)

KeepsNames == /\ Current' \subseteq Named
              /\ \A p \in req'.pending : p.s \in Named
              /\ \A b \in req'.bySub : b.s \in Named
              /\ \A f \in fetches' : f.s \in Named \cup {NoStream}
              /\ \A s \in Streams : stream'[s].channel = stream[s].channel

\* The tables q name no stream that p does not.
Within(q, p) == q.pending \subseteq p.pending /\ q.bySub \subseteq p.bySub

LEMMA OldNames ==
    ASSUME TypeOK
    PROVE  /\ Named \subseteq Streams /\ Current \subseteq Named
           /\ \A p \in req.pending : p.s \in Named
           /\ \A b \in req.bySub : b.s \in Named
           /\ \A f \in fetches : f.s \in Named \cup {NoStream}
<1>1. /\ \A p \in req.pending : p.s \in Streams
      /\ \A b \in req.bySub : b.s \in Streams
      /\ \A f \in fetches : f.s \in Streams \cup {NoStream}
  BY DEF TypeOK, Tables, Requests, Fetches
<1> QED BY <1>1, CurrentStreams DEF Named

LEMMA NamesStayCreated ==
    ASSUME TypeOK, Created, KeepsNames
    PROVE  Created'
<1>1. Named' \subseteq Named
  BY DEF KeepsNames, Named
<1> QED BY <1>1, OldNames DEF KeepsNames, Created

LEMMA TablesWithin ==
    ASSUME NEW q \in Tables
    PROVE  /\ \A sub : Within(Unsubscribing(q, sub), q) /\ Within(Unnamed(q, sub), q)
           /\ \A s : Within(WithoutThoseOf(q, s), q)
           /\ \A id : Within([q EXCEPT !.pending = {p \in @ : p.id # id}], q)
           /\ \A id : Within([q EXCEPT !.unsubscribing = @ \ {id}], q)
           /\ \A n : Within([q EXCEPT !.pending = {}, !.bySub = {}, !.unsubscribing = {}, !.seq = n], q)
           /\ Within([q EXCEPT !.pending = {}, !.bySub = {}, !.unsubscribing = {}], q)
BY DEF Tables, Within, Unsubscribing, Unnamed, WithoutThoseOf

\* Most steps: the tables and the fetches only shrink.
LEMMA ShrinkingKeepsNames ==
    ASSUME TypeOK, Current' \subseteq Current, Within(req', req), fetches' \subseteq fetches,
           \A s \in Streams : stream'[s].channel = stream[s].channel
    PROVE  KeepsNames
BY OldNames DEF KeepsNames, Within

LEMMA StartSubscribeNames ==
    ASSUME TypeOK, NEW s \in Named, NEW q \in Tables, Within(q, req), StartSubscribe(s, q)
    PROVE  /\ \A p \in req'.pending : p.s \in Named
           /\ \A b \in req'.bySub : b.s \in Named
           /\ \A f \in fetches' : f.s \in Named \cup {NoStream}
<1> DEFINE r == Request(q.seq + 1, "subscribe", s)
           f == Fetch("subscribe", conn.ws, 0, s, q.seq + 1)
<1>1. r.s = s /\ f.s = s
  BY DEF Request, Fetch
<1>2. req'.pending = q.pending \cup {r} /\ req'.bySub = q.bySub /\ fetches' = fetches \cup {f}
  BY DEF StartSubscribe, Tables
<1> HIDE DEF r, f
<1> QED BY <1>1, <1>2, OldNames DEF Within

LEMMA ResubscribeNames ==
    ASSUME TypeOK, NEW s \in Named, NEW r \in StreamObject, r.channel = stream[s].channel,
           NEW q \in Tables, Within(q, req), NEW n, Resubscribe(s, r, q, n)
    PROVE  KeepsNames
<1> DEFINE q2 == IF r.sub # 0 THEN Unsubscribing(q, r.sub) ELSE q
           gone == [r EXCEPT !.sub = 0, !.seq = 0, !.staged = NoView,
                             !.state = IF @ = "connected" THEN "disconnected" ELSE @]
<1>1. r.sub \in Nat /\ s \in Streams
  BY OldNames DEF StreamObject
<1>2. q2 \in Tables /\ Within(q2, req)
  BY <1>1, TableTypes, TablesWithin DEF Within
<1>3. /\ gone.channel = r.channel /\ [gone EXCEPT !.retries = 1].channel = r.channel
      /\ Retrying(gone, conn.ws).channel = r.channel
  BY DEF StreamObject, Retrying
<1>4. \A t \in Streams : stream'[t].channel = stream[t].channel
  <2> HIDE DEF gone
  <2>1. \/ stream' = [stream EXCEPT ![s] = Retrying(gone, conn.ws)]
        \/ stream' = [stream EXCEPT ![s] = [gone EXCEPT !.retries = 1]]
    BY DEF Resubscribe, gone
  <2> QED BY <1>1, <1>3, <2>1 DEF TypeOK
<1>5. (req' = q2 /\ UNCHANGED fetches) \/ StartSubscribe(s, q2)
  BY DEF Resubscribe
<1>6. Current' = Current
  BY DEF Resubscribe, Current
<1> HIDE DEF q2
<1>7. CASE req' = q2 /\ UNCHANGED fetches
  BY <1>2, <1>4, <1>6, <1>7, ShrinkingKeepsNames
<1>8. CASE StartSubscribe(s, q2)
  BY <1>2, <1>4, <1>6, <1>8, StartSubscribeNames, OldNames DEF KeepsNames
<1> QED BY <1>5, <1>7, <1>8

LEMMA TeardownNames ==
    ASSUME TypeOK, NEW s \in Streams, NEW r \in StreamObject, r.channel = stream[s].channel,
           Teardown(s, r), UNCHANGED fetches
    PROVE  KeepsNames
<1> DEFINE q == IF conn.ws # 0 /\ r.sub # 0 THEN Unsubscribing(req, r.sub) ELSE req
<1>1. req \in Tables /\ r.sub \in Nat
  BY DEF TypeOK, StreamObject
<1>2. q \in Tables /\ Within(q, req)
  BY <1>1, TableTypes, TablesWithin DEF Within
<1>3. Within(req', req)
  <2>1. req' = [NoRequests EXCEPT !.seq = q.seq] \/ req' = WithoutThoseOf(q, s)
    BY DEF Teardown
  <2>2. [NoRequests EXCEPT !.seq = q.seq] =
           [req EXCEPT !.pending = {}, !.bySub = {}, !.unsubscribing = {}, !.seq = q.seq]
    BY <1>1 DEF NoRequests, Tables
  <2> HIDE DEF q
  <2> QED BY <1>1, <1>2, <2>1, <2>2, TablesWithin DEF Within
<1>4. Current' \subseteq Current
  BY DEF Teardown, Current, TypeOK
<1>5. \A t \in Streams : stream'[t].channel = stream[t].channel
  <2>1. [r EXCEPT !.consumers = {}, !.retryTimer = 0, !.sub = 0].channel = r.channel
    BY DEF StreamObject
  <2> QED BY <2>1 DEF Teardown, TypeOK
<1> QED BY <1>3, <1>4, <1>5, ShrinkingKeepsNames

LEMMA SameNames ==
    ASSUME TypeOK, UNCHANGED <<subs, req, fetches>>,
           \A s \in Streams : stream'[s].channel = stream[s].channel
    PROVE  KeepsNames
BY ShrinkingKeepsNames DEF Within, Current

LEMMA AppNames ==
    ASSUME TypeOK, Created, App
    PROVE  Created'
<1>1. ASSUME NEW c \in Consumers, NEW ch \in Channels, Connect(c, ch)
      PROVE  Created'
  <2>1. CASE Join(c, subs[ch]) /\ subs[ch] # NoStream
    BY <2>1, SameNames, NamesStayCreated DEF Join, TypeOK, StreamObject
  <2>2. ASSUME NEW s \in Streams, Establish(c, ch, s)
        PROVE  Created'
    <3>1. /\ subs' = [subs EXCEPT ![ch] = s]
          /\ stream' = [stream EXCEPT ![s] = [stream[s] EXCEPT !.channel = ch, !.consumers = {c}]]
      BY <2>2 DEF Establish, TypeOK
    <3>2. [stream[s] EXCEPT !.channel = ch, !.consumers = {c}].channel = ch
      BY DEF TypeOK, StreamObject
    <3>3. Current' \subseteq Current \cup {s}
      BY <3>1 DEF Current, TypeOK
    <3>4. /\ \A p \in req'.pending : p.s \in Named \cup {s}
          /\ \A b \in req'.bySub : b.s \in Named \cup {s}
          /\ \A f \in fetches' : f.s \in Named \cup {s, NoStream}
      <4>1. CASE UNCHANGED req /\ UNCHANGED fetches
        BY <4>1, OldNames
      <4>2. CASE Open(conn) /\ UNCHANGED req
        BY <4>2, OldNames DEF Open, Fetch
      <4>3. CASE StartSubscribe(s, req)
        <5> DEFINE r == Request(req.seq + 1, "subscribe", s)
                   f == Fetch("subscribe", conn.ws, 0, s, req.seq + 1)
        <5>1. r.s = s /\ f.s = s
          BY DEF Request, Fetch
        <5>2. req'.pending = req.pending \cup {r} /\ req'.bySub = req.bySub /\ fetches' = fetches \cup {f}
          BY <4>3 DEF StartSubscribe, TypeOK, Tables
        <5> HIDE DEF r, f
        <5> QED BY <5>1, <5>2, OldNames
      <4> QED BY <2>2, <4>1, <4>2, <4>3 DEF Establish
    <3>5. Named' \subseteq Named \cup {s}
      BY <3>3, <3>4 DEF Named
    <3> QED BY <3>1, <3>2, <3>5, OldNames DEF Created, TypeOK
  <2> QED BY <1>1, <2>1, <2>2 DEF Connect
<1>2. ASSUME NEW c \in Consumers, Remove(c)
      PROVE  Created'
  <2>1. \A s \in Streams : stream'[s].channel = stream[s].channel
    BY <1>2 DEF Remove, TypeOK, StreamObject
  <2> QED BY <1>2, <2>1, SameNames, NamesStayCreated DEF Remove
<1>3. CASE Disconnect
  <2>1. Current' = {} /\ Within(req', req) /\ UNCHANGED fetches
    BY <1>3, TablesWithin DEF Disconnect, Current, NoRequests, TypeOK
  <2>2. \A s \in Streams : stream'[s].channel = stream[s].channel
    BY <1>3 DEF Disconnect, TypeOK, StreamObject
  <2> QED BY <2>1, <2>2, ShrinkingKeepsNames, NamesStayCreated
<1> QED BY <1>1, <1>2, <1>3 DEF App

LEMMA FetchNames ==
    ASSUME TypeOK, FetchSettles
    PROVE  KeepsNames
<1>1. PICK f \in fetches :
         /\ fetches' = fetches \ {f}
         /\ \/ f.kind = "connect"   /\ ConnectToken(f)
            \/ f.kind = "reauth"    /\ ReauthToken
            \/ f.kind = "subscribe" /\ SubscribeToken(f)
            \/ f.kind = "refresh"   /\ RefreshToken(f)
            \/ UNCHANGED <<core, turn, net, faults>>
  BY DEF FetchSettles
<1>2. f \in Fetches /\ req \in Tables
  BY <1>1 DEF TypeOK
<1>3. UNCHANGED <<subs, stream>>
  BY <1>1 DEF ConnectToken, ReauthToken, SubscribeToken, RefreshToken, core
<1>4. Current' = Current
  BY <1>3 DEF Current
<1>5. CASE f.kind = "refresh" /\ RefreshToken(f) /\ ~UNCHANGED req
  <2> DEFINE r == Request(req.seq + 1, "refresh", f.s)
  <2>1. req' = [req EXCEPT !.seq = req.seq + 1, !.pending = @ \cup {r}]
    BY <1>5 DEF RefreshToken
  <2>2. r.s = f.s /\ f.s \in Streams
    BY <1>2, <1>5, FetchFields DEF Request
  <2>3. f.s \in Named
    BY <1>1, <2>2, SentinelAssumption, OldNames
  <2> HIDE DEF r
  <2>4. req'.pending = req.pending \cup {r} /\ req'.bySub = req.bySub
    BY <1>2, <2>1 DEF Tables
  <2> QED BY <1>1, <1>3, <1>4, <2>2, <2>3, <2>4, OldNames DEF KeepsNames
<1>6. CASE Within(req', req)
  BY <1>1, <1>3, <1>4, <1>6, ShrinkingKeepsNames
<1>7. ASSUME ~(f.kind = "refresh" /\ RefreshToken(f) /\ ~UNCHANGED req)
      PROVE  Within(req', req)
  BY <1>1, <1>2, <1>7 DEF ConnectToken, ReauthToken, SubscribeToken, RefreshToken, core, Within, Tables
<1> QED BY <1>5, <1>6, <1>7

LEMMA SocketOpensNames ==
    ASSUME TypeOK, SocketOpens
    PROVE  KeepsNames
<1>1. PICK rank \in [Current -> 1 .. Cardinality(Current)] :
         /\ req' = [req EXCEPT !.seq = @ + Cardinality(Current), !.pending = @ \cup
                       {Request(req.seq + rank[s], "subscribe", s) : s \in Current}]
         /\ fetches' = fetches \cup
                       {Fetch("subscribe", conn.ws, 0, s, req.seq + rank[s]) : s \in Current}
  BY DEF SocketOpens
<1> DEFINE asked == {Request(req.seq + rank[s], "subscribe", s) : s \in Current}
           begun == {Fetch("subscribe", conn.ws, 0, s, req.seq + rank[s]) : s \in Current}
<1>2. (\A p \in asked : p.s \in Current) /\ (\A f \in begun : f.s \in Current)
  BY DEF Request, Fetch
<1>3. req'.pending = req.pending \cup asked /\ req'.bySub = req.bySub /\ fetches' = fetches \cup begun
  BY <1>1 DEF TypeOK, Tables
<1>4. UNCHANGED stream /\ Current' = Current
  BY DEF SocketOpens, Current
<1> HIDE DEF asked, begun
<1> QED BY <1>2, <1>3, <1>4, OldNames DEF KeepsNames

LEMMA TimerNames ==
    ASSUME TypeOK, ReconnectTimer \/ (\E s \in Streams : RetryTimer(s)) \/ SocketCloses \/ HeartbeatTimer
    PROVE  KeepsNames
<1>1. CASE ReconnectTimer
  <2>1. /\ UNCHANGED <<subs, stream, req>>
        /\ (\E c : Open(c)) \/ UNCHANGED fetches
    BY <1>1 DEF ReconnectTimer
  <2>2. \A f \in fetches' : f \in fetches \/ f.s = NoStream
    <3>1. ASSUME NEW c, Open(c)
          PROVE  \A f \in fetches' : f \in fetches \/ f.s = NoStream
      <4> DEFINE g == Fetch("connect", c.opens + 1, c.generation, NoStream, 0)
      <4>1. g.s = NoStream
        BY DEF Fetch
      <4>2. fetches' \subseteq fetches \cup {g}
        BY <3>1 DEF Open
      <4> HIDE DEF g
      <4> QED BY <4>1, <4>2
    <3> QED BY <2>1, <3>1
  <2> QED BY <2>1, <2>2, OldNames DEF KeepsNames, Current
<1>2. ASSUME NEW s \in Streams, RetryTimer(s)
      PROVE  KeepsNames
  <2>1. \A t \in Streams : stream'[t].channel = stream[t].channel
    BY <1>2 DEF RetryTimer, TypeOK, StreamObject
  <2>2. UNCHANGED subs /\ Current' = Current
    BY <1>2 DEF RetryTimer, Current
  <2>3. CASE UNCHANGED <<req, fetches>>
    BY <2>1, <2>2, <2>3, SameNames
  <2>4. CASE StartSubscribe(s, req) /\ IsCurrent(s)
    <3>1. s \in Named /\ Within(req, req) /\ req \in Tables
      BY <2>4, OldNames DEF IsCurrent, Within, TypeOK
    <3> QED BY <2>1, <2>2, <2>4, <3>1, StartSubscribeNames, OldNames DEF KeepsNames
  <2> QED BY <1>2, <2>3, <2>4 DEF RetryTimer
<1>3. ASSUME NEW terminal, Closed(terminal)
      PROVE  KeepsNames
  <2>1. \A s \in Streams : Detached(stream[s]).channel = stream[s].channel
    BY DEF TypeOK, StreamObject, Detached
  <2>2. \A s \in Streams : stream'[s].channel = stream[s].channel
    BY <1>3, <2>1 DEF Closed
  <2>3. Within(req', req) /\ UNCHANGED fetches /\ Current' = Current
    BY <1>3, TablesWithin DEF Closed, NoRequests, TypeOK, Current
  <2> QED BY <2>2, <2>3, ShrinkingKeepsNames
<1> QED BY <1>1, <1>2, <1>3 DEF SocketCloses, HeartbeatTimer

LEMMA AnsweredNames ==
    ASSUME TypeOK, NEW q, Within(q, req), NEW jobs, Answered(q, jobs)
    PROVE  KeepsNames
BY ShrinkingKeepsNames DEF Answered, Current

LEMMA UpdateNames ==
    ASSUME TypeOK, NEW s \in Streams, NEW r, r.channel = stream[s].channel, NEW jobs, Update(s, r, jobs)
    PROVE  KeepsNames
BY SameNames DEF Update, TypeOK

LEMMA EndedNames ==
    ASSUME TypeOK, NEW s \in Named, NEW q \in Tables, Within(q, req), Ended(s, q)
    PROVE  KeepsNames
<1>1. s \in Streams
  BY OldNames
<1>2. [stream[s] EXCEPT !.sub = 0] \in StreamObject /\ stream[s].sub \in Nat
      /\ [stream[s] EXCEPT !.sub = 0].channel = stream[s].channel
  BY <1>1 DEF TypeOK, StreamObject
<1>3. Unnamed(q, stream[s].sub) \in Tables /\ Within(Unnamed(q, stream[s].sub), req)
  BY <1>2, TableTypes, TablesWithin DEF Within
<1> QED BY <1>2, <1>3, ResubscribeNames DEF Ended

LEMMA OnSubscribedNames ==
    ASSUME TypeOK, NEW f \in Frames, OnSubscribed(f)
    PROVE  KeepsNames
<1>1. req \in Tables /\ f.sub \in Nat
  BY FrameFields DEF TypeOK
<1>2. CASE DropUnwanted(f)
  BY <1>1, <1>2, TablesWithin, ShrinkingKeepsNames DEF DropUnwanted, Current
<1>3. ASSUME NEW s \in Streams, Request(f.id, "subscribe", s) \in req.pending,
             req' = [Forget(f.id) EXCEPT !.bySub = @ \cup {[sub |-> f.sub, s |-> s]}],
             stream' = [stream EXCEPT ![s].sub = f.sub, ![s].seq = 0, ![s].state = "connected"],
             UNCHANGED <<subs, fetches>>
      PROVE  KeepsNames
  <2>1. s \in Named
    BY <1>3, OldNames DEF Request
  <2>2. req'.pending \subseteq req.pending /\ req'.bySub = req.bySub \cup {[sub |-> f.sub, s |-> s]}
    BY <1>1, <1>3 DEF Forget, Tables
  <2>3. \A t \in Streams : stream'[t].channel = stream[t].channel
    BY <1>3 DEF TypeOK, StreamObject
  <2>4. Current' = Current
    BY <1>3 DEF Current
  <2> DEFINE b == [sub |-> f.sub, s |-> s]
  <2>5. b.s = s
    OBVIOUS
  <2> HIDE DEF b
  <2>6. req'.bySub = req.bySub \cup {b}
    BY <2>2 DEF b
  <2> QED BY <1>3, <2>1, <2>2, <2>3, <2>4, <2>5, <2>6, OldNames DEF KeepsNames
<1> QED BY <1>2, <1>3 DEF OnSubscribed

LEMMA OnErrorNames ==
    ASSUME TypeOK, NEW f \in Frames, OnError(f)
    PROVE  KeepsNames
<1>1. req \in Tables
  BY DEF TypeOK
<1>2. /\ Forget(f.id) \in Tables /\ Within(Forget(f.id), req) /\ Within(req, req)
      /\ Within([req EXCEPT !.unsubscribing = @ \ {f.id}], req)
  <2>1. Forget(f.id) \in Tables
    BY <1>1, FrameFields, TableTypes DEF Forget
  <2>2. Within(Forget(f.id), req) /\ Within([req EXCEPT !.unsubscribing = @ \ {f.id}], req)
    BY <1>1, TablesWithin DEF Forget
  <2> QED BY <2>1, <2>2 DEF Within
<1>3. ASSUME NEW q, Within(q, req), NEW jobs, Answered(q, jobs) PROVE KeepsNames
  BY <1>3, AnsweredNames
<1>4. ASSUME NEW s \in Named, SubscribeError(s, f) PROVE KeepsNames
  <2>1. CASE Answered(Forget(f.id), <<Step("terminate", s)>>)
    BY <1>2, <2>1, AnsweredNames
  <2>2. CASE /\ stream' = [stream EXCEPT ![s].cursor = NoCursor]
             /\ StartSubscribe(s, Forget(f.id))
             /\ UNCHANGED subs
    <3>1. \A t \in Streams : stream'[t].channel = stream[t].channel
      BY <2>2 DEF TypeOK, StreamObject
    <3>2. Current' = Current
      BY <2>2 DEF Current
    <3> QED BY <1>2, <2>2, <3>1, <3>2, StartSubscribeNames, OldNames DEF KeepsNames
  <2> QED BY <1>4, <2>1, <2>2 DEF SubscribeError
<1>5. ASSUME NEW s \in Named, Ended(s, Forget(f.id)) PROVE KeepsNames
  BY <1>2, <1>5, EndedNames
<1> QED BY <1>2, <1>3, <1>4, <1>5, OldNames DEF OnError

LEMMA OnStreamFrameNames ==
    ASSUME TypeOK, NEW f \in Frames, NEW s \in Named, OnStreamFrame(s, f)
    PROVE  KeepsNames
<1> DEFINE r == IF f.seq > 0 THEN [stream[s] EXCEPT !.seq = f.seq] ELSE stream[s]
           ends == [stream[s] EXCEPT !.seq = f.seq, !.staged = NoView]
<1>1. s \in Streams /\ stream[s] \in StreamObject /\ req \in Tables /\ Within(req, req)
      /\ f.seq \in Nat /\ f.pos \in Cursors
  BY OldNames, FrameFields DEF TypeOK, Within
<1>2. r \in StreamObject /\ r.channel = stream[s].channel
  BY <1>1 DEF StreamObject
<1>3. ends \in StreamObject /\ ends.channel = stream[s].channel
  BY <1>1 DEF StreamObject, MaybeView
<1> HIDE DEF r, ends
<1>4. [ends EXCEPT !.cursor = NoCursor] \in StreamObject
      /\ [ends EXCEPT !.cursor = NoCursor].channel = stream[s].channel
  BY <1>3 DEF StreamObject, Cursors
<1>5. CASE Resubscribe(s, stream[s], req, Read) \/ Resubscribe(s, [ends EXCEPT !.cursor = NoCursor], req, Read)
  BY <1>1, <1>4, <1>5, ResubscribeNames
<1>6. CASE Ended(s, req)
  BY <1>1, <1>6, EndedNames
<1>7. ASSUME NEW q, q.channel = stream[s].channel, NEW jobs, Update(s, q, jobs) PROVE KeepsNames
  BY <1>1, <1>7, UpdateNames
<1>8. CASE /\ fetches' = fetches \cup {Fetch("refresh", conn.ws, 0, s, r.sub)}
           /\ UNCHANGED core
  BY <1>1, <1>8, OldNames DEF KeepsNames, core, Fetch, Current
<1>9. CASE \E view : \/ Update(s, [r EXCEPT !.staged = view], <<>>)
                     \/ Update(s, [ends EXCEPT !.cursor = f.pos, !.retries = 0, !.orders = view],
                               <<Deliver(s, Snapshot(view))>>)
  <2>1. \A view : [r EXCEPT !.staged = view].channel = r.channel
    BY <1>2 DEF StreamObject
  <2>2. \A view : [ends EXCEPT !.cursor = f.pos, !.retries = 0, !.orders = view].channel = ends.channel
    BY <1>3 DEF StreamObject
  <2> QED BY <1>2, <1>3, <1>7, <1>9, <2>1, <2>2
<1>10. CASE OnUnit(s, f)
  <2> DEFINE q == [stream[s] EXCEPT !.seq = f.seq, !.cursor = f.pos, !.retries = 0,
                                    !.orders = IF @ = NoView THEN @ ELSE Apply(@, f.pos)]
  <2>1. q.channel = stream[s].channel
    BY <1>1 DEF StreamObject
  <2>2. Update(s, q, <<Deliver(s, UnitEvent(f.pos))>>)
    BY <1>10 DEF OnUnit
  <2> HIDE DEF q
  <2> QED BY <1>7, <2>1, <2>2
<1>11. CASE \/ Update(s, [r EXCEPT !.cursor = f.pos, !.retries = 0], <<>>)
            \/ Update(s, [r EXCEPT !.retries = 0], <<>>) \/ Update(s, r, <<>>)
            \/ Update(s, [r EXCEPT !.stale = f.note], <<Deliver(s, Stale(f.note))>>)
  <2>1. /\ [r EXCEPT !.cursor = f.pos, !.retries = 0].channel = r.channel
        /\ [r EXCEPT !.retries = 0].channel = r.channel
        /\ [r EXCEPT !.stale = f.note].channel = r.channel
    BY <1>2 DEF StreamObject
  <2> QED BY <1>2, <1>7, <1>11, <2>1
<1>12. CASE SnapshotEnd(s, f)
  BY <1>5, <1>9, <1>12 DEF SnapshotEnd, ends
<1> QED BY <1>5, <1>6, <1>8, <1>9, <1>10, <1>11, <1>12 DEF OnStreamFrame, r

LEMMA OnFrameNames ==
    ASSUME TypeOK, OnFrame \/ OnGarbledFrame
    PROVE  KeepsNames
<1> DEFINE f == Head(net.wire)
<1>1. f \in Frames /\ req \in Tables
  BY ReadType DEF OnFrame, OnGarbledFrame, TypeOK
<1>2. /\ Within(Forget(f.id), req) /\ Within(req, req)
      /\ Within([req EXCEPT !.unsubscribing = @ \ {f.id}], req)
  BY <1>1, TablesWithin DEF Forget, Within
<1>3. ASSUME NEW q, Within(q, req), NEW jobs, Answered(q, jobs) PROVE KeepsNames
  BY <1>3, AnsweredNames
<1>4. CASE OnSubscribed(f) \/ OnError(f)
  BY <1>1, <1>4, OnSubscribedNames, OnErrorNames
<1>5. CASE /\ fetches' = fetches \cup {Fetch("reauth", conn.ws, 0, NoStream, 0)}
           /\ UNCHANGED core
  BY <1>5, OldNames DEF KeepsNames, core, Fetch, Current
<1>6. CASE \E b \in req.bySub : OnStreamFrame(b.s, f)
  BY <1>1, <1>6, OldNames, OnStreamFrameNames
<1> HIDE DEF f
<1>7. CASE OnGarbledFrame
  BY <1>2, <1>3, <1>7 DEF OnGarbledFrame
<1>8. CASE OnFrame
  BY <1>2, <1>3, <1>4, <1>5, <1>6, <1>8 DEF OnFrame, f
<1> QED BY <1>7, <1>8

LEMMA TurnNames ==
    ASSUME TypeOK, RunMicrotask \/ CallConsumer \/ CallsDone \/ NextStream \/ Resume
    PROVE  KeepsNames
<1>1. CASE UNCHANGED <<core, fetches>>
  BY <1>1, SameNames DEF core
<1>2. CASE RunMicrotask
  <2>1. Head(micro) \in Tasks /\ UNCHANGED fetches
    BY <1>2, HeadTailProperties DEF RunMicrotask, TypeOK
  <2>2. CASE Head(micro).do = "teardown" /\ Teardown(Head(micro).s, stream[Head(micro).s])
    <3>1. Head(micro).s \in Streams /\ stream[Head(micro).s] \in StreamObject
      BY <2>1, <2>2 DEF Tasks, TypeOK
    <3> QED BY <2>1, <2>2, <3>1, TeardownNames
  <2> QED BY <1>1, <1>2, <2>1, <2>2 DEF RunMicrotask, core
<1>3. CASE NextStream
  <2>1. /\ UNCHANGED <<subs, req, fetches>>
        /\ UNCHANGED stream \/ \E s : stream' = [stream EXCEPT ![s].state = "disconnected"]
    BY <1>3 DEF NextStream
  <2>2. \A s \in Streams : [stream[s] EXCEPT !.state = "disconnected"].channel = stream[s].channel
    BY DEF TypeOK, StreamObject
  <2>3. \A s \in Streams : stream'[s].channel = stream[s].channel
    BY <2>1, <2>2 DEF TypeOK
  <2> QED BY <2>1, <2>3, SameNames
<1>4. CASE Resume
  <2> DEFINE s == Head(turn).s
             r == [stream[s] EXCEPT !.state = "disconnected"]
  <2>1. UNCHANGED fetches /\ Head(turn) \in Jobs
    BY <1>4, TurnType DEF Resume
  <2>2. CASE Head(turn).do = "finish" /\ FinishTerminate(s)
    <3>1. s \in Streams
      BY <2>1, <2>2, JobFields
    <3>2. r \in StreamObject /\ r.channel = stream[s].channel
      BY <3>1 DEF TypeOK, StreamObject, LinkStates
    <3>3. CASE Teardown(s, r)
      BY <2>1, <3>1, <3>2, <3>3, TeardownNames
    <3>4. CASE stream' = [stream EXCEPT ![s] = r] /\ UNCHANGED <<subs, req>>
      <4>1. \A t \in Streams : stream'[t].channel = stream[t].channel
        BY <3>2, <3>4 DEF TypeOK
      <4> QED BY <2>1, <3>4, <4>1, SameNames
    <3> QED BY <2>2, <3>3, <3>4 DEF FinishTerminate
  <2>3. ASSUME UNCHANGED <<subs, req>>,
               \/ UNCHANGED stream \/ stream' = [stream EXCEPT ![s].stale = "no"]
               \/ \E sock : stream' = [stream EXCEPT ![s] = Retrying(@, sock)]
        PROVE  KeepsNames
    <3>1. \A t \in Streams : /\ [stream[t] EXCEPT !.stale = "no"].channel = stream[t].channel
                              /\ \A sock : Retrying(stream[t], sock).channel = stream[t].channel
      BY DEF TypeOK, StreamObject, Retrying
    <3>2. ASSUME NEW t \in Streams
          PROVE  \/ stream'[t] = stream[t] \/ stream'[t] = [stream[t] EXCEPT !.stale = "no"]
                 \/ \E sock : stream'[t] = Retrying(stream[t], sock)
      <4> HIDE DEF s
      <4>1. stream \in [Streams -> StreamObject]
        BY DEF TypeOK
      <4> QED BY <2>3, <4>1
    <3>3. \A t \in Streams : stream'[t].channel = stream[t].channel
      BY <3>1, <3>2
    <3> QED BY <2>1, <2>3, <3>3, SameNames
  <2> QED BY <1>4, <2>2, <2>3 DEF Resume, core
<1> QED BY <1>1, <1>2, <1>3, <1>4 DEF CallConsumer, CallsDone

LEMMA StepKeepsCreated ==
    ASSUME TypeOK, Created, [Next]_vars
    PROVE  Created'
<1>1. CASE App
  BY <1>1, AppNames
<1>2. CASE Client
  BY <1>2, FetchNames, SocketOpensNames, TimerNames, OnFrameNames, TurnNames, NamesStayCreated DEF Client
<1>3. CASE Server \/ UNCHANGED vars
  <2>1. UNCHANGED <<subs, stream, req, fetches>>
    BY <1>3 DEF Server, AccountMoves, ServerSends, FrameLost, ConnectionEnds, vars, core
  <2> QED BY <2>1, SameNames, NamesStayCreated
<1> QED BY <1>1, <1>2, <1>3 DEF Next

\* Every variable keeps the type the code gives it, and each message, job and
\* fetch the fields its handler relies on.
THEOREM TypesHold == Spec => []TypeOK
<1>1. Init => TypeOK /\ Created
  <2>1. Init => Created
    BY DEF Init, Created, Named, Current
  <2> QED BY <2>1, InitTypes
<1>2. TypeOK /\ Created /\ [Next]_vars => (TypeOK /\ Created)'
  BY StepKeepsTypes, StepKeepsCreated
<1> QED BY <1>1, <1>2, PTL DEF Spec

-----------------------------------------------------------------------------
(* One connection.  The invariant adds that no connect token belongs to a   *)
(* later generation: #shutdown therefore outdates all of them.             *)

DialledBefore == \A f \in Dialled : f.gen <= conn.generation /\ f.ws # 0
LinkInv == DialledBefore /\ OneConnection

Opening == {f \in Dialled : f.gen = conn.generation}

DialledOnce == /\ conn.connecting <=> Opening # {}
               /\ \A f, g \in Opening : f = g
               /\ conn.connecting => conn.ws = 0
               /\ conn.ws # 0 <=> net.phase # "none"

LEMMA OneConnectionByDialled ==
    (OneConnection <=> DialledOnce) /\ (OneConnection' <=> DialledOnce')
<1>1. /\ Opening = {f \in fetches : f.kind = "connect" /\ f.gen = conn.generation}
      /\ Opening' = {f \in fetches' : f.kind = "connect" /\ f.gen = conn'.generation}
  BY DEF Opening, Dialled
<1>2. OneConnection <=> DialledOnce
  BY <1>1 DEF OneConnection, DialledOnce
<1>3. OneConnection' <=> DialledOnce'
  BY <1>1 DEF OneConnection, DialledOnce
<1> QED BY <1>2, <1>3

LEMMA LinkKept ==
    ASSUME LinkInv, Dialled' = Dialled, conn'.ws = conn.ws, conn'.connecting = conn.connecting,
           conn'.generation = conn.generation, net'.phase = "none" <=> net.phase = "none"
    PROVE  LinkInv'
<1>1. Opening' = Opening /\ DialledBefore'
  BY DEF Opening, LinkInv, DialledBefore
<1> QED BY <1>1, OneConnectionByDialled DEF DialledOnce, LinkInv

LEMMA LinkCut ==
    ASSUME TypeOK, LinkInv, UNCHANGED fetches, conn' = ShutDown(conn), net' = Offline
    PROVE  LinkInv'
<1>1. /\ Dialled' = Dialled /\ conn'.ws = 0 /\ conn'.connecting = FALSE
      /\ conn'.generation = conn.generation + 1 /\ conn.generation \in Nat
  BY DEF TypeOK, Connection, ShutDown, Dialled
<1>2. \A f \in Dialled : f.gen \in Nat
  BY FetchFields DEF Dialled, TypeOK
<1>3. DialledBefore' /\ Opening' = {}
  BY <1>1, <1>2 DEF LinkInv, DialledBefore, Opening
<1> QED BY <1>1, <1>3, OneConnectionByDialled, OfflineType DEF DialledOnce, LinkInv

LEMMA LinkOpens ==
    ASSUME TypeOK, LinkInv, NEW c \in Connection, Open(c), UNCHANGED net,
           conn.ws = 0, ~conn.connecting,
           c.ws = conn.ws, c.connecting = conn.connecting, c.generation = conn.generation
    PROVE  LinkInv'
<1>1. CASE conn' = c /\ UNCHANGED fetches
  BY <1>1, LinkKept DEF Dialled
<1>2. CASE /\ conn' = [c EXCEPT !.connecting = TRUE, !.opens = @ + 1]
           /\ fetches' = fetches \cup {Fetch("connect", c.opens + 1, c.generation, NoStream, 0)}
  <2> DEFINE g == Fetch("connect", c.opens + 1, c.generation, NoStream, 0)
  <2>1. c.opens \in Nat /\ c.opens + 1 # 0 /\ conn.generation \in Nat
    BY DEF Connection, TypeOK
  <2>2. g.kind = "connect" /\ g.gen = conn.generation /\ g.ws # 0
    BY <2>1 DEF Fetch
  <2>3. conn'.ws = 0 /\ conn'.connecting = TRUE /\ conn'.generation = conn.generation
    BY <1>2 DEF Connection
  <2>4. Opening = {} /\ net.phase = "none"
    BY OneConnectionByDialled DEF DialledOnce, LinkInv
  <2> HIDE DEF g
  <2>5. Dialled' = Dialled \cup {g}
    BY <1>2, <2>2 DEF Dialled, g
  <2>6. Opening' = {g} /\ DialledBefore'
    BY <2>1, <2>2, <2>3, <2>4, <2>5 DEF Opening, DialledBefore, LinkInv
  <2> QED BY <2>3, <2>4, <2>6, OneConnectionByDialled DEF DialledOnce, LinkInv
<1> QED BY <1>1, <1>2 DEF Open

LEMMA AppLink ==
    ASSUME TypeOK, LinkInv, App
    PROVE  LinkInv'
<1>1. conn \in Connection
  BY DEF TypeOK
<1>2. CASE Disconnect
  BY <1>2, LinkCut DEF Disconnect
<1>3. CASE UNCHANGED <<conn, fetches, net>>
  BY <1>3, LinkKept DEF Dialled
<1>4. ASSUME NEW c \in Consumers, NEW ch \in Channels, NEW s \in Streams, Establish(c, ch, s), UNCHANGED net
      PROVE  LinkInv'
  <2>1. CASE StartSubscribe(s, req) /\ UNCHANGED conn
    <3>1. Dialled' = Dialled
      BY <2>1, StartSubscribeTypes DEF TypeOK
    <3> QED BY <1>4, <2>1, <3>1, LinkKept
  <2>2. CASE conn.ws = 0 /\ ~conn.connecting /\ Open(conn)
    BY <1>1, <1>4, <2>2, LinkOpens
  <2>3. CASE UNCHANGED <<conn, fetches>>
    BY <1>3, <1>4, <2>3
  <2> QED BY <1>4, <2>1, <2>2, <2>3 DEF Establish
<1> QED BY <1>2, <1>3, <1>4 DEF App, Connect, Join, Remove, env

LEMMA FetchLink ==
    ASSUME TypeOK, Created, LinkInv, FetchSettles
    PROVE  LinkInv'
<1>1. PICK f \in fetches :
         /\ fetches' = fetches \ {f}
         /\ \/ /\ Wanted(f)
               /\ \/ f.kind = "connect"   /\ ConnectToken(f)
                  \/ f.kind = "reauth"    /\ ReauthToken
                  \/ f.kind = "subscribe" /\ SubscribeToken(f)
                  \/ f.kind = "refresh"   /\ RefreshToken(f)
            \/ ~Wanted(f) /\ UNCHANGED <<core, turn, net, faults>>
  BY DEF FetchSettles
<1>2. f \in Fetches /\ conn \in Connection /\ net \in Network /\ req \in Tables
  BY <1>1 DEF TypeOK
<1>3. Dialled' = Dialled \ {f}
  BY <1>1 DEF Dialled
<1>4. CASE f.kind = "connect" /\ Wanted(f) /\ ConnectToken(f)
  <2>1. f \in Opening
    BY <1>1, <1>4 DEF Opening, Dialled, Wanted
  <2>2. f.ws # 0 /\ Opening = {f} /\ conn.ws = 0 /\ net.phase = "none"
    BY <2>1, OneConnectionByDialled DEF DialledOnce, LinkInv, DialledBefore, Opening
  <2>3. conn'.connecting = FALSE /\ conn'.generation = conn.generation
    BY <1>2, <1>4 DEF ConnectToken, Connection
  <2>4. Opening' = {} /\ DialledBefore'
    BY <1>3, <2>2, <2>3 DEF Opening, DialledBefore, LinkInv
  <2>5. \/ conn'.ws = f.ws /\ net'.phase = "connecting"
        \/ conn'.ws = conn.ws /\ net' = net
    BY <1>2, <1>4, OfflineType DEF ConnectToken, Connection, Network
  <2> QED BY <2>2, <2>3, <2>4, <2>5, OneConnectionByDialled DEF DialledOnce, LinkInv
<1>5. CASE f.kind # "connect"
  <2>1. Dialled' = Dialled
    BY <1>3, <1>5 DEF Dialled
  <2>2. CASE UNCHANGED <<conn, net>>
    BY <2>1, <2>2, LinkKept
  <2>3. CASE Wanted(f) /\ f.kind = "subscribe" /\ SubscribeToken(f)
    <3>1. f.s \in Streams /\ f.id \in Nat /\ stream[f.s].channel \in Channels /\ stream[f.s].cursor \in Cursors
      BY <1>2, <2>3, FetchFields DEF Wanted, Created, Named, Request, TypeOK, StreamObject
    <3>2. net' \in Like(net)
      BY <1>2, <2>3, <3>1, ServerAnswersTypes DEF SubscribeToken, Like
    <3> QED BY <2>1, <2>3, <3>2, LinkKept DEF SubscribeToken, Like
  <2>4. CASE f.kind = "refresh" /\ RefreshToken(f)
    <3>1. req.seq + 1 \in Nat /\ f.id \in Nat
      BY <1>2, FetchFields DEF Tables
    <3>2. Reply("error", req.seq + 1, f.id, "forbidden") \in Frames
      BY <3>1, ReplyType DEF Plain, FrameKinds, StreamFrames, Notes
    <3>3. /\ Renew(net, req.seq + 1, f.id) \in Like(net)
          /\ Post(net, Reply("error", req.seq + 1, f.id, "forbidden")) \in Like(net)
      BY <1>2, <3>1, <3>2, CancelType, PostType DEF Like
    <3>4. net' \in Like(net) /\ UNCHANGED conn
      BY <1>2, <2>4, <3>3 DEF RefreshToken, Like
    <3> QED BY <2>1, <3>4, LinkKept DEF Like
  <2> QED BY <1>1, <1>5, <2>2, <2>3, <2>4 DEF ReauthToken, core
<1>6. CASE f.kind = "connect" /\ ~Wanted(f) /\ UNCHANGED <<conn, net>>
  <2>1. Opening' = Opening /\ DialledBefore'
    BY <1>3, <1>6 DEF Opening, Wanted, DialledBefore, LinkInv
  <2> QED BY <1>6, <2>1, OneConnectionByDialled DEF DialledOnce, LinkInv
<1> QED BY <1>1, <1>4, <1>5, <1>6 DEF core

LEMMA TimerLink ==
    ASSUME TypeOK, LinkInv,
           ReconnectTimer \/ (\E s \in Streams : RetryTimer(s)) \/ SocketOpens \/ SocketCloses \/ HeartbeatTimer
    PROVE  LinkInv'
<1>1. conn \in Connection /\ req \in Tables /\ net \in Network
  BY DEF TypeOK
<1>2. CASE ReconnectTimer
  <2>1. PICK stray \in BOOLEAN :
           /\ IF stray THEN conn.strays > 0 ELSE conn.timer
           /\ \/ conn.ws = 0 /\ ~conn.connecting /\ Open(Fired(stray))
              \/ conn' = Fired(stray) /\ UNCHANGED fetches
    BY <1>2 DEF ReconnectTimer
  <2> DEFINE c == Fired(stray)
  <2>2. c.ws = conn.ws /\ c.connecting = conn.connecting /\ c.generation = conn.generation
    BY <1>1 DEF Fired, Connection
  <2>3. c \in Connection
    <3>1. conn.strays \in Nat /\ (stray => conn.strays - 1 \in Nat)
      BY <1>1, <2>1 DEF Connection
    <3> QED BY <1>1, <3>1 DEF Fired, Connection
  <2>4. UNCHANGED net
    BY <1>2 DEF ReconnectTimer
  <2> HIDE DEF c
  <2>5. CASE conn.ws = 0 /\ ~conn.connecting /\ Open(c)
    BY <2>2, <2>3, <2>4, <2>5, LinkOpens
  <2>6. CASE conn' = c /\ UNCHANGED fetches
    BY <2>2, <2>4, <2>6, LinkKept DEF Dialled
  <2> QED BY <2>1, <2>5, <2>6 DEF c
<1>3. ASSUME NEW s \in Streams, RetryTimer(s)
      PROVE  LinkInv'
  <2>1. UNCHANGED <<conn, net>>
    BY <1>3 DEF RetryTimer, env
  <2>2. Dialled' = Dialled
    BY <1>1, <1>3, StartSubscribeTypes DEF RetryTimer, Dialled
  <2> QED BY <2>1, <2>2, LinkKept
<1>4. CASE SocketOpens
  <2>1. PICK rank \in [Current -> 1 .. Cardinality(Current)] :
           fetches' = fetches \cup {Fetch("subscribe", conn.ws, 0, s, req.seq + rank[s]) : s \in Current}
    BY <1>4 DEF SocketOpens
  <2> DEFINE begun == {Fetch("subscribe", conn.ws, 0, s, req.seq + rank[s]) : s \in Current}
  <2>2. \A f \in begun : f.kind # "connect"
    BY DEF Fetch
  <2> HIDE DEF begun
  <2>3. Dialled' = Dialled
    BY <2>1, <2>2 DEF Dialled, begun
  <2>4. /\ conn'.ws = conn.ws /\ conn'.connecting = conn.connecting /\ conn'.generation = conn.generation
        /\ net.phase # "none" /\ net'.phase # "none"
    BY <1>1, <1>4 DEF SocketOpens, Connection, Network
  <2> QED BY <2>3, <2>4, LinkKept
<1>5. ASSUME NEW terminal, Closed(terminal)
      PROVE  LinkInv'
  <2>1. PICK stable \in BOOLEAN :
           LET c == [conn EXCEPT !.ws = 0, !.authSent = FALSE, !.attempt = IF stable THEN 0 ELSE @]
           IN  conn' = c \/ conn' = Scheduled(c)
    BY <1>5 DEF Closed
  <2>2. conn'.ws = 0 /\ conn'.connecting = conn.connecting /\ conn'.generation = conn.generation
    BY <1>1, <2>1 DEF Connection, Scheduled
  <2>3. net' = Offline /\ UNCHANGED fetches
    BY <1>5 DEF Closed
  <2>4. Opening' = Opening /\ DialledBefore'
    BY <2>2, <2>3 DEF Opening, Dialled, DialledBefore, LinkInv
  <2> QED BY <2>2, <2>3, <2>4, OfflineType, OneConnectionByDialled DEF DialledOnce, LinkInv
<1> QED BY <1>2, <1>3, <1>4, <1>5 DEF SocketCloses, HeartbeatTimer

LEMMA TurnLink ==
    ASSUME TypeOK, LinkInv, RunMicrotask \/ CallConsumer \/ CallsDone \/ NextStream \/ Resume
    PROVE  LinkInv'
<1>1. CASE UNCHANGED <<conn, fetches, net>>
  BY <1>1, LinkKept DEF Dialled
<1>2. ASSUME NEW s \in Streams, NEW r \in StreamObject, Teardown(s, r), UNCHANGED fetches
      PROVE  LinkInv'
  <2>1. \/ conn' = ShutDown(conn) /\ net' = Offline
        \/ UNCHANGED conn /\ net' \in Like(net)
    BY <1>2, TeardownTypes
  <2> QED BY <1>2, <2>1, LinkCut, LinkKept DEF Dialled, Like
<1>3. CASE RunMicrotask
  <2>1. Head(micro) \in Tasks /\ UNCHANGED fetches
    BY <1>3, HeadTailProperties DEF RunMicrotask, TypeOK
  <2>2. CASE Head(micro).do = "teardown" /\ Teardown(Head(micro).s, stream[Head(micro).s])
    <3>1. Head(micro).s \in Streams /\ stream[Head(micro).s] \in StreamObject
      BY <2>1, <2>2 DEF Tasks, TypeOK
    <3> QED BY <1>2, <2>1, <2>2, <3>1
  <2> QED BY <1>1, <1>3, <2>1, <2>2 DEF RunMicrotask, core
<1>4. CASE Resume
  <2> DEFINE s == Head(turn).s
             r == [stream[s] EXCEPT !.state = "disconnected"]
  <2>1. UNCHANGED fetches /\ Head(turn) \in Jobs
    BY <1>4, TurnType DEF Resume
  <2>2. CASE Head(turn).do = "finish" /\ FinishTerminate(s)
    <3>1. s \in Streams
      BY <2>1, <2>2, JobFields
    <3>2. r \in StreamObject
      BY <3>1 DEF TypeOK, StreamObject, LinkStates
    <3>3. Teardown(s, r) \/ UNCHANGED <<conn, net>>
      BY <2>2 DEF FinishTerminate
    <3> QED BY <1>1, <1>2, <2>1, <3>1, <3>2, <3>3
  <2>3. CASE conn' = Scheduled(conn) /\ UNCHANGED net
    <3>1. conn'.ws = conn.ws /\ conn'.connecting = conn.connecting /\ conn'.generation = conn.generation
      BY <2>3 DEF Scheduled, TypeOK, Connection
    <3> QED BY <2>1, <2>3, <3>1, LinkKept DEF Dialled
  <2> QED BY <1>1, <1>4, <2>1, <2>2, <2>3 DEF Resume, core
<1> QED BY <1>1, <1>3, <1>4 DEF CallConsumer, CallsDone, NextStream, core, env

LEMMA ServerLink ==
    ASSUME TypeOK, LinkInv, Server
    PROVE  LinkInv'
<1>1. UNCHANGED <<conn, fetches>> /\ net \in Network
  BY DEF Server, AccountMoves, ServerSends, FrameLost, ConnectionEnds, core, TypeOK
<1>2. net'.phase = "none" <=> net.phase = "none"
  <2>1. CASE ServerSends
    <3>1. \A r \in net.srv : log[r.ch] \in Positions
      BY <1>1 DEF TypeOK, Network, ServerSubs
    <3>2. \A kind \in {"tokenExpiring", "error"} : Post(net, Reply(kind, 0, 0, "other")) \in Like(net)
      <4>1. \A kind \in {"tokenExpiring", "error"} : Reply(kind, 0, 0, "other") \in Frames
        BY ReplyType DEF Plain, FrameKinds, StreamFrames, Notes
      <4> QED BY <1>1, <4>1, PostType DEF Like
    <3>3. net' \in Like(net)
      BY <1>1, <2>1, <3>1, <3>2, SendTypes DEF ServerSends
    <3> QED BY <3>3 DEF Like
  <2>2. CASE FrameLost
    BY <1>1, <2>2 DEF FrameLost, Network
  <2>3. CASE ConnectionEnds
    BY <1>1, <2>3 DEF ConnectionEnds, Network
  <2>4. CASE UNCHANGED net
    BY <2>4
  <2> QED BY <2>1, <2>2, <2>3, <2>4 DEF Server, AccountMoves
<1> QED BY <1>1, <1>2, LinkKept DEF Dialled

LEMMA StepKeepsLink ==
    ASSUME TypeOK, Created, LinkInv, [Next]_vars
    PROVE  LinkInv'
<1>1. CASE OnFrame \/ OnGarbledFrame
  BY <1>1, OnFrameKeepsTypes, LinkKept DEF Like
<1>2. CASE UNCHANGED vars
  BY <1>2, LinkKept DEF vars, core, env, Dialled
<1> QED BY <1>1, <1>2, AppLink, FetchLink, TimerLink, TurnLink, ServerLink DEF Next, Client

\* The client never dials twice: #connecting says exactly that one token of the
\* current generation is being fetched, and a token that arrives after
\* #shutdown, or beside a socket, opens nothing.
THEOREM OneConnectionHolds == Spec => []OneConnection
<1>1. Init => TypeOK /\ Created /\ LinkInv
  <2>1. Init => Created
    BY DEF Init, Created, Named, Current
  <2>2. Init => LinkInv
    BY DEF Init, LinkInv, DialledBefore, Dialled, OneConnection, Offline
  <2> QED BY <2>1, <2>2, InitTypes
<1>2. TypeOK /\ Created /\ LinkInv /\ [Next]_vars => (TypeOK /\ Created /\ LinkInv)'
  BY StepKeepsTypes, StepKeepsCreated, StepKeepsLink
<1>3. LinkInv => OneConnection
  BY DEF LinkInv
<1> QED BY <1>1, <1>2, <1>3, PTL DEF Spec

-----------------------------------------------------------------------------
(* The wire.  A subscription is confirmed once, and named after the request *)
(* that made it; no subscription is called 0.                              *)

Confirming(n) == {i \in DOMAIN n.wire : n.wire[i].kind = "subscribed"}
Confirmed(n)  == {n.wire[i].id : i \in Confirming(n)}
Renewing(n)   == {i \in DOMAIN n.wire : n.wire[i].kind = "refreshed"}
Renewed(n)    == {n.wire[i].id : i \in Renewing(n)}

\* A frame that confirms and renews nothing, and names what it calls unknown.
Names(f)   == f.kind = "error" /\ f.note = "unknown" => f.sub # 0
IsPlain(f) == f.kind \notin {"subscribed", "refreshed"} /\ Names(f)

WireShape(n) ==
    /\ \A i \in DOMAIN n.wire : Names(n.wire[i])
    /\ \A i \in Confirming(n) : n.wire[i].sub = n.wire[i].id /\ n.wire[i].id # 0
    /\ \A i, j \in Confirming(n) : n.wire[i].id = n.wire[j].id => i = j
    /\ \A r \in n.srv : r.sub # 0

\* m comes of n, and confirms and renews nothing that n does not.
Calm(n, m) == WireShape(m) /\ Confirmed(m) \subseteq Confirmed(n) /\ Renewed(m) \subseteq Renewed(n)
              /\ (m.wire # <<>> => n.wire # <<>> \/ m.phase = "open")

LEMMA NetFields ==
    ASSUME NEW n \in Network
    PROVE  /\ n.wire \in Seq(Frames) /\ Len(n.wire) \in Nat /\ DOMAIN n.wire = 1 .. Len(n.wire)
           /\ n.srv \subseteq ServerSubs
           /\ \A i \in DOMAIN n.wire : n.wire[i] \in Frames /\ n.wire[i].id \in Nat
<1>1. n.wire \in Seq(Frames) /\ n.srv \subseteq ServerSubs
  BY DEF Network
<1>2. \A i \in DOMAIN n.wire : n.wire[i] \in Frames
  BY <1>1, ElementOfSeq, LenProperties
<1> QED BY <1>1, <1>2, LenProperties, FrameFields

\* Plain frames are appended.
LEMMA AppendCalm ==
    ASSUME NEW S, NEW n, n.wire \in Seq(S), WireShape(n), NEW new \in Seq(S),
           \A i \in 1 .. Len(new) : IsPlain(new[i]),
           NEW m, m.wire = n.wire \o new, \A r \in m.srv : r.sub # 0
    PROVE  WireShape(m) /\ Confirmed(m) \subseteq Confirmed(n) /\ Renewed(m) \subseteq Renewed(n)
<1>1. Len(n.wire) \in Nat /\ Len(new) \in Nat /\ DOMAIN n.wire = 1 .. Len(n.wire)
  BY LenProperties
<1>2. /\ Len(m.wire) = Len(n.wire) + Len(new) /\ DOMAIN m.wire = 1 .. (Len(n.wire) + Len(new))
      /\ \A i \in 1 .. Len(n.wire) : m.wire[i] = n.wire[i]
      /\ \A i \in (Len(n.wire) + 1) .. (Len(n.wire) + Len(new)) : m.wire[i] = new[i - Len(n.wire)]
  BY <1>1, ConcatProperties
<1>3. \A i \in DOMAIN m.wire : (i \in DOMAIN n.wire /\ m.wire[i] = n.wire[i]) \/ IsPlain(m.wire[i])
  <2> SUFFICES ASSUME NEW i \in DOMAIN m.wire, i \notin DOMAIN n.wire PROVE IsPlain(m.wire[i])
    BY <1>1, <1>2
  <2>1. i \in (Len(n.wire) + 1) .. (Len(n.wire) + Len(new)) /\ i - Len(n.wire) \in 1 .. Len(new)
    BY <1>1, <1>2
  <2> QED BY <1>2, <2>1
<1>4. \A i \in Confirming(m) : i \in Confirming(n) /\ m.wire[i] = n.wire[i]
  BY <1>3 DEF Confirming, IsPlain
<1>5. \A i \in DOMAIN m.wire : Names(m.wire[i])
  BY <1>3 DEF WireShape, IsPlain
<1>6. WireShape(m)
  BY <1>4, <1>5 DEF WireShape
<1>7. Confirmed(m) \subseteq Confirmed(n)
  BY <1>4 DEF Confirmed
<1>8. Renewed(m) \subseteq Renewed(n)
  BY <1>3 DEF Renewed, Renewing, IsPlain
<1> QED BY <1>6, <1>7, <1>8

LEMMA PostCalm ==
    ASSUME NEW n \in Network, WireShape(n), NEW f \in Frames, IsPlain(f), n.phase = "open"
    PROVE  Calm(n, Post(n, f))
<1>1. <<f>> \in Seq(Frames) /\ Len(<<f>>) = 1 /\ <<f>>[1] = f
  OBVIOUS
<1>2. Post(n, f).wire = n.wire \o <<f>> /\ Post(n, f).srv = n.srv /\ Post(n, f).phase = n.phase
  BY NetFields, AppendIsConcat, PostType DEF Post, Network
<1>3. \A i \in 1 .. Len(<<f>>) : IsPlain(<<f>>[i])
  BY <1>1
<1>4. \A r \in Post(n, f).srv : r.sub # 0
  BY <1>2 DEF WireShape
<1>5. n.wire \in Seq(Frames)
  BY NetFields
<1> QED BY <1>1, <1>2, <1>3, <1>4, <1>5, AppendCalm DEF Calm

LEMMA CalmSelf ==
    ASSUME NEW n, WireShape(n)
    PROVE  Calm(n, n)
BY DEF Calm

LEMMA CalmOnwards ==
    ASSUME NEW n, NEW m, NEW k, Calm(n, m), Calm(m, k), k.phase = m.phase
    PROVE  Calm(n, k)
<1>1. CASE k.wire = <<>>
  BY <1>1 DEF Calm
<1>2. CASE m.wire # <<>>
  BY <1>2 DEF Calm
<1>3. CASE k.phase = "open"
  BY <1>3 DEF Calm
<1> QED BY <1>1, <1>2, <1>3 DEF Calm

\* A frame goes, the others keep their order.
LEMMA OneLessCalm ==
    ASSUME NEW n, WireShape(n), NEW m, m.srv \subseteq n.srv, NEW k, NEW len \in Nat, k \in 1 .. len,
           DOMAIN n.wire = 1 .. len, n.wire # <<>>, DOMAIN m.wire = 1 .. (len - 1),
           \A i \in 1 .. (len - 1) : m.wire[i] = n.wire[IF i < k THEN i ELSE i + 1]
    PROVE  Calm(n, m)
<1> DEFINE from(i) == IF i < k THEN i ELSE i + 1
<1>1. \A i \in DOMAIN m.wire : from(i) \in DOMAIN n.wire /\ m.wire[i] = n.wire[from(i)]
  OBVIOUS
<1>2. \A i, j \in DOMAIN m.wire : from(i) = from(j) => i = j
  OBVIOUS
<1> HIDE DEF from
<1>3. \A i \in Confirming(m) : from(i) \in Confirming(n) /\ m.wire[i] = n.wire[from(i)]
  BY <1>1 DEF Confirming
<1>4. Confirming(m) \subseteq DOMAIN m.wire
  BY DEF Confirming
<1>5. \A i, j \in Confirming(m) : m.wire[i].id = m.wire[j].id => i = j
  <2> SUFFICES ASSUME NEW i \in Confirming(m), NEW j \in Confirming(m), m.wire[i].id = m.wire[j].id
               PROVE  i = j
    OBVIOUS
  <2>1. from(i) \in Confirming(n) /\ from(j) \in Confirming(n) /\ n.wire[from(i)].id = n.wire[from(j)].id
    BY <1>3
  <2>2. from(i) = from(j)
    BY <2>1 DEF WireShape
  <2> QED BY <1>2, <1>4, <2>2
<1>6. \A i \in Confirming(m) : m.wire[i].sub = m.wire[i].id /\ m.wire[i].id # 0
  BY <1>3 DEF WireShape
<1>7. \A i \in DOMAIN m.wire : Names(m.wire[i])
  BY <1>1 DEF WireShape
<1>8. \A r \in m.srv : r.sub # 0
  BY DEF WireShape
<1>9. Confirmed(m) \subseteq Confirmed(n)
  BY <1>3 DEF Confirmed
<1>10. Renewed(m) \subseteq Renewed(n)
  BY <1>1 DEF Renewed, Renewing
<1> QED BY <1>5, <1>6, <1>7, <1>8, <1>9, <1>10 DEF Calm, WireShape

LEMMA CancelCalm ==
    ASSUME NEW n \in Network, WireShape(n), NEW id \in Nat, NEW sub \in Nat, sub # 0
    PROVE  Calm(n, Cancel(n, id, sub))
<1>1. \A kind \in {"unsubscribed", "error"}, note \in {"none", "unknown"} :
         Reply(kind, id, sub, note) \in Frames /\ IsPlain(Reply(kind, id, sub, note))
  BY ReplyType DEF Plain, FrameKinds, StreamFrames, Notes, IsPlain, Names, Reply, Frame
<1>2. CASE n.phase # "open"
  BY <1>2, CalmSelf DEF Cancel
<1>3. CASE n.phase = "open"
  <2> DEFINE f == IF Known(n, sub) THEN Reply("unsubscribed", id, sub, "none")
                                   ELSE Reply("error", id, sub, "unknown")
  <2>2. f \in Frames /\ IsPlain(f)
    BY <1>1
  <2>3. Cancel(n, id, sub) = [Post(n, f) EXCEPT !.srv = {r \in @ : r.sub # sub}]
    BY <1>3 DEF Cancel
  <2> HIDE DEF f
  <2> DEFINE p == Post(n, f)
  <2>4. p \in Network /\ Calm(n, p)
    BY <1>3, <2>2, PostType, PostCalm
  <2>5. Cancel(n, id, sub) = [p EXCEPT !.srv = {r \in @ : r.sub # sub}]
    BY <2>3
  <2> HIDE DEF p
  <2>6. /\ Cancel(n, id, sub).wire = p.wire /\ Cancel(n, id, sub).phase = p.phase
        /\ \A r \in Cancel(n, id, sub).srv : r.sub # 0
    BY <2>4, <2>5 DEF Network, Calm, WireShape
  <2>7. Calm(n, Cancel(n, id, sub))
    BY <2>4, <2>6 DEF Calm, WireShape, Confirmed, Confirming, Renewed, Renewing
  <2> QED BY <2>7
<1> QED BY <1>2, <1>3

\* A token is renewed, once.
LEMMA RenewCalm ==
    ASSUME NEW n \in Network, WireShape(n), NEW id \in Nat, NEW sub \in Nat, sub # 0
    PROVE  LET m == Renew(n, id, sub)
           IN  /\ WireShape(m) /\ Confirmed(m) \subseteq Confirmed(n)
               /\ Renewed(m) \subseteq Renewed(n) \cup {id}
               /\ m.wire # <<>> => n.wire # <<>> \/ m.phase = "open"
<1>1. Reply("error", id, sub, "unknown") \in Frames /\ IsPlain(Reply("error", id, sub, "unknown"))
  BY ReplyType DEF Plain, FrameKinds, StreamFrames, Notes, IsPlain, Names, Reply, Frame
<1>2. CASE n.phase # "open"
  BY <1>2, CalmSelf DEF Renew, Calm
<1>3. CASE n.phase = "open" /\ ~Known(n, sub)
  BY <1>1, <1>3, PostCalm DEF Renew, Calm
<1>4. CASE n.phase = "open" /\ Known(n, sub)
  <2> DEFINE f == Reply("refreshed", id, sub, "none")
             m == Renew(n, id, sub)
  <2>1. f \in Frames /\ f.kind = "refreshed" /\ f.id = id /\ Names(f)
    BY ReplyType DEF Plain, FrameKinds, StreamFrames, Notes, Names, Reply, Frame
  <2>2. m.wire = Append(n.wire, f) /\ m.srv = n.srv /\ m.phase = n.phase
    BY <1>4 DEF Renew, Post, Network
  <2>3. n.wire \in Seq(Frames) /\ Len(n.wire) \in Nat /\ DOMAIN n.wire = 1 .. Len(n.wire)
    BY NetFields
  <2> HIDE DEF f, m
  <2>4. /\ DOMAIN m.wire = 1 .. (Len(n.wire) + 1)
        /\ \A i \in 1 .. Len(n.wire) : m.wire[i] = n.wire[i]
        /\ m.wire[Len(n.wire) + 1] = f
    BY <2>1, <2>2, <2>3, AppendProperties
  <2>5. \A i \in DOMAIN m.wire : (i \in DOMAIN n.wire /\ m.wire[i] = n.wire[i]) \/ m.wire[i] = f
    BY <2>3, <2>4
  <2>6. \A i \in Confirming(m) : i \in Confirming(n) /\ m.wire[i] = n.wire[i]
    BY <2>1, <2>5 DEF Confirming
  <2>7. \A i \in DOMAIN m.wire : Names(m.wire[i])
    BY <2>1, <2>5 DEF WireShape
  <2>8. \A i \in Confirming(m) : m.wire[i].sub = m.wire[i].id /\ m.wire[i].id # 0
    BY <2>6 DEF WireShape
  <2>9. \A i, j \in Confirming(m) : m.wire[i].id = m.wire[j].id => i = j
    BY <2>6 DEF WireShape
  <2>10. \A r \in m.srv : r.sub # 0
    BY <2>2 DEF WireShape
  <2>11. Confirmed(m) \subseteq Confirmed(n)
    BY <2>6 DEF Confirmed
  <2>12. Renewed(m) \subseteq Renewed(n) \cup {id}
    BY <2>1, <2>5 DEF Renewed, Renewing
  <2>13. WireShape(m)
    BY <2>7, <2>8, <2>9, <2>10 DEF WireShape
  <2>14. m.wire # <<>> => n.wire # <<>> \/ m.phase = "open"
    BY <1>4, <2>2
  <2> QED BY <2>11, <2>12, <2>13, <2>14 DEF m
<1> QED BY <1>2, <1>3, <1>4

\* What the server says in a subscription's sequence confirms nothing.
LEMMA EmitCalm ==
    ASSUME NEW n \in Network, WireShape(n), n.phase = "open", NEW r \in n.srv, NEW q \in ServerSubs,
           NEW kinds \in Seq(FrameKinds \ {"subscribed", "refreshed", "error"}), NEW pos, NEW note,
           q.sub # 0, Emit(n, r, q, kinds, pos, note) \in Network
    PROVE  Calm(n, Emit(n, r, q, kinds, pos, note))
<1> DEFINE m == Emit(n, r, q, kinds, pos, note)
           new == [i \in 1 .. Len(kinds) |-> Frame(kinds[i], 0, r.sub, r.seq + i, pos, note)]
<1>1. Len(kinds) \in Nat /\ \A i \in 1 .. Len(kinds) : kinds[i] \in FrameKinds \ {"subscribed", "refreshed", "error"}
  BY LenProperties, ElementOfSeq
<1>2. \A i \in 1 .. Len(kinds) : IsPlain(new[i])
  BY <1>1 DEF IsPlain, Names, Frame
<1>3. m.wire = n.wire \o new /\ m.phase = n.phase /\ \A x \in m.srv : x.sub # 0
  <2>1. \A x \in n.srv : x.sub # 0
    BY DEF WireShape
  <2>2. [q EXCEPT !.seq = r.seq + Len(kinds), !.pos = pos].sub = q.sub
    BY DEF ServerSubs
  <2> QED BY <2>1, <2>2 DEF Emit, Network
<1> DEFINE S == Frames \cup {new[i] : i \in 1 .. Len(kinds)}
<1>4. n.wire \in Seq(S)
  <2>1. n.wire \in Seq(Frames)
    BY NetFields
  <2>2. \A i \in 1 .. Len(n.wire) : n.wire[i] \in S
    BY <2>1, ElementOfSeq
  <2> HIDE DEF S
  <2> QED BY <2>1, <2>2
<1>5. new \in Seq(S) /\ Len(new) = Len(kinds)
  <2>1. new \in [1 .. Len(kinds) -> S]
    OBVIOUS
  <2> HIDE DEF new, S
  <2>2. new \in Seq(S)
    BY <1>1, <2>1, SeqDef
  <2> QED BY <1>1, <2>1, <2>2, LenProperties
<1> HIDE DEF m, new, S
<1> QED BY <1>2, <1>3, <1>4, <1>5, AppendCalm DEF Calm, m

LEMMA EmitOneCalm ==
    ASSUME NEW n \in Network, WireShape(n), n.phase = "open", NEW r \in n.srv, NEW q \in ServerSubs,
           NEW kind \in FrameKinds \ {"subscribed", "refreshed", "error"}, NEW pos, NEW note,
           q.sub # 0, Emit(n, r, q, <<kind>>, pos, note) \in Network
    PROVE  Calm(n, Emit(n, r, q, <<kind>>, pos, note))
<1> DEFINE kinds == <<kind>>
<1>1. kinds \in Seq(FrameKinds \ {"subscribed", "refreshed", "error"})
  OBVIOUS
<1>2. Emit(n, r, q, kinds, pos, note) \in Network
  OBVIOUS
<1> HIDE DEF kinds
<1>3. Calm(n, Emit(n, r, q, kinds, pos, note))
  BY <1>1, <1>2, EmitCalm
<1> QED BY <1>3 DEF kinds

LEMMA SendCalm ==
    ASSUME NEW n \in Network, WireShape(n), n.phase = "open", NEW r \in n.srv, NEW at \in Positions
    PROVE  /\ \A m \in Serving(n, r, at) : Calm(n, m)
           /\ \A m \in Recovering(n, r) : Calm(n, m)
           /\ \A kind : \A m \in Failing(n, r, kind, at) : Calm(n, m)
<1>1. r \in ServerSubs /\ r.sub # 0 /\ r.sub \in Nat
  BY ServerSubFields DEF Network, WireShape
<1>2. \A stale \in Scopes :
         /\ [r EXCEPT !.stale = stale] \in ServerSubs /\ [r EXCEPT !.stale = stale].sub # 0
  BY <1>1 DEF ServerSubs
<1>3. "no" \in Scopes /\ FrameKinds = StreamFrames \cup {"subscribed", "refreshed", "error", "tokenExpiring"}
  BY DEF Scopes, FrameKinds
<1>4. ASSUME NEW m \in Serving(n, r, at)
      PROVE  Calm(n, m)
  <2>1. m \in Network
    BY SendTypes DEF Like
  <2>2. CASE m = Emit(n, r, r, <<"begin", "page", "end">>, at, "none")
    <3> DEFINE kinds == <<"begin", "page", "end">>
    <3>1. kinds \in Seq(FrameKinds \ {"subscribed", "refreshed", "error"})
      BY <1>3 DEF StreamFrames
    <3>2. m = Emit(n, r, r, kinds, at, "none")
      BY <2>2
    <3> HIDE DEF kinds
    <3> QED BY <1>1, <2>1, <3>1, <3>2, EmitCalm
  <2>3. CASE \E kind \in {"covered", "unit"} : m = Emit(n, r, r, <<kind>>, r.pos + 1, "none")
    <3>1. {"covered", "unit"} \subseteq FrameKinds \ {"subscribed", "refreshed", "error"}
      BY <1>3 DEF StreamFrames
    <3> QED BY <1>1, <2>1, <2>3, <3>1, EmitOneCalm
  <2>4. CASE m = Emit(n, r, [r EXCEPT !.ready = TRUE], <<"ready">>, r.pos, "none")
    <3>1. "ready" \in FrameKinds \ {"subscribed", "refreshed", "error"}
      BY <1>3 DEF StreamFrames
    <3>2. [r EXCEPT !.ready = TRUE] \in ServerSubs /\ [r EXCEPT !.ready = TRUE].sub # 0
      BY <1>1 DEF ServerSubs
    <3> QED BY <3>2, <2>1, <2>4, <3>1, EmitOneCalm
  <2> QED BY <2>2, <2>3, <2>4 DEF Serving
<1>5. ASSUME NEW m \in Recovering(n, r)
      PROVE  Calm(n, m)
  <2>1. m \in Network /\ m = Emit(n, r, [r EXCEPT !.stale = "no"], <<"available">>, r.pos, "no")
    BY SendTypes DEF Like, Recovering
  <2>2. "available" \in FrameKinds \ {"subscribed", "refreshed", "error"}
    BY <1>3 DEF StreamFrames
  <2> QED BY <1>2, <1>3, <2>1, <2>2, EmitOneCalm
<1>6. ASSUME NEW kind, NEW m \in Failing(n, r, kind, at)
      PROVE  Calm(n, m)
  <2>1. m \in Network
    BY SendTypes DEF Like
  <2>2. CASE m = Emit(n, r, r, <<"begin", "end">>, at, "none")
    <3> DEFINE kinds == <<"begin", "end">>
    <3>1. kinds \in Seq(FrameKinds \ {"subscribed", "refreshed", "error"})
      BY <1>3 DEF StreamFrames
    <3>2. m = Emit(n, r, r, kinds, at, "none")
      BY <2>2
    <3> HIDE DEF kinds
    <3> QED BY <1>1, <2>1, <3>1, <3>2, EmitCalm
  <2>3. CASE \E scope \in Scopes : m = Emit(n, r, [r EXCEPT !.stale = scope], <<"unavailable">>, r.pos, scope)
    <3>1. "unavailable" \in FrameKinds \ {"subscribed", "refreshed", "error"}
      BY <1>3 DEF StreamFrames
    <3> QED BY <1>2, <2>1, <2>3, <3>1, EmitOneCalm
  <2>4. ASSUME NEW k \in {"expiring", "unsubscribed", "error"}, NEW note \in {"none", "unknown", "other"}
        PROVE  /\ Post(n, Reply(k, 0, r.sub, note)) \in Network
               /\ Calm(n, Post(n, Reply(k, 0, r.sub, note)))
    <3>1. Reply(k, 0, r.sub, note) \in Frames /\ IsPlain(Reply(k, 0, r.sub, note))
      BY <1>1, ReplyType DEF Plain, FrameKinds, StreamFrames, Notes, IsPlain, Names, Reply, Frame
    <3> QED BY <3>1, PostType, PostCalm
  <2>5. ASSUME NEW p \in Network, Calm(n, p)
        PROVE  Calm(n, [p EXCEPT !.srv = @ \ {r}])
    <3>1. /\ [p EXCEPT !.srv = @ \ {r}].wire = p.wire /\ [p EXCEPT !.srv = @ \ {r}].phase = p.phase
          /\ [p EXCEPT !.srv = @ \ {r}].srv \subseteq p.srv
      BY DEF Network
    <3> QED BY <2>5, <3>1 DEF Calm, WireShape, Confirmed, Confirming, Renewed, Renewing
  <2> QED BY <2>2, <2>3, <2>4, <2>5 DEF Failing
<1> QED BY <1>4, <1>5, <1>6

\* The client reads a frame; one that confirms is not there any more.
LEMMA ReadCalm ==
    ASSUME TypeOK, WireShape(net), net.wire # <<>>
    PROVE  /\ Calm(net, Read) /\ Head(net.wire) \in Frames
           /\ Head(net.wire).kind = "error" => IsPlain(Head(net.wire))
           /\ Head(net.wire).kind = "refreshed" => Head(net.wire).id \in Renewed(net)
           /\ Head(net.wire).kind = "subscribed" =>
                /\ Head(net.wire).sub = Head(net.wire).id /\ Head(net.wire).id # 0
                /\ Head(net.wire).id \in Confirmed(net) \ Confirmed(Read)
<1>1. net \in Network /\ net.wire \in Seq(Frames)
  BY DEF TypeOK, Network
<1>2. /\ Len(net.wire) \in Nat /\ Len(net.wire) # 0 /\ DOMAIN net.wire = 1 .. Len(net.wire)
      /\ Tail(net.wire) \in Seq(Frames) /\ Len(Tail(net.wire)) = Len(net.wire) - 1
      /\ \A i \in 1 .. (Len(net.wire) - 1) : Tail(net.wire)[i] = net.wire[i + 1]
      /\ DOMAIN Tail(net.wire) = 1 .. (Len(net.wire) - 1)
      /\ Head(net.wire) = net.wire[1] /\ Head(net.wire) \in Frames
  BY <1>1, HeadTailProperties, EmptySeq, LenProperties
<1>3. Read.wire = Tail(net.wire) /\ Read.srv = net.srv
  BY <1>1 DEF Read, Network
<1>4. \A i \in 1 .. (Len(net.wire) - 1) : Read.wire[i] = net.wire[IF i < 1 THEN i ELSE i + 1]
  BY <1>2, <1>3
<1>6. Calm(net, Read)
  <2> DEFINE len == Len(net.wire)
             m == Read
  <2>1. len \in Nat /\ 1 \in 1 .. len /\ DOMAIN net.wire = 1 .. len /\ DOMAIN m.wire = 1 .. (len - 1)
        /\ \A i \in 1 .. (len - 1) : m.wire[i] = net.wire[IF i < 1 THEN i ELSE i + 1]
    BY <1>2, <1>3, <1>4
  <2>2. m.srv \subseteq net.srv
    BY <1>3
  <2> HIDE DEF len, m
  <2>3. Calm(net, m)
    BY <2>1, <2>2, OneLessCalm
  <2> QED BY <2>3 DEF m
<1>7. ASSUME Head(net.wire).kind = "subscribed"
      PROVE  /\ Head(net.wire).sub = Head(net.wire).id /\ Head(net.wire).id # 0
             /\ Head(net.wire).id \in Confirmed(net) \ Confirmed(Read)
  <2>1. 1 \in Confirming(net)
    BY <1>2, <1>7 DEF Confirming
  <2>2. ASSUME NEW i \in Confirming(Read), Read.wire[i].id = Head(net.wire).id
        PROVE  FALSE
    <3>1. i + 1 \in Confirming(net) /\ i + 1 # 1 /\ net.wire[i + 1].id = net.wire[1].id
      BY <1>2, <1>3, <2>2 DEF Confirming
    <3> QED BY <2>1, <3>1 DEF WireShape
  <2> QED BY <1>2, <2>1, <2>2 DEF WireShape, Confirmed
<1>8. Head(net.wire).kind = "error" => IsPlain(Head(net.wire))
  BY <1>2 DEF WireShape, IsPlain
<1>9. Head(net.wire).kind = "refreshed" => Head(net.wire).id \in Renewed(net)
  BY <1>2 DEF Renewed, Renewing
<1> QED BY <1>2, <1>6, <1>7, <1>8, <1>9

\* What the server and the network do by themselves confirms nothing.
LEMMA ServerCalm ==
    ASSUME TypeOK, WireShape(net), Server
    PROVE  Calm(net, net')
<1>1. net \in Network /\ \A r \in net.srv : log[r.ch] \in Positions
  BY DEF TypeOK, Network, ServerSubs
<1>2. CASE AccountMoves(CHOOSE ch : FALSE) \/ UNCHANGED net
  BY <1>2, CalmSelf DEF AccountMoves
<1>3. CASE ServerSends
  <2>1. ASSUME NEW kind \in {"tokenExpiring", "error"}
        PROVE  Calm(net, Post(net, Reply(kind, 0, 0, "other")))
    <3>1. Reply(kind, 0, 0, "other") \in Frames /\ IsPlain(Reply(kind, 0, 0, "other"))
      BY ReplyType DEF Plain, FrameKinds, StreamFrames, Notes, IsPlain, Names, Reply, Frame
    <3> QED BY <1>1, <1>3, <3>1, PostCalm DEF ServerSends
  <2> QED BY <1>1, <1>3, <2>1, SendCalm DEF ServerSends
<1>4. CASE FrameLost
  <2>1. PICK k \in DOMAIN net.wire :
           net' = [net EXCEPT !.wire = SubSeq(@, 1, k - 1) \o SubSeq(@, k + 1, Len(@))]
    BY <1>4 DEF FrameLost
  <2> DEFINE len == Len(net.wire)
             w1 == SubSeq(net.wire, 1, k - 1)
             w2 == SubSeq(net.wire, k + 1, len)
  <2>2. net.wire \in Seq(Frames) /\ k \in 1 .. len /\ len \in Nat /\ DOMAIN net.wire = 1 .. len
    BY <1>1, <2>1, NetFields
  <2>3. /\ w1 \in Seq(Frames) /\ Len(w1) = k - 1 /\ \A i \in 1 .. (k - 1) : w1[i] = net.wire[i]
        /\ w2 \in Seq(Frames) /\ Len(w2) = len - k
        /\ \A i \in 1 .. (len - k) : w2[i] = net.wire[k + i]
    <3>1. \A i \in 1 .. (k - 1) : i \in 1 .. len
      BY <2>2
    <3>2. \A i \in (k + 1) .. len : i \in 1 .. len
      BY <2>2
    <3> QED BY <2>2, <3>1, <3>2, SubSeqProperties
  <2> DEFINE m == net'
  <2>4. m.wire = w1 \o w2 /\ m.srv = net.srv
    BY <1>1, <2>1 DEF Network
  <2> HIDE DEF w1, w2
  <2>5. /\ Len(w1) + Len(w2) = len - 1 /\ DOMAIN (w1 \o w2) = 1 .. (Len(w1) + Len(w2))
        /\ \A i \in 1 .. Len(w1) : (w1 \o w2)[i] = w1[i]
        /\ \A i \in (Len(w1) + 1) .. (Len(w1) + Len(w2)) : (w1 \o w2)[i] = w2[i - Len(w1)]
    <3>1. w1 \in Seq(Frames) /\ w2 \in Seq(Frames)
      BY <2>3
    <3>2. Len(w1) \in Nat /\ Len(w2) \in Nat /\ Len(w1 \o w2) = Len(w1) + Len(w2) /\ (w1 \o w2) \in Seq(Frames)
          /\ \A i \in 1 .. Len(w1) + Len(w2) : (w1 \o w2)[i] = IF i <= Len(w1) THEN w1[i] ELSE w2[i - Len(w1)]
      BY <3>1, ConcatProperties, LenProperties
    <3>3. DOMAIN (w1 \o w2) = 1 .. (Len(w1) + Len(w2))
      BY <3>2, LenProperties
    <3>4. Len(w1) + Len(w2) = len - 1
      BY <2>2, <2>3
    <3> QED BY <3>2, <3>3, <3>4
  <2> HIDE DEF len, m
  <2>6. DOMAIN m.wire = 1 .. (len - 1)
    BY <2>4, <2>5
  <2>7. ASSUME NEW i \in 1 .. (len - 1)
        PROVE  m.wire[i] = net.wire[IF i < k THEN i ELSE i + 1]
    <3>1. CASE i < k
      BY <2>2, <2>3, <2>4, <2>5, <3>1
    <3>2. CASE ~(i < k)
      <4>1. i \in (Len(w1) + 1) .. (Len(w1) + Len(w2)) /\ i - Len(w1) = i - k + 1 /\ i - k + 1 \in 1 .. (len - k)
        BY <2>2, <2>3, <2>5, <3>2
      <4>2. m.wire[i] = w2[i - k + 1] /\ w2[i - k + 1] = net.wire[k + (i - k + 1)]
        BY <2>3, <2>4, <2>5, <4>1
      <4>3. k + (i - k + 1) = i + 1
        BY <2>2
      <4> QED BY <3>2, <4>2, <4>3
    <3> QED BY <3>1, <3>2
  <2>8. net.wire # <<>> /\ m.srv \subseteq net.srv
    BY <2>2, <2>4 DEF len
  <2>9. Calm(net, m)
    BY <2>2, <2>6, <2>7, <2>8, OneLessCalm
  <2> QED BY <2>9 DEF m
<1>5. CASE ConnectionEnds
  <2>1. net'.wire = net.wire /\ net'.srv = {}
    BY <1>1, <1>5 DEF ConnectionEnds, Network
  <2> QED BY <2>1 DEF Calm, WireShape, Confirmed, Confirming, Renewed, Renewing
<1> QED BY <1>2, <1>3, <1>4, <1>5 DEF Server, AccountMoves

\* The server confirms the request `id`, and nothing else.
LEMMA AcceptConfirms ==
    ASSUME NEW n \in Network, WireShape(n), n.phase = "open", NEW id \in Nat, id # 0,
           id \notin Confirmed(n), NEW ch, NEW pos
    PROVE  LET m == Accept(n, id, ch, pos)
           IN  /\ WireShape(m) /\ Confirmed(m) \subseteq Confirmed(n) \cup {id} /\ m.phase = "open"
               /\ Renewed(m) \subseteq Renewed(n)
<1> DEFINE f == Reply("subscribed", id, id, "none")
           m == Accept(n, id, ch, pos)
<1>1. f \in Frames /\ f.kind = "subscribed" /\ f.id = id /\ f.sub = id
  BY ReplyType DEF Plain, FrameKinds, StreamFrames, Notes, Reply, Frame
<1>2. /\ m.wire = Append(n.wire, f) /\ m.phase = n.phase
      /\ m.srv = n.srv \cup {[sub |-> id, ch |-> ch, seq |-> 0, pos |-> pos, ready |-> FALSE, stale |-> "no"]}
  BY <1>1, PostType DEF Accept, Post, Network
<1>3. /\ n.wire \in Seq(Frames) /\ Len(n.wire) \in Nat /\ DOMAIN n.wire = 1 .. Len(n.wire)
  BY NetFields
<1> HIDE DEF f, m
<1>4. /\ DOMAIN m.wire = 1 .. (Len(n.wire) + 1)
      /\ \A i \in 1 .. Len(n.wire) : m.wire[i] = n.wire[i]
      /\ m.wire[Len(n.wire) + 1] = f
  BY <1>1, <1>2, <1>3, AppendProperties
<1>5. /\ \A i \in DOMAIN n.wire : i \in DOMAIN m.wire /\ i # Len(n.wire) + 1 /\ m.wire[i] = n.wire[i]
      /\ \A i \in DOMAIN m.wire : i \in DOMAIN n.wire \/ i = Len(n.wire) + 1
  BY <1>3, <1>4
<1>6. \A i \in Confirming(m) : (i \in Confirming(n) /\ m.wire[i] = n.wire[i]) \/ i = Len(n.wire) + 1
  BY <1>5 DEF Confirming
<1>7. \A i \in Confirming(n) : n.wire[i].id # id
  BY DEF Confirmed
<1>8. \A i \in DOMAIN m.wire : Names(m.wire[i])
  BY <1>1, <1>4, <1>5 DEF WireShape, Names
<1>9. \A i \in Confirming(m) : m.wire[i].sub = m.wire[i].id /\ m.wire[i].id # 0
  BY <1>1, <1>4, <1>6 DEF WireShape
<1>10. \A i, j \in Confirming(m) : m.wire[i].id = m.wire[j].id => i = j
  <2> SUFFICES ASSUME NEW i \in Confirming(m), NEW j \in Confirming(m), m.wire[i].id = m.wire[j].id
               PROVE  i = j
    OBVIOUS
  <2>1. m.wire[Len(n.wire) + 1].id = id
    BY <1>1, <1>4
  <2>2. CASE i = Len(n.wire) + 1 \/ j = Len(n.wire) + 1
    BY <1>6, <1>7, <2>1, <2>2
  <2>3. CASE i # Len(n.wire) + 1 /\ j # Len(n.wire) + 1
    BY <1>6, <2>3 DEF WireShape
  <2> QED BY <2>2, <2>3
<1>11. \A r \in m.srv : r.sub # 0
  BY <1>2 DEF WireShape
<1>12. WireShape(m)
  BY <1>8, <1>9, <1>10, <1>11 DEF WireShape
<1>13. Confirmed(m) \subseteq Confirmed(n) \cup {id}
  BY <1>1, <1>4, <1>6 DEF Confirmed
<1>14. Renewed(m) \subseteq Renewed(n)
  BY <1>1, <1>4, <1>5 DEF Renewed, Renewing
<1> QED BY <1>2, <1>12, <1>13, <1>14 DEF m

LEMMA AnswerConfirms ==
    ASSUME TypeOK, WireShape(net), NEW id \in Nat, id # 0, id \notin Confirmed(net),
           NEW ch \in Channels, NEW cursor \in Cursors, ServerAnswers(id, ch, cursor)
    PROVE  /\ WireShape(net') /\ Confirmed(net') \subseteq Confirmed(net) \cup {id}
           /\ Renewed(net') \subseteq Renewed(net)
           /\ net'.wire # <<>> => net.wire # <<>> \/ net'.phase = "open"
<1>1. net \in Network
  BY DEF TypeOK
<1>2. CASE net' = (IF net.phase = "open" THEN Accept(net, id, ch, cursor) ELSE net)
  BY <1>1, <1>2, AcceptConfirms
<1>3. ASSUME net.phase = "open",
             LET n == Accept(net, id, ch, NoCursor)
                 r == CHOOSE x \in n.srv : x.sub = id
             IN  net' = Emit(n, r, r, <<"resync">>, NoCursor, "none")
      PROVE  /\ WireShape(net') /\ Confirmed(net') \subseteq Confirmed(net) \cup {id}
             /\ Renewed(net') \subseteq Renewed(net)
           /\ Renewed(net') \subseteq Renewed(net)
             /\ net'.phase = "open"
  <2> DEFINE n == Accept(net, id, ch, NoCursor)
             r == CHOOSE x \in n.srv : x.sub = id
  <2>1. n \in Like(net) /\ \E x \in n.srv : x.sub = id
    BY <1>1, AcceptType DEF Cursors
  <2>2. r \in n.srv /\ r.sub = id /\ n \in Network
    BY <2>1 DEF Like
  <2>3. r \in ServerSubs /\ "resync" \in FrameKinds \ {"subscribed", "refreshed", "error"}
    BY <2>2 DEF Network, FrameKinds, StreamFrames
  <2>4. net' = Emit(n, r, r, <<"resync">>, NoCursor, "none")
    BY <1>3
  <2>5. /\ WireShape(n) /\ Confirmed(n) \subseteq Confirmed(net) \cup {id} /\ n.phase = "open"
        /\ Renewed(n) \subseteq Renewed(net)
    BY <1>1, <1>3, AcceptConfirms
  <2> HIDE DEF n, r
  <2>6. Emit(n, r, r, <<"resync">>, NoCursor, "none") \in Network
        /\ Emit(n, r, r, <<"resync">>, NoCursor, "none").phase = n.phase
    BY <2>2, <2>3, EmitOneType DEF Cursors
  <2>7. Calm(n, net')
    BY <2>2, <2>3, <2>4, <2>5, <2>6, EmitOneCalm
  <2> QED BY <2>4, <2>5, <2>6, <2>7 DEF Calm
<1>4. ASSUME NEW note \in {"cursorInvalid", "forbidden"}, net.phase = "open",
             net' = Post(net, Reply("error", id, 0, note))
      PROVE  Calm(net, net')
  <2>1. Reply("error", id, 0, note) \in Frames /\ IsPlain(Reply("error", id, 0, note))
    BY ReplyType DEF Plain, FrameKinds, StreamFrames, Notes, IsPlain, Names, Reply, Frame
  <2> QED BY <1>1, <1>4, <2>1, PostCalm
<1> QED BY <1>2, <1>3, <1>4 DEF ServerAnswers, Calm

-----------------------------------------------------------------------------
(* The invariant.                                                          *)

Asking(s) == {p \in req.pending : p.kind = "subscribe" /\ p.s = s}
Due       == {turn[i] : i \in DOMAIN turn}
Retries   == {j \in Due : j.do = "retry"}

\* Sockets are numbered upwards, and only an authenticated one is used.
SocketsInv ==
    /\ conn.ws <= conn.opens
    /\ conn.authSent => conn.ws # 0
    /\ net.phase = "open" \/ net.wire # <<>> => conn.authSent
    /\ net.phase = "connecting" => ~conn.authSent
    /\ \A f \in fetches : f.ws <= conn.opens
    /\ \A f \in fetches : f.kind # "connect" => f.ws # 0 /\ (f.ws = conn.ws => conn.authSent)
    /\ \A f \in Opening, g \in fetches : g.kind # "connect" => g.ws < f.ws

\* A number names one request, then at most one subscription.
IdsInv ==
    /\ WireShape(net)
    /\ \A p \in req.pending : p.id # 0 /\ p.id <= req.seq
    /\ \A p, q \in req.pending : p.id = q.id => p = q
    /\ \A b \in req.bySub : b.sub # 0 /\ b.sub <= req.seq /\ b.sub \notin Confirmed(net)
    /\ \A b, c \in req.bySub : b.sub = c.sub => b = c
    /\ \A b \in req.bySub, p \in req.pending : p.id # b.sub
    /\ \A id \in Confirmed(net) : id <= req.seq
    /\ \A f \in fetches : f.kind = "refresh" => f.id # 0
    /\ \A f \in fetches : f.kind = "subscribe" =>
          /\ f.id # 0 /\ f.id <= req.seq /\ f.id \notin Confirmed(net)
          /\ \A b \in req.bySub : b.sub # f.id
          /\ \A g \in fetches : g.kind = "subscribe" /\ g.id = f.id => f = g

\* A current stream is subscribed, or asks to be once, or waits to ask.
Tidy(s) ==
    LET r == stream[s]
    IN  /\ r.channel # NoChannel
        /\ \A p, q \in Asking(s) : p = q
        /\ Asking(s) # {} => r.sub = 0 /\ r.retryTimer = 0
        /\ r.retryTimer # 0 => r.sub = 0 /\ r.retryTimer = conn.ws /\ conn.authSent
        /\ r.sub # 0 => [sub |-> r.sub, s |-> s] \in req.bySub

\* Only current streams have requests, names and tokens to refresh, and a retry
\* that is due finds its stream as the failed request left it.
Settled(s) ==
    LET r == stream[s]
    IN  /\ IsCurrent(s) => Tidy(s)
        /\ \A b \in req.bySub : b.s = s => IsCurrent(s) /\ b.sub = r.sub /\ conn.authSent
        /\ \A p \in req.pending : p.s = s => IsCurrent(s) /\ conn.authSent
        /\ r.channel = NoChannel => r.sub = 0 /\ r.retryTimer = 0
        /\ \A f \in fetches : f.kind = "refresh" /\ f.s = s /\ f.ws = conn.ws /\ f.id = r.sub => IsCurrent(s)
        /\ \A j \in Retries : j.s = s =>
              /\ r.channel # NoChannel
              /\ IsCurrent(s) => conn.authSent /\ Asking(s) = {} /\ r.sub = 0 /\ j.left = {conn.ws}

Placed == \A ch \in Channels : subs[ch] # NoStream => stream[subs[ch]].channel = ch

RequestsInv == SocketsInv /\ IdsInv /\ Placed /\ \A s \in Streams : Settled(s)

-----------------------------------------------------------------------------
(* What a step may do to the requests.                                     *)

Kept(s)  == /\ stream'[s].channel = stream[s].channel
            /\ stream'[s].sub = stream[s].sub
            /\ stream'[s].retryTimer = stream[s].retryTimer
Others(s) == \A t \in Streams \ {s} : Kept(t)
SameSocket == /\ conn'.ws = conn.ws /\ conn'.authSent = conn.authSent /\ conn'.opens = conn.opens
              /\ Opening' \subseteq Opening
NetKept  == Calm(net, net') /\ net'.phase \in {net.phase, "lost", "refused"}
Fewer    == req'.pending \subseteq req.pending /\ req.seq <= req'.seq
NamedBut(s) == {b \in req.bySub : b.s # s}

\* A channel without a stream gets a new one.
Places(s, ch) ==
    /\ subs[ch] = NoStream /\ subs' = [subs EXCEPT ![ch] = s]
    /\ stream[s].channel = NoChannel /\ stream'[s].channel = ch
    /\ stream'[s].sub = stream[s].sub /\ stream'[s].retryTimer = stream[s].retryTimer
    /\ Others(s)

\* A token fetch for what there is on this socket.
Harmless(f) == /\ f.ws = conn.ws /\ conn.authSent
               /\ \/ f.kind = "reauth"
                  \/ f.kind = "refresh" /\ f.id # 0 /\ f.s \in Current

Quiet ==
    /\ subs' = subs /\ SameSocket /\ NetKept /\ Fewer
    /\ req'.bySub = req.bySub
    /\ \A s \in Streams : Kept(s)
    /\ \A f \in fetches' : f \in fetches \/ Harmless(f)
    /\ Retries' \subseteq Retries

\* The socket is given up, and with it every request.
Ends ==
    /\ conn'.ws = 0 /\ ~conn'.authSent /\ conn'.opens = conn.opens /\ Opening' \subseteq Opening
    /\ req'.pending = {} /\ req'.bySub = {} /\ req.seq <= req'.seq
    /\ net' = Offline /\ fetches' = fetches
    /\ \A s \in Streams :
          /\ stream'[s].channel = stream[s].channel
          /\ stream'[s].sub \in {0, stream[s].sub} /\ stream'[s].retryTimer \in {0, stream[s].retryTimer}
    /\ \A s \in Current' : s \in Current /\ stream'[s].sub = 0 /\ stream'[s].retryTimer = 0
    /\ Current' = {} \/ Retries' = {}
    /\ \A ch \in Channels : subs'[ch] \in {subs[ch], NoStream}
    /\ Retries' \subseteq Retries

\* A stream goes.
Leaves(s) ==
    /\ \A ch \in Channels : subs'[ch] = IF subs[ch] = s THEN NoStream ELSE subs[ch]
    /\ SameSocket /\ NetKept /\ Fewer
    /\ \A p \in req'.pending : p.s # s
    /\ req'.bySub = NamedBut(s)
    /\ fetches' = fetches
    /\ Others(s) /\ stream'[s].channel = stream[s].channel
    /\ stream'[s].sub = 0 /\ stream'[s].retryTimer = 0
    /\ Retries' \subseteq Retries

\* A stream asks to be subscribed.
Asks(s) ==
    LET id == req'.seq
    IN  /\ SameSocket /\ NetKept /\ conn.authSent
        /\ req.seq < id
        /\ Request(id, "subscribe", s) \in req'.pending
        /\ \A p \in req'.pending : \/ p = Request(id, "subscribe", s)
                                   \/ p \in req.pending /\ ~(p.s = s /\ p.kind = "subscribe")
        /\ req'.bySub = NamedBut(s)
        /\ fetches' = fetches \cup {Fetch("subscribe", conn.ws, 0, s, id)}
        /\ stream'[s].sub = 0 /\ stream'[s].retryTimer = 0
        /\ \/ \E ch \in Channels : Places(s, ch)
           \/ subs' = subs /\ IsCurrent(s) /\ Others(s) /\ stream'[s].channel = stream[s].channel
        /\ Retries' \subseteq Retries /\ \A j \in Retries' : j.s # s

\* A stream waits to ask again.
Waits(s) ==
    /\ subs' = subs /\ SameSocket /\ NetKept /\ Fewer
    /\ req'.bySub = NamedBut(s)
    /\ fetches' = fetches
    /\ Others(s) /\ stream'[s].channel = stream[s].channel /\ stream[s].channel # NoChannel
    /\ IsCurrent(s) => /\ stream'[s].sub = 0 /\ stream'[s].retryTimer = conn.ws /\ conn.authSent
                       /\ \A p \in req'.pending : ~(p.s = s /\ p.kind = "subscribe")
    /\ ~IsCurrent(s) => stream'[s].sub = stream[s].sub
    /\ Retries' \subseteq Retries

\* The client learns that a stream's request was granted.
Confirms(s, id) ==
    /\ subs' = subs /\ SameSocket /\ NetKept
    /\ Request(id, "subscribe", s) \in req.pending /\ id \in Confirmed(net) \ Confirmed(net')
    /\ req'.seq = req.seq /\ req'.pending = {p \in req.pending : p.id # id}
    /\ req'.bySub = req.bySub \cup {[sub |-> id, s |-> s]}
    /\ fetches' = fetches
    /\ Others(s) /\ stream'[s].channel = stream[s].channel
    /\ stream'[s].sub = id /\ stream'[s].retryTimer = stream[s].retryTimer
    /\ Retries' = {}

\* The server answers the request a token was fetched for.
Accepts(f) ==
    /\ UNCHANGED <<subs, stream, req>> /\ SameSocket
    /\ f \in fetches /\ f.kind = "subscribe" /\ fetches' = fetches \ {f}
    /\ WireShape(net') /\ Confirmed(net') \subseteq Confirmed(net) \cup {f.id}
    /\ Renewed(net') \subseteq Renewed(net)
    /\ net'.wire # <<>> => net.wire # <<>> \/ net'.phase = "open"
    /\ net'.phase = net.phase
    /\ Retries' \subseteq Retries

\* It gets no token for it: a retry is due.
Fails(f) ==
    /\ UNCHANGED <<subs, stream>> /\ SameSocket /\ NetKept
    /\ Request(f.id, "subscribe", f.s) \in req.pending /\ conn.ws = f.ws
    /\ req'.seq = req.seq /\ req'.pending = req.pending \ {Request(f.id, "subscribe", f.s)}
    /\ req'.bySub = req.bySub
    /\ fetches' = fetches \ {f}
    /\ \A j \in Retries' : j.s = f.s /\ j.left = {f.ws}

\* A subscription's token is to be refreshed.
Refreshes(s) ==
    /\ UNCHANGED <<subs, stream>> /\ SameSocket /\ conn.authSent /\ IsCurrent(s)
    /\ WireShape(net') /\ Confirmed(net') \subseteq Confirmed(net)
    /\ Renewed(net') \subseteq Renewed(net) \cup {req.seq + 1}
    /\ net'.wire # <<>> => net.wire # <<>> \/ net'.phase = "open"
    /\ net'.phase = net.phase
    /\ req'.seq = req.seq + 1 /\ req'.pending = req.pending \cup {Request(req.seq + 1, "refresh", s)}
    /\ req'.bySub = req.bySub
    /\ fetches' \subseteq fetches
    /\ Retries' \subseteq Retries

\* A socket is to be opened, perhaps for a new stream.
Dials ==
    /\ conn'.ws = conn.ws /\ conn'.authSent = conn.authSent /\ ~conn.authSent
    /\ \/ conn'.opens = conn.opens /\ Opening' \subseteq Opening /\ fetches' = fetches
       \/ \E f \in fetches' : /\ f.ws = conn.opens + 1 /\ conn'.opens = conn.opens + 1 /\ f.kind = "connect"
                              /\ fetches' = fetches \cup {f} /\ Opening' \subseteq Opening \cup {f}
    /\ UNCHANGED <<req, net>>
    /\ \/ subs' = subs /\ stream' = stream
       \/ \E s \in Streams, ch \in Channels : Places(s, ch)
    /\ Retries' \subseteq Retries

\* A socket is there, and opens.
Connects ==
    /\ UNCHANGED <<subs, stream, req>>
    /\ \E f \in Opening : conn'.ws = f.ws /\ fetches' = fetches \ {f}
    /\ ~conn'.authSent /\ conn'.opens = conn.opens /\ Opening' = {}
    /\ net'.wire = <<>> /\ net'.srv = {} /\ net'.phase # "open"
    /\ Retries' \subseteq Retries

-----------------------------------------------------------------------------
(* Each of these keeps the sockets in order.                               *)

LEMMA FetchNumbers ==
    ASSUME TypeOK
    PROVE  /\ conn.ws \in Nat /\ conn.opens \in Nat /\ req.seq \in Nat
           /\ \A f \in fetches : f.ws \in Nat /\ f.id \in Nat
           /\ \A f \in Opening : f \in fetches /\ f.kind = "connect"
BY FetchFields DEF TypeOK, Connection, Tables, Opening, Dialled

\* On the same socket, requests are only made once it is authenticated.
LEMMA SocketStays ==
    ASSUME TypeOK, LinkInv, SocketsInv, SameSocket,
           net'.phase \in {net.phase, "lost", "refused"},
           net'.wire # <<>> => net.wire # <<>> \/ net'.phase = "open",
           \A f \in fetches' : f \in fetches \/ (f.kind # "connect" /\ f.ws = conn.ws /\ conn.authSent)
    PROVE  SocketsInv'
<1>1. conn.authSent => Opening = {} /\ conn.ws # 0 /\ conn.ws <= conn.opens
  BY OneConnectionByDialled DEF DialledOnce, LinkInv, SocketsInv
<1>2. \A f \in Opening', g \in fetches' : g.kind # "connect" => g.ws < f.ws
  BY <1>1 DEF SocketsInv, SameSocket
<1>3. \A f \in fetches' : f.ws <= conn'.opens
  BY <1>1 DEF SocketsInv, SameSocket
<1>4. \A f \in fetches' : f.kind # "connect" => f.ws # 0 /\ (f.ws = conn'.ws => conn'.authSent)
  BY <1>1 DEF SocketsInv, SameSocket
<1>5. /\ net'.phase = "open" \/ net'.wire # <<>> => conn'.authSent
      /\ net'.phase = "connecting" => ~conn'.authSent
  BY DEF SocketsInv, SameSocket
<1> QED BY <1>2, <1>3, <1>4, <1>5 DEF SocketsInv, SameSocket

LEMMA SocketEnds ==
    ASSUME TypeOK, SocketsInv, Ends
    PROVE  SocketsInv'
<1>1. conn'.ws = 0 /\ ~conn'.authSent /\ conn'.opens = conn.opens /\ Opening' \subseteq Opening
      /\ net' = Offline /\ fetches' = fetches
  BY DEF Ends
<1>2. net'.phase # "open" /\ net'.wire = <<>>
  BY <1>1 DEF Offline
<1> QED BY <1>1, <1>2, FetchNumbers DEF SocketsInv

LEMMA SocketDials ==
    ASSUME TypeOK, SocketsInv, Dials
    PROVE  SocketsInv'
<1>1. conn'.ws = conn.ws /\ conn'.authSent = conn.authSent /\ UNCHANGED net
  BY DEF Dials
<1>2. CASE conn'.opens = conn.opens /\ Opening' \subseteq Opening /\ fetches' = fetches
  BY <1>1, <1>2 DEF SocketsInv
<1>3. ASSUME NEW f, f.ws = conn.opens + 1, conn'.opens = conn.opens + 1, f.kind = "connect",
             fetches' = fetches \cup {f}, Opening' \subseteq Opening \cup {f}
      PROVE  SocketsInv'
  <2>1. \A g \in fetches' : g.ws <= conn'.opens
    BY <1>3, FetchNumbers DEF SocketsInv
  <2>2. \A e \in Opening', g \in fetches' : g.kind # "connect" => g.ws < e.ws
    BY <1>3, FetchNumbers DEF SocketsInv
  <2>3. conn'.ws <= conn'.opens
    BY <1>1, <1>3, FetchNumbers DEF SocketsInv
  <2> QED BY <1>1, <1>3, <2>1, <2>2, <2>3 DEF SocketsInv
<1> QED BY <1>2, <1>3 DEF Dials

LEMMA SocketConnects ==
    ASSUME TypeOK, LinkInv, SocketsInv, Connects
    PROVE  SocketsInv'
<1>1. PICK f \in Opening : conn'.ws = f.ws /\ fetches' = fetches \ {f}
  BY DEF Connects
<1>2. f \in fetches /\ \A g \in fetches : g.kind # "connect" => g.ws < f.ws /\ g.ws \in Nat
  BY FetchNumbers DEF SocketsInv
<1>3. f.ws <= conn.opens /\ f.ws \in Nat
  BY <1>2, FetchNumbers DEF SocketsInv
<1>4. ~conn'.authSent /\ conn'.opens = conn.opens /\ Opening' = {} /\ net'.wire = <<>> /\ net'.phase # "open"
  BY DEF Connects
<1>5. \A g \in fetches' : g.kind # "connect" => g.ws # 0 /\ g.ws # conn'.ws
  BY <1>1, <1>2, <1>3 DEF SocketsInv
<1> QED BY <1>1, <1>3, <1>4, <1>5 DEF SocketsInv

-----------------------------------------------------------------------------
(* Each of these keeps the numbers unambiguous.                            *)

\* Tables and wire only shrink.
LEMMA IdsShrink ==
    ASSUME TypeOK, IdsInv, Fewer, req'.bySub \subseteq req.bySub,
           WireShape(net'), Confirmed(net') \subseteq Confirmed(net),
           \A f \in fetches' : \/ f \in fetches \/ f.kind \in {"connect", "reauth"}
                               \/ f.kind = "refresh" /\ f.id # 0,
           req'.seq \in Nat
    PROVE  IdsInv'
<1>1. \A n \in Nat : n <= req.seq => n <= req'.seq
  BY FetchNumbers DEF Fewer
<1>2. \A p \in req'.pending : p.id # 0 /\ p.id <= req'.seq
  <2>1. \A p \in req.pending : p.id \in Nat
    BY DEF TypeOK, Tables, Requests
  <2> QED BY <1>1, <2>1 DEF IdsInv, Fewer
<1>3. \A b \in req'.bySub : b.sub # 0 /\ b.sub <= req'.seq /\ b.sub \notin Confirmed(net')
  <2>1. \A b \in req.bySub : b.sub \in Nat
    BY DEF TypeOK, Tables
  <2> QED BY <1>1, <2>1 DEF IdsInv
<1>4. \A id \in Confirmed(net') : id <= req'.seq
  <2>1. \A id \in Confirmed(net) : id \in Nat
    BY NetFields DEF TypeOK, Confirmed, Confirming
  <2> QED BY <1>1, <2>1 DEF IdsInv
<1>5. \A f \in fetches' : f.kind = "refresh" => f.id # 0
  BY DEF IdsInv
<1>6. \A f \in fetches' : f.kind = "subscribe" =>
         /\ f.id # 0 /\ f.id <= req'.seq /\ f.id \notin Confirmed(net')
         /\ \A b \in req'.bySub : b.sub # f.id
         /\ \A g \in fetches' : g.kind = "subscribe" /\ g.id = f.id => f = g
  <2>1. \A f \in fetches' : f.kind = "subscribe" => f \in fetches
    OBVIOUS
  <2> QED BY <1>1, <2>1, FetchNumbers DEF IdsInv
<1>7. /\ \A p, q \in req'.pending : p.id = q.id => p = q
      /\ \A b, c \in req'.bySub : b.sub = c.sub => b = c
      /\ \A b \in req'.bySub, p \in req'.pending : p.id # b.sub
  BY DEF IdsInv, Fewer
<1> QED BY <1>2, <1>3, <1>4, <1>5, <1>6, <1>7 DEF IdsInv

\* New requests get numbers nothing had before.
LEMMA IdsAsk ==
    ASSUME TypeOK, IdsInv, req.seq <= req'.seq, req'.seq \in Nat, req'.bySub \subseteq req.bySub,
           WireShape(net'), Confirmed(net') \subseteq Confirmed(net),
           \A p \in req'.pending : p \in req.pending \/ (p.id \in Nat /\ p.id > req.seq /\ p.id <= req'.seq),
           \A p, q \in req'.pending : p.id > req.seq /\ p.id = q.id => p = q,
           \A f \in fetches' : \/ f \in fetches
                               \/ /\ f.kind = "subscribe" /\ f.id \in Nat
                                  /\ f.id > req.seq /\ f.id <= req'.seq,
           \A f, g \in fetches' : f.kind = "subscribe" /\ g.kind = "subscribe" /\ f.id > req.seq
                                  /\ f.id = g.id => f = g
    PROVE  IdsInv'
<1>1. \A n \in Nat : n <= req.seq => n <= req'.seq /\ ~(n > req.seq)
  BY FetchNumbers
<1>2. /\ \A p \in req.pending : p.id \in Nat /\ p.id # 0 /\ p.id <= req.seq
      /\ \A b \in req.bySub : b.sub \in Nat /\ b.sub # 0 /\ b.sub <= req.seq
      /\ \A id \in Confirmed(net) : id \in Nat /\ id <= req.seq
      /\ \A f \in fetches : f.kind = "subscribe" => f.id \in Nat /\ f.id # 0 /\ f.id <= req.seq
  <2>1. \A p \in req.pending : p.id \in Nat
    BY DEF TypeOK, Tables, Requests
  <2>2. \A b \in req.bySub : b.sub \in Nat
    BY DEF TypeOK, Tables
  <2>3. \A id \in Confirmed(net) : id \in Nat
    BY NetFields DEF TypeOK, Confirmed, Confirming
  <2> QED BY <2>1, <2>2, <2>3, FetchNumbers DEF IdsInv
<1>3. req.seq \in Nat /\ \A n \in Nat : n > req.seq => n # 0
  BY FetchNumbers
<1>4. \A p \in req'.pending : p.id # 0 /\ p.id <= req'.seq
  BY <1>1, <1>2, <1>3
<1>5. \A p, q \in req'.pending : p.id = q.id => p = q
  BY <1>1, <1>2 DEF IdsInv
<1>6. /\ \A b \in req'.bySub : b.sub # 0 /\ b.sub <= req'.seq /\ b.sub \notin Confirmed(net')
      /\ \A b, c \in req'.bySub : b.sub = c.sub => b = c
      /\ \A id \in Confirmed(net') : id <= req'.seq
  BY <1>1, <1>2 DEF IdsInv
<1>7. \A b \in req'.bySub, p \in req'.pending : p.id # b.sub
  BY <1>1, <1>2 DEF IdsInv
<1>8. \A f \in fetches' : f.kind = "refresh" => f.id # 0
  BY DEF IdsInv
<1>9. ASSUME NEW f \in fetches', f.kind = "subscribe"
      PROVE  /\ f.id # 0 /\ f.id <= req'.seq /\ f.id \notin Confirmed(net')
             /\ \A b \in req'.bySub : b.sub # f.id
             /\ \A g \in fetches' : g.kind = "subscribe" /\ g.id = f.id => f = g
  <2>1. CASE f \in fetches
    BY <1>1, <1>2, <1>9, <2>1 DEF IdsInv
  <2>2. CASE f.id \in Nat /\ f.id > req.seq /\ f.id <= req'.seq
    BY <1>1, <1>2, <1>3, <1>9, <2>2
  <2> QED BY <1>9, <2>1, <2>2
<1> QED BY <1>4, <1>5, <1>6, <1>7, <1>8, <1>9 DEF IdsInv

\* A token arrives, and the server grants what it was fetched for.
LEMMA IdsAccept ==
    ASSUME TypeOK, IdsInv, NEW f, Accepts(f)
    PROVE  IdsInv'
<1>1. /\ req' = req /\ f \in fetches /\ f.kind = "subscribe" /\ fetches' = fetches \ {f}
      /\ WireShape(net') /\ Confirmed(net') \subseteq Confirmed(net) \cup {f.id}
  BY DEF Accepts
<1>2. /\ f.id <= req.seq /\ \A b \in req.bySub : b.sub # f.id
      /\ \A g \in fetches' : g.kind = "subscribe" => g.id # f.id
  BY <1>1 DEF IdsInv
<1> QED BY <1>1, <1>2 DEF IdsInv

\* The client learns of it.
LEMMA IdsConfirm ==
    ASSUME TypeOK, IdsInv, NEW s, NEW id, Confirms(s, id)
    PROVE  IdsInv'
<1>1. /\ Request(id, "subscribe", s) \in req.pending /\ id \in Confirmed(net) \ Confirmed(net')
      /\ req'.seq = req.seq /\ req'.pending = {p \in req.pending : p.id # id}
      /\ req'.bySub = req.bySub \cup {[sub |-> id, s |-> s]}
      /\ fetches' = fetches /\ WireShape(net') /\ Confirmed(net') \subseteq Confirmed(net)
  BY DEF Confirms, NetKept, Calm
<1>2. Request(id, "subscribe", s).id = id
  BY DEF Request
<1>3. id # 0 /\ id <= req.seq /\ \A b \in req.bySub : b.sub # id
  BY <1>1, <1>2 DEF IdsInv
<1>4. \A b \in req'.bySub : \/ b \in req.bySub
                            \/ b = [sub |-> id, s |-> s] /\ b.sub = id
  BY <1>1
<1> HIDE <1>1
<1>5. \A b \in req'.bySub : b.sub # 0 /\ b.sub <= req'.seq /\ b.sub \notin Confirmed(net')
  BY <1>1, <1>3, <1>4 DEF IdsInv
<1>6. \A b, c \in req'.bySub : b.sub = c.sub => b = c
  BY <1>3, <1>4 DEF IdsInv
<1>7. \A b \in req'.bySub, p \in req'.pending : p.id # b.sub
  BY <1>1, <1>4 DEF IdsInv
<1>8. \A f \in fetches' : f.kind = "subscribe" => \A b \in req'.bySub : b.sub # f.id
  BY <1>1, <1>4 DEF IdsInv
<1> QED BY <1>1, <1>5, <1>6, <1>7, <1>8 DEF IdsInv

-----------------------------------------------------------------------------
(* Each of these leaves every stream settled.                              *)

\* A stream that is left alone, but for a token to refresh.
LEMMA Untouched ==
    ASSUME NEW s \in Streams, Settled(s), Kept(s), s \in Current' <=> s \in Current,
           conn'.ws = conn.ws, conn'.authSent = conn.authSent,
           \A p \in req'.pending : p.s = s =>
              p \in req.pending \/ (p.kind = "refresh" /\ s \in Current /\ conn.authSent),
           \A b \in req'.bySub : b.s = s => b \in req.bySub,
           \A b \in req.bySub : b.s = s => b \in req'.bySub,
           \A f \in fetches' : f.kind = "refresh" /\ f.s = s => f \in fetches \/ s \in Current,
           \A j \in Retries' : j.s = s => j \in Retries
    PROVE  Settled(s)'
<1>1. Asking(s)' \subseteq Asking(s)
  BY DEF Asking
<1>2. Tidy(s) /\ s \in Current => Tidy(s)'
  BY <1>1 DEF Tidy, Kept, Settled, IsCurrent
<1>3. \A j \in Retries' : j.s = s =>
         /\ stream'[s].channel # NoChannel
         /\ s \in Current' => conn'.authSent /\ Asking(s)' = {} /\ stream'[s].sub = 0 /\ j.left = {conn'.ws}
  BY <1>1 DEF Settled, IsCurrent, Kept
<1>4. \A f \in fetches' : f.kind = "refresh" /\ f.s = s /\ f.ws = conn'.ws /\ f.id = stream'[s].sub => s \in Current'
  BY DEF Settled, IsCurrent, Kept
<1> QED BY <1>2, <1>3, <1>4 DEF Settled, IsCurrent, Kept

LEMMA SameCurrent == subs' = subs => Current' = Current
BY DEF Current

LEMMA QuietSettles ==
    ASSUME \A s \in Streams : Settled(s), Quiet, NEW s \in Streams
    PROVE  Settled(s)'
<1>1. Settled(s) /\ Kept(s) /\ Current' = Current
  BY SameCurrent DEF Quiet
<1>2. \A f \in fetches' : f.kind = "refresh" /\ f.s = s => f \in fetches \/ s \in Current
  BY DEF Quiet, Harmless
<1> QED BY <1>1, <1>2, Untouched DEF Quiet, SameSocket, Fewer

LEMMA AcceptsSettles ==
    ASSUME TypeOK, \A s \in Streams : Settled(s), NEW f, Accepts(f), NEW s \in Streams
    PROVE  Settled(s)'
BY Untouched, SameCurrent DEF Accepts, SameSocket, Kept

LEMMA RefreshesSettles ==
    ASSUME \A s \in Streams : Settled(s), NEW t, Refreshes(t), NEW s \in Streams
    PROVE  Settled(s)'
<1>1. Settled(s) /\ Kept(s) /\ Current' = Current
  BY SameCurrent DEF Refreshes, Kept
<1>2. \A p \in req'.pending : p.s = s =>
         p \in req.pending \/ (p.kind = "refresh" /\ s \in Current /\ conn.authSent)
  BY DEF Refreshes, Request, IsCurrent
<1> QED BY <1>1, <1>2, Untouched DEF Refreshes, SameSocket

LEMMA FailsSettles ==
    ASSUME TypeOK, \A s \in Streams : Settled(s), NEW f, Fails(f), NEW s \in Streams
    PROVE  Settled(s)'
<1>1. Settled(s) /\ Kept(s) /\ Current' = Current
  BY SameCurrent DEF Fails, Kept
<1>2. CASE s # f.s
  BY <1>1, <1>2, Untouched DEF Fails, SameSocket
<1>3. CASE s = f.s
  <2> DEFINE q == Request(f.id, "subscribe", s)
  <2>1. q.s = s /\ q.kind = "subscribe" /\ q \in req.pending /\ q \in Asking(s)
    BY <1>3 DEF Fails, Request, Asking
  <2>2. IsCurrent(s) /\ conn.authSent /\ Tidy(s)
    BY <1>1, <2>1 DEF Settled
  <2>3. stream[s].sub = 0 /\ stream[s].retryTimer = 0 /\ \A p \in Asking(s) : p = q
    BY <2>1, <2>2 DEF Tidy
  <2> HIDE DEF q
  <2>4. Asking(s)' = {}
    BY <1>3, <2>3 DEF Fails, Asking, q
  <2>5. conn'.ws = conn.ws /\ conn'.authSent = conn.authSent /\ req'.bySub = req.bySub
        /\ req'.pending \subseteq req.pending /\ fetches' \subseteq fetches /\ stream' = stream
    BY DEF Fails, SameSocket
  <2>6. Tidy(s)'
    BY <2>2, <2>3, <2>4, <2>5 DEF Tidy
  <2>7. \A j \in Retries' : j.s = s =>
           /\ stream'[s].channel # NoChannel
           /\ conn'.authSent /\ Asking(s)' = {} /\ stream'[s].sub = 0 /\ j.left = {conn'.ws}
    BY <1>3, <2>2, <2>3, <2>4, <2>5 DEF Fails, Tidy
  <2> QED BY <1>1, <2>2, <2>5, <2>6, <2>7 DEF Settled, IsCurrent
<1> QED BY <1>2, <1>3

LEMMA PlacesCurrent ==
    ASSUME TypeOK, Placed, NEW s \in Streams, Settled(s), NEW ch \in Channels, Places(s, ch)
    PROVE  /\ Placed' /\ Current' = Current \cup {s} /\ s \notin Current /\ ch # NoChannel
           /\ stream[s].sub = 0 /\ stream[s].retryTimer = 0
           /\ \A p \in req.pending : p.s # s
           /\ \A b \in req.bySub : b.s # s
           /\ \A j \in Retries : j.s # s
<1>1. \A k \in Channels : subs'[k] = IF k = ch THEN s ELSE subs[k]
  BY DEF TypeOK, Places
<1>2. ~IsCurrent(s) /\ s # NoStream /\ ch # NoChannel
  BY SentinelAssumption DEF Settled, Tidy, Places
<1>3. \A k \in Channels : subs[k] # s
  BY <1>2 DEF IsCurrent, Current
<1>4. Current' = Current \cup {s}
  BY <1>1, <1>2 DEF Current, Places
<1>5. Placed'
  <2> SUFFICES ASSUME NEW k \in Channels, subs'[k] # NoStream PROVE stream'[subs'[k]].channel = k
    BY DEF Placed
  <2>1. CASE k = ch
    BY <1>1, <2>1 DEF Places
  <2>2. CASE k # ch
    <3>1. subs'[k] = subs[k] /\ subs[k] \in Streams \ {s} /\ stream[subs[k]].channel = k
      BY <1>1, <1>3, <2>2 DEF TypeOK, MaybeStream, Placed
    <3> QED BY <3>1 DEF Places, Others, Kept
  <2> QED BY <2>1, <2>2
<1>6. /\ stream[s].sub = 0 /\ stream[s].retryTimer = 0
      /\ \A p \in req.pending : p.s # s
      /\ \A b \in req.bySub : b.s # s
      /\ \A j \in Retries : j.s # s
  BY <1>2 DEF Settled, Places
<1> QED BY <1>2, <1>4, <1>5, <1>6 DEF IsCurrent

LEMMA DialsSettles ==
    ASSUME TypeOK, Placed, \A s \in Streams : Settled(s), Dials
    PROVE  (\A s \in Streams : Settled(s)') /\ Placed'
<1>1. /\ conn'.ws = conn.ws /\ conn'.authSent = conn.authSent /\ UNCHANGED req
      /\ Retries' \subseteq Retries
      /\ \A f \in fetches' : f \in fetches \/ f.kind = "connect"
  BY DEF Dials
<1>2. CASE subs' = subs /\ stream' = stream
  BY <1>1, <1>2, SameCurrent, Untouched DEF Kept, Placed
<1>3. ASSUME NEW t \in Streams, NEW ch \in Channels, Places(t, ch)
      PROVE  (\A s \in Streams : Settled(s)') /\ Placed'
  <2>1. /\ Placed' /\ Current' = Current \cup {t} /\ t \notin Current /\ ch # NoChannel
        /\ stream[t].sub = 0 /\ stream[t].retryTimer = 0
        /\ \A p \in req.pending : p.s # t
        /\ \A b \in req.bySub : b.s # t
        /\ \A j \in Retries : j.s # t
    BY <1>3, PlacesCurrent
  <2>2. ASSUME NEW s \in Streams \ {t}
        PROVE  Settled(s)'
    BY <1>1, <1>3, <2>1, Untouched DEF Places, Others
  <2>3. Settled(t)'
    <3>1. Asking(t)' = {}
      BY <1>1, <2>1 DEF Asking
    <3>2. Tidy(t)'
      BY <1>3, <2>1, <3>1 DEF Tidy, Places
    <3> QED BY <1>1, <1>3, <2>1, <3>2 DEF Settled, IsCurrent, Places
  <2> QED BY <2>1, <2>2, <2>3
<1> QED BY <1>2, <1>3 DEF Dials

LEMMA LeavesSettles ==
    ASSUME TypeOK, Placed, \A s \in Streams : Settled(s), NEW t \in Streams, Leaves(t),
           \A f \in fetches : f.kind = "refresh" => f.id # 0
    PROVE  (\A s \in Streams : Settled(s)') /\ Placed'
<1>1. Current' = Current \ {t}
  <2>1. \A ch \in Channels : subs'[ch] # NoStream => subs'[ch] = subs[ch] /\ subs[ch] # t
    BY DEF Leaves
  <2>2. \A ch \in Channels : subs[ch] # t => subs'[ch] = subs[ch]
    BY DEF Leaves
  <2> QED BY <2>1, <2>2 DEF Current
<1>2. ASSUME NEW s \in Streams \ {t}
      PROVE  Settled(s)'
  BY <1>1, <1>2, Untouched DEF Leaves, Others, SameSocket, Fewer, NamedBut
<1>3. Settled(t)'
  <2>1. Settled(t)
    OBVIOUS
  <2>2. \A j \in Retries' : j.s = t => stream'[t].channel # NoChannel
    BY <2>1 DEF Leaves, Settled
  <2>3. \A f \in fetches' : f.kind = "refresh" => f.id # 0
    BY DEF Leaves
  <2> QED BY <1>1, <2>2, <2>3 DEF Leaves, Settled, IsCurrent, NamedBut
<1>4. Placed'
  <2>1. \A ch \in Channels : subs'[ch] # NoStream =>
           subs'[ch] = subs[ch] /\ subs[ch] \in Streams \ {t} /\ stream[subs[ch]].channel = ch
    BY DEF Leaves, TypeOK, MaybeStream, Placed
  <2> QED BY <2>1 DEF Placed, Leaves, Others, Kept
<1> QED BY <1>2, <1>3, <1>4

LEMMA AsksSettles ==
    ASSUME TypeOK, Placed, \A s \in Streams : Settled(s), NEW t \in Streams, Asks(t)
    PROVE  (\A s \in Streams : Settled(s)') /\ Placed'
<1> DEFINE q == Request(req'.seq, "subscribe", t)
<1>1. q.s = t /\ q.kind = "subscribe"
  BY DEF Request
<1>2. /\ conn'.ws = conn.ws /\ conn'.authSent = conn.authSent /\ conn.authSent
      /\ q \in req'.pending
      /\ \A p \in req'.pending : p = q \/ (p \in req.pending /\ ~(p.s = t /\ p.kind = "subscribe"))
      /\ \A f \in fetches' : f \in fetches \/ f.kind = "subscribe"
      /\ stream'[t].sub = 0 /\ stream'[t].retryTimer = 0
      /\ req'.bySub = NamedBut(t)
      /\ Retries' \subseteq Retries /\ \A j \in Retries' : j.s # t
  BY DEF Asks, SameSocket, Fetch
<1> HIDE DEF q
<1>3. /\ Placed' /\ Others(t) /\ Current' = Current \cup {t} /\ stream'[t].channel # NoChannel
  <2>1. ASSUME NEW ch \in Channels, Places(t, ch)
        PROVE  /\ Placed' /\ Others(t) /\ Current' = Current \cup {t} /\ stream'[t].channel # NoChannel
    BY <2>1, PlacesCurrent DEF Places
  <2>2. CASE subs' = subs /\ IsCurrent(t) /\ Others(t) /\ stream'[t].channel = stream[t].channel
    <3>1. \A s \in Streams : stream'[s].channel = stream[s].channel
      BY <2>2 DEF Others, Kept
    <3>2. Placed'
      BY <2>2, <3>1 DEF Placed, TypeOK, MaybeStream
    <3> QED BY <2>2, <3>2, SameCurrent DEF IsCurrent, Settled, Tidy
  <2> QED BY <2>1, <2>2 DEF Asks
<1>4. ASSUME NEW s \in Streams \ {t}
      PROVE  Settled(s)'
  BY <1>1, <1>2, <1>3, <1>4, Untouched DEF Others, NamedBut
<1>5. Settled(t)'
  <2>1. Asking(t)' = {q}
    BY <1>1, <1>2 DEF Asking
  <2>2. Tidy(t)'
    BY <1>2, <1>3, <2>1 DEF Tidy
  <2> QED BY <1>2, <1>3, <2>2 DEF Settled, IsCurrent, NamedBut
<1> QED BY <1>3, <1>4, <1>5

LEMMA WaitsSettles ==
    ASSUME TypeOK, Placed, \A s \in Streams : Settled(s), NEW t \in Streams, Waits(t),
           \A f \in fetches : f.kind = "refresh" => f.id # 0
    PROVE  (\A s \in Streams : Settled(s)') /\ Placed'
<1>1. Current' = Current
  BY SameCurrent DEF Waits
<1>2. ASSUME NEW s \in Streams \ {t}
      PROVE  Settled(s)'
  BY <1>1, <1>2, Untouched DEF Waits, Others, SameSocket, Fewer, NamedBut
<1>3. Placed'
  BY DEF Placed, Waits, Others, Kept, TypeOK, MaybeStream
<1>4. Settled(t) /\ stream'[t].channel # NoChannel
  BY DEF Waits
<1>5. CASE IsCurrent(t)
  <2>1. Asking(t)' = {} /\ stream'[t].sub = 0 /\ stream'[t].retryTimer = conn'.ws /\ conn'.authSent
    BY <1>5 DEF Waits, Asking, SameSocket
  <2>2. Tidy(t)'
    BY <1>4, <2>1 DEF Tidy
  <2> QED BY <1>1, <1>2, <1>3, <1>4, <1>5, <2>1, <2>2 DEF Settled, IsCurrent, Waits, NamedBut, Fewer, SameSocket
<1>6. CASE ~IsCurrent(t)
  <2>1. Settled(t)'
    BY <1>1, <1>4, <1>6 DEF Settled, IsCurrent, Waits, NamedBut, Fewer, SameSocket
  <2> QED BY <1>2, <1>3, <2>1
<1> QED BY <1>5, <1>6

LEMMA ConfirmsSettles ==
    ASSUME TypeOK, IdsInv, Placed, \A s \in Streams : Settled(s), NEW t \in Streams, NEW id, Confirms(t, id)
    PROVE  (\A s \in Streams : Settled(s)') /\ Placed'
<1> DEFINE q == Request(id, "subscribe", t)
           b == [sub |-> id, s |-> t]
<1>1. q.s = t /\ q.kind = "subscribe" /\ q.id = id /\ q \in req.pending /\ b.s = t /\ b.sub = id
  BY DEF Request, Confirms
<1>2. Current' = Current /\ Retries' = {} /\ fetches' = fetches
      /\ conn'.ws = conn.ws /\ conn'.authSent = conn.authSent
      /\ req'.pending = {p \in req.pending : p.id # id} /\ req'.bySub = req.bySub \cup {b}
      /\ stream'[t].channel = stream[t].channel /\ stream'[t].sub = id
      /\ stream'[t].retryTimer = stream[t].retryTimer
  BY SameCurrent DEF Confirms, SameSocket
<1> HIDE DEF q, b
<1>3. ASSUME NEW s \in Streams \ {t}
      PROVE  Settled(s)'
  BY <1>1, <1>2, <1>3, Untouched DEF Confirms, Others
<1>4. Placed'
  BY DEF Placed, Confirms, Others, Kept, TypeOK, MaybeStream
<1>5. Settled(t) /\ IsCurrent(t) /\ conn.authSent /\ q \in Asking(t)
  BY <1>1 DEF Settled, Asking
<1>6. Tidy(t) /\ stream[t].sub = 0 /\ stream[t].retryTimer = 0 /\ \A p \in Asking(t) : p = q
  BY <1>5 DEF Settled, Tidy
<1>7. Asking(t)' = {}
  BY <1>1, <1>2, <1>6 DEF Asking
<1>8. id # 0 /\ \A c \in req.bySub : c.s # t
  BY <1>1, <1>5, <1>6 DEF IdsInv, Settled
<1>9. Tidy(t)'
  BY <1>2, <1>6, <1>7 DEF Tidy, b
<1>10. Settled(t)'
  BY <1>1, <1>2, <1>5, <1>8, <1>9 DEF Settled, IsCurrent, Tidy
<1> QED BY <1>3, <1>4, <1>10

LEMMA EndsSettles ==
    ASSUME TypeOK, SocketsInv, Placed, \A s \in Streams : Settled(s), Ends
    PROVE  (\A s \in Streams : Settled(s)') /\ Placed'
<1>1. Placed'
  <2>1. \A ch \in Channels : subs'[ch] # NoStream => subs'[ch] = subs[ch] /\ subs[ch] \in Streams
    BY DEF Ends, TypeOK, MaybeStream
  <2> QED BY <2>1 DEF Placed, Ends
<1>2. ASSUME NEW s \in Streams
      PROVE  Settled(s)'
  <2>1. Settled(s) /\ stream'[s].channel = stream[s].channel
    BY DEF Ends
  <2>2. /\ req'.pending = {} /\ req'.bySub = {} /\ conn'.ws = 0 /\ fetches' = fetches
        /\ Retries' \subseteq Retries /\ (s \in Current' => Retries' = {})
        /\ stream'[s].sub \in {0, stream[s].sub} /\ stream'[s].retryTimer \in {0, stream[s].retryTimer}
        /\ s \in Current' => s \in Current /\ stream'[s].sub = 0 /\ stream'[s].retryTimer = 0
    BY DEF Ends
  <2>3. Asking(s)' = {}
    BY <2>2 DEF Asking
  <2>4. s \in Current' => Tidy(s)'
    BY <2>1, <2>2, <2>3 DEF Tidy, Settled, IsCurrent
  <2>5. \A f \in fetches' : f.kind # "connect" => f.ws # conn'.ws
    BY <2>2 DEF SocketsInv
  <2>6. \A f \in fetches' : f.kind = "refresh" /\ f.s = s /\ f.ws = conn'.ws /\ f.id = stream'[s].sub => s \in Current'
    BY <2>5
  <2> QED BY <2>1, <2>2, <2>4, <2>6 DEF Settled, IsCurrent
<1> QED BY <1>1, <1>2

LEMMA ConnectsSettles ==
    ASSUME TypeOK, LinkInv, SocketsInv, Placed, \A s \in Streams : Settled(s), Connects
    PROVE  (\A s \in Streams : Settled(s)') /\ Placed'
<1>1. PICK g \in Opening : conn'.ws = g.ws /\ fetches' = fetches \ {g}
  BY DEF Connects
<1>2. /\ UNCHANGED <<subs, stream, req>> /\ Retries' \subseteq Retries /\ Current' = Current /\ Placed'
  BY SameCurrent DEF Connects, Placed
<1>3. conn.ws = 0 /\ ~conn.authSent
  BY OneConnectionByDialled DEF DialledOnce, LinkInv, SocketsInv
<1>4. \A f \in fetches' : f.kind # "connect" => f.ws # conn'.ws
  BY <1>1, FetchNumbers DEF SocketsInv
<1>5. ASSUME NEW s \in Streams
      PROVE  Settled(s)'
  <2>1. Settled(s) /\ Asking(s)' = Asking(s)
    BY <1>2 DEF Asking
  <2>2. s \in Current => Tidy(s)'
    BY <1>2, <1>3, <2>1 DEF Tidy, Settled, IsCurrent
  <2>3. \A j \in Retries' : j.s = s => s \notin Current
    BY <1>2, <1>3, <2>1 DEF Settled, IsCurrent
  <2> QED BY <1>2, <1>3, <1>4, <2>1, <2>2, <2>3 DEF Settled, IsCurrent
<1> QED BY <1>2, <1>5

\* Every stream asks once the socket is there.
LEMMA SocketOpensDoes ==
    ASSUME TypeOK, SocketOpens
    PROVE  \E rank \in [Current -> Nat \ {0}] :
              /\ \A s, t \in Current : rank[s] = rank[t] => s = t
              /\ req'.seq \in Nat /\ \A s \in Current : req.seq + rank[s] <= req'.seq
              /\ req.seq <= req'.seq /\ req'.bySub = req.bySub
              /\ req'.pending = req.pending \cup {Request(req.seq + rank[s], "subscribe", s) : s \in Current}
              /\ fetches' = fetches \cup {Fetch("subscribe", conn.ws, 0, s, req.seq + rank[s]) : s \in Current}
<1> DEFINE size == Cardinality(Current)
<1>1. size \in Nat
  BY FS_Subset, FS_CardinalityType, FiniteAssumption, CurrentStreams
<1>2. PICK rank \in [Current -> 1 .. size] :
         /\ \A s, t \in Current : rank[s] = rank[t] => s = t
         /\ req' = [req EXCEPT !.seq = @ + size, !.pending = @ \cup
                      {Request(req.seq + rank[s], "subscribe", s) : s \in Current}]
         /\ fetches' = fetches \cup {Fetch("subscribe", conn.ws, 0, s, req.seq + rank[s]) : s \in Current}
  BY DEF SocketOpens
<1> HIDE DEF size
<1>3. \A s \in Current : rank[s] \in Nat \ {0} /\ rank[s] <= size
  BY <1>1, <1>2
<1>4. /\ req'.seq = req.seq + size /\ req'.bySub = req.bySub
      /\ req'.pending = req.pending \cup {Request(req.seq + rank[s], "subscribe", s) : s \in Current}
  BY <1>2 DEF TypeOK, Tables
<1>5. rank \in [Current -> Nat \ {0}]
  BY <1>2, <1>3
<1>6. req'.seq \in Nat /\ req.seq <= req'.seq /\ \A s \in Current : req.seq + rank[s] <= req'.seq
  BY <1>1, <1>3, <1>4, FetchNumbers
<1> QED BY <1>2, <1>4, <1>5, <1>6

LEMMA SocketOpensKeeps ==
    ASSUME TypeOK, LinkInv, RequestsInv, SocketOpens
    PROVE  RequestsInv'
<1>1. PICK rank \in [Current -> Nat \ {0}] :
         /\ \A s, t \in Current : rank[s] = rank[t] => s = t
         /\ req'.seq \in Nat /\ \A s \in Current : req.seq + rank[s] <= req'.seq
         /\ req.seq <= req'.seq /\ req'.bySub = req.bySub
         /\ req'.pending = req.pending \cup {Request(req.seq + rank[s], "subscribe", s) : s \in Current}
         /\ fetches' = fetches \cup {Fetch("subscribe", conn.ws, 0, s, req.seq + rank[s]) : s \in Current}
  BY SocketOpensDoes
<1> DEFINE id(s) == req.seq + rank[s]
           new == {Request(id(s), "subscribe", s) : s \in Current}
           begun == {Fetch("subscribe", conn.ws, 0, s, id(s)) : s \in Current}
<1>2. /\ \A p \in new : p.kind = "subscribe" /\ p.s \in Current /\ p.id = id(p.s)
                        /\ p = Request(id(p.s), "subscribe", p.s)
      /\ \A s \in Current : \E p \in new : p = Request(id(s), "subscribe", s)
      /\ \A f \in begun : /\ f.kind = "subscribe" /\ f.s \in Current /\ f.id = id(f.s) /\ f.ws = conn.ws
                          /\ f = Fetch("subscribe", conn.ws, 0, f.s, id(f.s))
  <2> HIDE DEF id
  <2>1. \A s \in Current : /\ Request(id(s), "subscribe", s).kind = "subscribe"
                           /\ Request(id(s), "subscribe", s).s = s
                           /\ Request(id(s), "subscribe", s).id = id(s)
    BY DEF Request
  <2>2. \A s \in Current : LET f == Fetch("subscribe", conn.ws, 0, s, id(s))
                          IN  f.kind = "subscribe" /\ f.s = s /\ f.id = id(s) /\ f.ws = conn.ws
    BY DEF Fetch
  <2> QED BY <2>1, <2>2
<1>3. /\ req'.pending = req.pending \cup new /\ fetches' = fetches \cup begun
      /\ UNCHANGED <<subs, stream, turn>> /\ turn = <<>> /\ conn'.authSent /\ conn'.ws = conn.ws
      /\ conn'.opens = conn.opens /\ conn'.generation = conn.generation
      /\ net.phase = "connecting" /\ net'.phase = "open" /\ net'.wire = net.wire /\ net'.srv = net.srv
  BY <1>1 DEF SocketOpens, Idle, TypeOK, Connection, Network
<1>4. \A s \in Current : id(s) \in Nat /\ id(s) > req.seq /\ id(s) <= req'.seq
  BY <1>1, FetchNumbers
<1>5. \A s, t \in Current : id(s) = id(t) => s = t
  BY <1>1, FetchNumbers
<1> HIDE DEF id, new, begun
<1>6. conn.ws # 0 /\ Opening = {}
  BY <1>3, OneConnectionByDialled DEF DialledOnce, LinkInv
<1>7. Dialled' = Dialled /\ Opening' = {}
  BY <1>2, <1>3, <1>6 DEF Dialled, Opening
<1>8. SocketsInv'
  BY <1>2, <1>3, <1>6, <1>7 DEF RequestsInv, SocketsInv
<1>9. WireShape(net') /\ Confirmed(net') = Confirmed(net)
  BY <1>3 DEF RequestsInv, IdsInv, WireShape, Confirmed, Confirming
<1>10. IdsInv'
  <2>1. \A p, q \in req'.pending : p.id > req.seq /\ p.id = q.id => p = q
    <3>1. \A p \in req.pending : p.id \in Nat /\ p.id <= req.seq
      BY DEF TypeOK, Tables, Requests, RequestsInv, IdsInv
    <3>2. \A p \in req.pending : ~(p.id > req.seq)
      BY <3>1, FetchNumbers
    <3> QED BY <1>2, <1>3, <1>5, <3>2
  <2>2. \A f, g \in fetches' : f.kind = "subscribe" /\ g.kind = "subscribe" /\ f.id > req.seq
                               /\ f.id = g.id => f = g
    <3>1. \A f \in fetches : f.kind = "subscribe" => ~(f.id > req.seq)
      BY FetchNumbers DEF RequestsInv, IdsInv
    <3>2. \A f \in fetches' : f.kind = "subscribe" /\ f.id > req.seq => f \in begun
      BY <1>3, <3>1
    <3>3. \A f, g \in begun : f.id = g.id => f = g
      BY <1>2, <1>5
    <3> QED BY <3>2, <3>3
  <2>3. \A p \in req'.pending : p \in req.pending \/ (p.id \in Nat /\ p.id > req.seq /\ p.id <= req'.seq)
    BY <1>2, <1>3, <1>4
  <2>4. \A f \in fetches' : \/ f \in fetches
                            \/ /\ f.kind = "subscribe" /\ f.id \in Nat
                               /\ f.id > req.seq /\ f.id <= req'.seq
    BY <1>2, <1>3, <1>4
  <2>5. IdsInv /\ req.seq <= req'.seq /\ req'.seq \in Nat /\ req'.bySub \subseteq req.bySub
    BY <1>1 DEF RequestsInv
  <2> QED BY <1>9, <2>1, <2>2, <2>3, <2>4, <2>5, IdsAsk
<1>11. Current' = Current /\ Placed' /\ Retries' = {}
  BY <1>3, SameCurrent DEF RequestsInv, Placed, Retries, Due
<1>12. ASSUME NEW s \in Streams
       PROVE  Settled(s)'
  <2>1. Settled(s) /\ ~conn.authSent
    BY <1>3 DEF RequestsInv, SocketsInv
  <2>2. /\ \A p \in req.pending : p.s # s
        /\ \A b \in req.bySub : b.s # s
    BY <2>1 DEF Settled
  <2>3. \A f \in fetches' : f.kind = "refresh" => f \in fetches
    BY <1>2, <1>3
  <2>4. CASE s \in Current
    <3>1. Tidy(s) /\ stream[s].sub = 0 /\ stream[s].retryTimer = 0
      BY <2>1, <2>2, <2>4 DEF Settled, Tidy, IsCurrent
    <3>2. \A p, q \in Asking(s)' : p = q
      BY <1>2, <1>3, <2>2 DEF Asking
    <3>3. Tidy(s)'
      BY <1>3, <3>1, <3>2 DEF Tidy
    <3> QED BY <1>1, <1>3, <1>11, <2>1, <2>2, <2>3, <2>4, <3>3 DEF Settled, IsCurrent
  <2>5. CASE s \notin Current
    BY <1>1, <1>2, <1>3, <1>11, <2>1, <2>2, <2>3, <2>5 DEF Settled, IsCurrent
  <2> QED BY <2>4, <2>5
<1> QED BY <1>8, <1>10, <1>11, <1>12 DEF RequestsInv

-----------------------------------------------------------------------------
(* Each of these keeps the invariant.                                      *)

LEMMA EmptyWire ==
    ASSUME NEW n, n.wire = <<>>, n.srv = {}
    PROVE  WireShape(n) /\ Confirmed(n) = {} /\ Renewed(n) = {} /\ \A m : Calm(m, n)
<1>1. Confirming(n) = {} /\ Renewing(n) = {} /\ DOMAIN n.wire = {}
  BY DEF Confirming, Renewing
<1> QED BY <1>1 DEF WireShape, Confirmed, Renewed, Calm

LEMMA QuietKeeps ==
    ASSUME TypeOK, LinkInv, RequestsInv, Quiet, req'.seq \in Nat
    PROVE  RequestsInv'
<1>1. SocketsInv'
  BY SocketStays DEF Quiet, NetKept, Calm, Harmless, RequestsInv
<1>2. IdsInv'
  BY IdsShrink DEF Quiet, NetKept, Calm, Harmless, RequestsInv
<1>3. Placed'
  BY DEF Quiet, Kept, Placed, RequestsInv, TypeOK, MaybeStream
<1> QED BY <1>1, <1>2, <1>3, QuietSettles DEF RequestsInv

LEMMA EndsKeeps ==
    ASSUME TypeOK, RequestsInv, Ends, req'.seq \in Nat
    PROVE  RequestsInv'
<1>1. net'.wire = <<>> /\ net'.srv = {}
  BY DEF Ends, Offline
<1>2. WireShape(net') /\ Confirmed(net') \subseteq Confirmed(net)
  BY <1>1, EmptyWire
<1>3. Fewer /\ fetches' = fetches /\ req'.bySub \subseteq req.bySub
  BY DEF Ends, Fewer
<1>4. IdsInv'
  BY <1>2, <1>3, IdsShrink DEF RequestsInv
<1> QED BY <1>4, SocketEnds, EndsSettles DEF RequestsInv

LEMMA LeavesKeeps ==
    ASSUME TypeOK, LinkInv, RequestsInv, NEW s \in Streams, Leaves(s) \/ Waits(s), req'.seq \in Nat
    PROVE  RequestsInv'
<1>1. /\ SameSocket /\ NetKept /\ Fewer /\ fetches' = fetches /\ req'.bySub \subseteq req.bySub
  BY DEF Leaves, Waits, NamedBut
<1>2. SocketsInv'
  BY <1>1, SocketStays DEF NetKept, Calm, RequestsInv
<1>3. IdsInv'
  BY <1>1, IdsShrink DEF NetKept, Calm, RequestsInv
<1>4. \A f \in fetches : f.kind = "refresh" => f.id # 0
  BY DEF RequestsInv, IdsInv
<1> QED BY <1>2, <1>3, <1>4, LeavesSettles, WaitsSettles DEF RequestsInv

LEMMA AsksKeeps ==
    ASSUME TypeOK, LinkInv, RequestsInv, NEW s \in Streams, Asks(s), req'.seq \in Nat
    PROVE  RequestsInv'
<1> DEFINE id == req'.seq
           q == Request(id, "subscribe", s)
           f == Fetch("subscribe", conn.ws, 0, s, id)
<1>1. q.id = id /\ f.id = id /\ f.kind = "subscribe" /\ f.ws = conn.ws
  BY DEF Request, Fetch
<1>2. /\ SameSocket /\ NetKept /\ conn.authSent /\ req.seq < id
      /\ \A p \in req'.pending : p = q \/ p \in req.pending
      /\ req'.bySub \subseteq req.bySub /\ fetches' = fetches \cup {f}
  BY DEF Asks, NamedBut
<1> HIDE DEF q, f, id
<1>3. SocketsInv'
  BY <1>1, <1>2, SocketStays DEF NetKept, Calm, RequestsInv
<1>4. id \in Nat /\ req.seq \in Nat /\ req'.seq = id
  BY FetchNumbers DEF id
<1>5. /\ \A p \in req.pending : ~(p.id > req.seq)
      /\ \A g \in fetches : g.kind = "subscribe" => ~(g.id > req.seq)
  <2>1. \A p \in req.pending : p.id \in Nat /\ p.id <= req.seq
    BY DEF TypeOK, Tables, Requests, RequestsInv, IdsInv
  <2> QED BY <1>4, <2>1, FetchNumbers DEF RequestsInv, IdsInv
<1>6. IdsInv'
  <2>1. \A p \in req'.pending : p \in req.pending \/ (p.id \in Nat /\ p.id > req.seq /\ p.id <= req'.seq)
    BY <1>1, <1>2, <1>4
  <2>2. \A p, r \in req'.pending : p.id > req.seq /\ p.id = r.id => p = r
    <3>1. \A p \in req'.pending : p.id > req.seq => p = q
      BY <1>2, <1>5
    <3> QED BY <3>1, Zenon
  <2>3. \A g \in fetches' : \/ g \in fetches
                            \/ /\ g.kind = "subscribe" /\ g.id \in Nat
                               /\ g.id > req.seq /\ g.id <= req'.seq
    BY <1>1, <1>2, <1>4
  <2>4. \A g, h \in fetches' : g.kind = "subscribe" /\ h.kind = "subscribe" /\ g.id > req.seq
                               /\ g.id = h.id => g = h
    <3>1. \A g \in fetches' : g.kind = "subscribe" /\ g.id > req.seq => g = f
      BY <1>2, <1>5
    <3> QED BY <3>1, Zenon
  <2>5. req.seq <= req'.seq
    BY <1>2, <1>4
  <2> QED BY <1>2, <2>1, <2>2, <2>3, <2>4, <2>5, IdsAsk DEF NetKept, Calm, RequestsInv
<1> QED BY <1>3, <1>6, AsksSettles DEF RequestsInv

LEMMA ConfirmsKeeps ==
    ASSUME TypeOK, LinkInv, RequestsInv, NEW s \in Streams, NEW id, Confirms(s, id)
    PROVE  RequestsInv'
<1>1. SocketsInv'
  BY SocketStays DEF Confirms, NetKept, Calm, RequestsInv
<1> QED BY <1>1, IdsConfirm, ConfirmsSettles DEF RequestsInv

LEMMA AcceptsKeeps ==
    ASSUME TypeOK, LinkInv, RequestsInv, NEW f, Accepts(f)
    PROVE  RequestsInv'
<1>1. SocketsInv'
  BY SocketStays DEF Accepts, RequestsInv
<1>2. Placed'
  BY DEF Accepts, Placed, RequestsInv
<1> QED BY <1>1, <1>2, IdsAccept, AcceptsSettles DEF RequestsInv

LEMMA FailsKeeps ==
    ASSUME TypeOK, LinkInv, RequestsInv, NEW f, Fails(f), req'.seq \in Nat
    PROVE  RequestsInv'
<1>1. SocketsInv'
  BY SocketStays DEF Fails, NetKept, Calm, RequestsInv
<1>2. IdsInv'
  BY IdsShrink, FetchNumbers DEF Fails, Fewer, NetKept, Calm, RequestsInv
<1>3. Placed'
  BY DEF Fails, Placed, RequestsInv
<1> QED BY <1>1, <1>2, <1>3, FailsSettles DEF RequestsInv

LEMMA RefreshesKeeps ==
    ASSUME TypeOK, LinkInv, RequestsInv, NEW s \in Streams, Refreshes(s)
    PROVE  RequestsInv'
<1> DEFINE q == Request(req.seq + 1, "refresh", s)
<1>1. q.id = req.seq + 1 /\ req'.pending = req.pending \cup {q} /\ req'.seq = req.seq + 1 /\ req.seq \in Nat
  BY FetchNumbers DEF Refreshes, Request
<1>2. /\ SameSocket /\ fetches' \subseteq fetches /\ req'.bySub = req.bySub
      /\ WireShape(net') /\ Confirmed(net') \subseteq Confirmed(net) /\ net'.phase = net.phase
      /\ net'.wire # <<>> => net.wire # <<>> \/ net'.phase = "open"
  BY DEF Refreshes
<1> HIDE DEF q
<1>3. SocketsInv'
  BY <1>2, SocketStays DEF RequestsInv
<1>4. IdsInv'
  <2>1. \A p \in req.pending : ~(p.id > req.seq)
    <3>1. \A p \in req.pending : p.id \in Nat /\ p.id <= req.seq
      BY DEF TypeOK, Tables, Requests, RequestsInv, IdsInv
    <3> QED BY <1>1, <3>1
  <2>2. \A p \in req'.pending : p.id > req.seq => p = q
    BY <1>1, <2>1
  <2>3. \A p, r \in req'.pending : p.id > req.seq /\ p.id = r.id => p = r
    BY <2>2, Zenon
  <2>4. \A g \in fetches : g.kind = "subscribe" => ~(g.id > req.seq)
    BY FetchNumbers DEF RequestsInv, IdsInv
  <2>5. \A g, h \in fetches' : g.kind = "subscribe" /\ h.kind = "subscribe" /\ g.id > req.seq
                               /\ g.id = h.id => g = h
    BY <1>2, <2>4
  <2>6. \A p \in req'.pending : p \in req.pending \/ (p.id \in Nat /\ p.id > req.seq /\ p.id <= req'.seq)
    BY <1>1
  <2>7. req.seq <= req'.seq /\ req'.seq \in Nat
    BY <1>1
  <2> QED BY <1>2, <2>3, <2>5, <2>6, <2>7, IdsAsk DEF RequestsInv
<1>5. Placed'
  BY DEF Refreshes, Placed, RequestsInv
<1> QED BY <1>3, <1>4, <1>5, RefreshesSettles DEF RequestsInv

LEMMA DialsKeeps ==
    ASSUME TypeOK, LinkInv, RequestsInv, Dials
    PROVE  RequestsInv'
<1>1. /\ UNCHANGED <<req, net>>
      /\ \A f \in fetches' : f \in fetches \/ f.kind = "connect"
  BY DEF Dials
<1>2. Fewer /\ req'.seq \in Nat /\ WireShape(net')
  BY <1>1, FetchNumbers DEF Fewer, RequestsInv, IdsInv
<1>3. IdsInv'
  BY <1>1, <1>2, IdsShrink DEF RequestsInv
<1> QED BY <1>3, SocketDials, DialsSettles DEF RequestsInv

LEMMA ConnectsKeeps ==
    ASSUME TypeOK, LinkInv, RequestsInv, Connects
    PROVE  RequestsInv'
<1>1. UNCHANGED req /\ fetches' \subseteq fetches /\ net'.wire = <<>> /\ net'.srv = {}
  BY DEF Connects
<1>2. Fewer /\ req'.seq \in Nat /\ WireShape(net') /\ Confirmed(net') = {}
  BY <1>1, FetchNumbers, EmptyWire DEF Fewer
<1>3. IdsInv'
  BY <1>1, <1>2, IdsShrink DEF RequestsInv
<1> QED BY <1>3, SocketConnects, ConnectsSettles DEF RequestsInv

\* What a step does, when it is not the socket opening.
Outcome ==
    \/ Quiet \/ Ends \/ Dials \/ Connects
    \/ \E s \in Streams : Leaves(s) \/ Waits(s) \/ Asks(s) \/ Refreshes(s)
    \/ \E s \in Streams, id \in Nat : Confirms(s, id)
    \/ \E f \in fetches : Accepts(f) \/ Fails(f)

LEMMA OutcomeKeeps ==
    ASSUME TypeOK, TypeOK', LinkInv, RequestsInv, Outcome
    PROVE  RequestsInv'
<1>1. req'.seq \in Nat
  BY DEF TypeOK, Tables
<1> QED BY <1>1, QuietKeeps, EndsKeeps, LeavesKeeps, AsksKeeps, ConfirmsKeeps, AcceptsKeeps, FailsKeeps,
           RefreshesKeeps, DialsKeeps, ConnectsKeeps DEF Outcome

-----------------------------------------------------------------------------
(* What each action does.  First the parts that many have in common.       *)

\* No job of the sequence is a retry.
NoRetry(jobs) == \A i \in DOMAIN jobs : jobs[i].do # "retry"

LEMMA RetriesDue ==
    /\ turn = <<>> => Retries = {}
    /\ turn' = turn => Retries' = Retries
    /\ NoRetry(turn') => Retries' = {}
<1>1. turn = <<>> => Retries = {}
  BY DEF Retries, Due
<1>2. turn' = turn => Retries' = Retries
  BY DEF Retries, Due
<1>3. NoRetry(turn') => Retries' = {}
  BY DEF Retries, Due, NoRetry
<1> QED BY <1>1, <1>2, <1>3

LEMMA FewRetries ==
    /\ NoRetry(<<>>)
    /\ \A j : j.do # "retry" => NoRetry(<<j>>)
    /\ \A j, k : j.do # "retry" /\ k.do # "retry" => NoRetry(<<j, k>>)
    /\ \A do, s, ev, left : Job(do, s, ev, left).do = do /\ Step(do, s).do = do
    /\ \A s, ev : Deliver(s, ev).do = "deliver" /\ Report(s).do = "report"
    /\ \A do : Every(do).do = do
BY DEF NoRetry, Job, Step, Deliver, Report, Every

LEMMA PushRetries ==
    ASSUME TypeOK, turn # <<>>, NEW jobs \in Seq(Jobs), NoRetry(jobs), Push(jobs)
    PROVE  Retries' \subseteq Retries
<1>1. /\ turn \in Seq(Jobs) /\ Len(turn) \in Nat /\ Len(turn) # 0
      /\ Tail(turn) \in Seq(Jobs) /\ Len(Tail(turn)) = Len(turn) - 1
      /\ \A i \in 1 .. (Len(turn) - 1) : Tail(turn)[i] = turn[i + 1]
      /\ DOMAIN turn = 1 .. Len(turn) /\ DOMAIN Tail(turn) = 1 .. (Len(turn) - 1)
  BY HeadTailProperties, EmptySeq, LenProperties DEF TypeOK
<1> DEFINE rest == Tail(turn)
<1>2. /\ Len(jobs) \in Nat /\ DOMAIN jobs = 1 .. Len(jobs)
      /\ turn' = jobs \o rest /\ DOMAIN (jobs \o rest) = 1 .. (Len(jobs) + Len(rest))
      /\ \A i \in 1 .. Len(jobs) : (jobs \o rest)[i] = jobs[i]
      /\ \A i \in (Len(jobs) + 1) .. (Len(jobs) + Len(rest)) : (jobs \o rest)[i] = rest[i - Len(jobs)]
  BY <1>1, ConcatProperties, LenProperties DEF Push
<1>3. ASSUME NEW i \in DOMAIN turn', turn'[i].do = "retry"
      PROVE  \E k \in DOMAIN turn : turn[k] = turn'[i]
  <2>1. i \notin 1 .. Len(jobs)
    BY <1>2, <1>3 DEF NoRetry
  <2>2. i \in (Len(jobs) + 1) .. (Len(jobs) + Len(rest)) /\ i - Len(jobs) \in 1 .. (Len(turn) - 1)
    BY <1>1, <1>2, <2>1
  <2>3. turn'[i] = turn[(i - Len(jobs)) + 1] /\ (i - Len(jobs)) + 1 \in DOMAIN turn
    BY <1>1, <1>2, <2>2
  <2> QED BY <2>3
<1> QED BY <1>3 DEF Retries, Due

LEMMA Stays ==
    /\ UNCHANGED <<conn, fetches>> => SameSocket
    /\ WireShape(net) /\ UNCHANGED net => NetKept
    /\ TypeOK /\ UNCHANGED req => Fewer
<1>1. UNCHANGED <<conn, fetches>> => SameSocket
  BY DEF SameSocket, Opening, Dialled
<1>2. WireShape(net) /\ UNCHANGED net => NetKept
  BY DEF NetKept, Calm
<1>3. TypeOK /\ UNCHANGED req => Fewer
  BY FetchNumbers DEF Fewer
<1> QED BY <1>1, <1>2, <1>3

LEMMA AllKept ==
    ASSUME TypeOK
    PROVE  /\ UNCHANGED stream => \A s \in Streams : Kept(s)
           /\ \A t, r : (/\ r.channel = stream[t].channel /\ r.sub = stream[t].sub
                         /\ r.retryTimer = stream[t].retryTimer
                         /\ stream' = [stream EXCEPT ![t] = r]) => \A s \in Streams : Kept(s)
BY DEF Kept, TypeOK

\* Nothing happens to the requests.
LEMMA QuietStep ==
    ASSUME TypeOK, RequestsInv, UNCHANGED <<subs, req, conn, fetches>>, NetKept,
           \A s \in Streams : Kept(s), Retries' \subseteq Retries
    PROVE  Quiet
BY Stays DEF Quiet

\* What an untouched stream has, and what a stream without requests lacks.
LEMMA OwnNames ==
    ASSUME TypeOK, RequestsInv, NEW s \in Streams
    PROVE  /\ IsCurrent(s) => /\ stream[s].channel \in Channels /\ subs[stream[s].channel] = s
                              /\ \A ch \in Channels : subs[ch] = s => ch = stream[s].channel
           /\ \A p \in req.pending : p.s = s => IsCurrent(s) /\ conn.authSent
           /\ \A b \in req.bySub : b.s = s => IsCurrent(s) /\ b.sub = stream[s].sub /\ b.sub # 0 /\ conn.authSent
           /\ stream[s].sub = 0 \/ ~IsCurrent(s) => NamedBut(s) = req.bySub
           /\ IsCurrent(s) /\ stream[s].sub # 0 =>
                 /\ conn.authSent /\ Asking(s) = {} /\ stream[s].retryTimer = 0
                 /\ NamedBut(s) = {b \in req.bySub : b.sub # stream[s].sub}
<1>1. Settled(s) /\ IdsInv
  BY DEF RequestsInv
<1>2. IsCurrent(s) => /\ stream[s].channel \in Channels /\ subs[stream[s].channel] = s
                      /\ \A ch \in Channels : subs[ch] = s => ch = stream[s].channel
  BY SentinelAssumption DEF IsCurrent, Current, RequestsInv, Placed
<1>3. \A p \in req.pending : p.s = s => IsCurrent(s) /\ conn.authSent
  BY <1>1 DEF Settled
<1>4. \A b \in req.bySub : b.s = s => IsCurrent(s) /\ b.sub = stream[s].sub /\ b.sub # 0 /\ conn.authSent
  BY <1>1 DEF Settled, IdsInv
<1>5. stream[s].sub = 0 \/ ~IsCurrent(s) => NamedBut(s) = req.bySub
  BY <1>4 DEF NamedBut
<1>6. ASSUME IsCurrent(s), stream[s].sub # 0
      PROVE  /\ conn.authSent /\ Asking(s) = {} /\ stream[s].retryTimer = 0
             /\ NamedBut(s) = {b \in req.bySub : b.sub # stream[s].sub}
  <2> DEFINE b == [sub |-> stream[s].sub, s |-> s]
  <2>1. b \in req.bySub /\ b.s = s /\ b.sub = stream[s].sub
    BY <1>1, <1>6 DEF Settled, Tidy
  <2> HIDE DEF b
  <2>2. \A c \in req.bySub : c.sub = stream[s].sub => c.s = s
    BY <1>1, <2>1 DEF IdsInv
  <2>3. conn.authSent /\ Asking(s) = {} /\ stream[s].retryTimer = 0
    BY <1>1, <1>4, <1>6, <2>1 DEF Settled, Tidy
  <2>4. NamedBut(s) = {c \in req.bySub : c.sub # stream[s].sub}
    BY <1>4, <2>2 DEF NamedBut
  <2> QED BY <2>3, <2>4
<1> QED BY <1>2, <1>3, <1>4, <1>5, <1>6

\* #shutdown outdates the connect token, if one is being fetched.
LEMMA ShutDownCuts ==
    ASSUME TypeOK, LinkInv, conn' = ShutDown(conn), UNCHANGED fetches
    PROVE  conn'.ws = 0 /\ ~conn'.authSent /\ conn'.opens = conn.opens /\ Opening' \subseteq Opening
<1>1. /\ conn'.ws = 0 /\ conn'.authSent = FALSE /\ conn'.opens = conn.opens
      /\ conn'.generation = conn.generation + 1 /\ conn.generation \in Nat
  BY DEF TypeOK, Connection, ShutDown
<1>2. \A f \in Dialled : f.gen \in Nat /\ f.gen <= conn.generation
  BY FetchFields DEF Dialled, TypeOK, LinkInv, DialledBefore
<1>3. Opening' = {}
  BY <1>1, <1>2 DEF Opening, Dialled
<1> QED BY <1>1, <1>3

LEMMA NoRequestsLeft ==
    ASSUME TypeOK
    PROVE  /\ NoRequests.pending = {} /\ NoRequests.bySub = {} /\ NoRequests.seq = req.seq
           /\ \A n : LET q == [NoRequests EXCEPT !.seq = n]
                     IN  q.pending = {} /\ q.bySub = {} /\ q.seq = n
BY DEF TypeOK, Tables, NoRequests

LEMMA TeardownDoes ==
    ASSUME TypeOK, LinkInv, RequestsInv, NEW s \in Streams, IsCurrent(s), NEW r \in StreamObject,
           r.channel = stream[s].channel, r.sub = stream[s].sub, Teardown(s, r),
           UNCHANGED fetches, Retries' \subseteq Retries
    PROVE  Ends \/ Leaves(s)
<1> DEFINE drop == conn.ws # 0 /\ r.sub # 0
           q    == IF drop THEN Unsubscribing(req, r.sub) ELSE req
           gone == [r EXCEPT !.consumers = {}, !.retryTimer = 0, !.sub = 0]
<1>1. req \in Tables /\ req.seq \in Nat /\ net \in Network /\ WireShape(net) /\ r.sub \in Nat /\ SocketsInv
  BY DEF TypeOK, Tables, StreamObject, RequestsInv, IdsInv
<1>2. q.pending = req.pending /\ q.seq \in Nat /\ req.seq <= q.seq /\ q \in Tables
  <2>1. CASE drop
    <3>1. q = Unsubscribing(req, r.sub) /\ q.pending = req.pending /\ q.seq = req.seq + 1
      BY <1>1, <2>1 DEF Unsubscribing, Tables
    <3>2. Unsubscribing(req, r.sub) \in Tables
      BY <1>1, TableTypes
    <3> HIDE DEF q
    <3>3. q \in Tables
      BY <3>1, <3>2
    <3>4. req.seq + 1 \in Nat /\ req.seq <= req.seq + 1
      BY <1>1
    <3> QED BY <3>1, <3>3, <3>4
  <2>2. CASE ~drop
    BY <1>1, <2>2
  <2> QED BY <2>1, <2>2
<1>3. drop => q.bySub = {b \in req.bySub : b.sub # r.sub}
  BY <1>1 DEF Unsubscribing, Tables
<1>4. q.bySub = NamedBut(s)
  <2>1. CASE drop
    <3>1. NamedBut(s) = {b \in req.bySub : b.sub # r.sub}
      BY <2>1, OwnNames
    <3> HIDE DEF q
    <3> QED BY <1>3, <2>1, <3>1
  <2>2. CASE ~drop
    <3>1. stream[s].sub = 0 \/ ~conn.authSent
      BY <1>1, <2>2 DEF SocketsInv
    <3> QED BY <2>2, <3>1, OwnNames DEF NamedBut
  <2> QED BY <2>1, <2>2
<1>5. gone.channel = stream[s].channel /\ gone.sub = 0 /\ gone.retryTimer = 0
  BY DEF StreamObject
<1> HIDE DEF gone, q
<1>6. stream' = [stream EXCEPT ![s] = gone] /\ subs' = [subs EXCEPT ![r.channel] = NoStream]
  BY DEF Teardown, gone
<1>7. /\ stream'[s].channel = stream[s].channel /\ stream'[s].sub = 0 /\ stream'[s].retryTimer = 0
      /\ Others(s)
  BY <1>5, <1>6 DEF TypeOK, Others, Kept
<1>8. \A ch \in Channels : subs'[ch] = IF subs[ch] = s THEN NoStream ELSE subs[ch]
  BY <1>6, OwnNames DEF TypeOK
<1>9. CASE Current = {s}
  <2>1. conn' = ShutDown(conn) /\ req' = [NoRequests EXCEPT !.seq = q.seq] /\ net' = Offline
    BY <1>9 DEF Teardown, q
  <2>2. req'.pending = {} /\ req'.bySub = {} /\ req'.seq = q.seq
    BY <2>1, NoRequestsLeft
  <2>3. Current' = {}
    BY <1>8, <1>9 DEF Current
  <2>4. \A t \in Streams :
          /\ stream'[t].channel = stream[t].channel
          /\ stream'[t].sub \in {0, stream[t].sub} /\ stream'[t].retryTimer \in {0, stream[t].retryTimer}
    BY <1>7 DEF Others, Kept
  <2> QED BY <1>2, <1>8, <2>1, <2>2, <2>3, <2>4, ShutDownCuts DEF Ends
<1>10. CASE Current # {s}
  <2>1. /\ req' = WithoutThoseOf(q, s) /\ UNCHANGED conn
        /\ net' = IF drop THEN Cancel(net, q.seq, r.sub) ELSE net
    BY <1>10 DEF Teardown, q
  <2>2. /\ req'.pending = {p \in req.pending : p.s # s} /\ req'.bySub = NamedBut(s) /\ req'.seq = q.seq
    BY <1>2, <1>4, <2>1 DEF WithoutThoseOf, Tables
  <2>3. NetKept
    <3>1. CASE drop
      <4>1. net' = Cancel(net, q.seq, r.sub) /\ r.sub # 0
        BY <2>1, <3>1
      <4>2. Calm(net, net') /\ net'.phase = net.phase
        BY <1>1, <1>2, <4>1, CancelCalm, CancelType DEF Like
      <4> QED BY <4>2 DEF NetKept
    <3>2. CASE ~drop
      BY <1>1, <2>1, <3>2, Stays
    <3> QED BY <3>1, <3>2
  <2>4. SameSocket
    BY <2>1, Stays
  <2>5. Fewer
    BY <1>2, <2>2 DEF Fewer
  <2> QED BY <1>7, <1>8, <2>2, <2>3, <2>4, <2>5 DEF Leaves
<1> QED BY <1>9, <1>10

LEMMA OpenDials ==
    ASSUME TypeOK, RequestsInv, NEW c \in Connection, c.ws = conn.ws, c.authSent = conn.authSent,
           c.generation = conn.generation, c.opens = conn.opens, conn.ws = 0, Open(c),
           UNCHANGED <<req, net>>, Retries' \subseteq Retries,
           \/ UNCHANGED <<subs, stream>>
           \/ \E s \in Streams, ch \in Channels : Places(s, ch)
    PROVE  Dials
<1>1. ~conn.authSent
  BY DEF RequestsInv, SocketsInv
<1>2. CASE conn' = c /\ UNCHANGED fetches
  <2>1. Opening' = Opening
    BY <1>2 DEF Opening, Dialled
  <2> QED BY <1>1, <1>2, <2>1 DEF Dials
<1>3. CASE /\ conn' = [c EXCEPT !.connecting = TRUE, !.opens = @ + 1]
           /\ fetches' = fetches \cup {Fetch("connect", c.opens + 1, c.generation, NoStream, 0)}
  <2> DEFINE f == Fetch("connect", c.opens + 1, c.generation, NoStream, 0)
  <2>1. f.ws = conn.opens + 1 /\ f.kind = "connect"
    BY DEF Fetch
  <2>2. /\ conn'.ws = conn.ws /\ conn'.authSent = conn.authSent /\ conn'.generation = conn.generation
        /\ conn'.opens = conn.opens + 1
    BY <1>3 DEF Connection
  <2> HIDE DEF f
  <2>3. fetches' = fetches \cup {f}
    BY <1>3 DEF f
  <2>4. Opening' \subseteq Opening \cup {f}
    BY <2>2, <2>3 DEF Opening, Dialled
  <2>5. f \in fetches'
    BY <2>3
  <2> QED BY <1>1, <2>1, <2>2, <2>3, <2>4, <2>5 DEF Dials
<1> QED BY <1>2, <1>3 DEF Open

LEMMA ConnectDoes ==
    ASSUME TypeOK, LinkInv, RequestsInv, NEW c \in Consumers, NEW ch \in Channels, Connect(c, ch)
    PROVE  Outcome
<1>1. UNCHANGED <<turn, net>> /\ Retries' = Retries /\ SocketsInv /\ NetKept
  BY RetriesDue, Stays DEF Connect, RequestsInv, IdsInv
<1>2. CASE Join(c, subs[ch])
  <2>1. \A s \in Streams : Kept(s)
    BY <1>2 DEF Join, Kept, TypeOK, StreamObject
  <2> QED BY <1>1, <1>2, <2>1, QuietStep DEF Join, Outcome
<1>3. ASSUME NEW s \in Streams, subs[ch] = NoStream, Establish(c, ch, s)
      PROVE  Outcome
  <2>1. Places(s, ch)
    BY <1>3 DEF Establish, Places, Others, Kept, TypeOK, StreamObject
  <2>2. /\ stream[s].sub = 0 /\ stream[s].retryTimer = 0
        /\ stream'[s].sub = 0 /\ stream'[s].retryTimer = 0
        /\ \A p \in req.pending : p.s # s
        /\ \A b \in req.bySub : b.s # s
        /\ \A j \in Retries : j.s # s
    BY <2>1, PlacesCurrent DEF RequestsInv, Places
  <2>3. CASE conn.ws # 0 /\ conn.authSent /\ StartSubscribe(s, req) /\ UNCHANGED conn
    <3> DEFINE p == Request(req.seq + 1, "subscribe", s)
    <3>1. /\ req'.seq = req.seq + 1 /\ req'.pending = req.pending \cup {p} /\ req'.bySub = req.bySub
          /\ fetches' = fetches \cup {Fetch("subscribe", conn.ws, 0, s, req.seq + 1)}
      BY <2>3 DEF StartSubscribe, TypeOK, Tables
    <3>2. Opening' = Opening
      BY <2>3, <3>1 DEF Opening, Dialled, Fetch
    <3>3. SameSocket
      BY <2>3, <3>2 DEF SameSocket
    <3>4. req.seq < req'.seq
      BY <3>1, FetchNumbers
    <3>5. req'.bySub = NamedBut(s)
      BY <2>2, <3>1 DEF NamedBut
    <3>6. Asks(s)
      BY <1>1, <2>1, <2>2, <2>3, <3>1, <3>3, <3>4, <3>5 DEF Asks
    <3> QED BY <3>6 DEF Outcome
  <2>4. CASE conn.ws = 0 /\ Open(conn) /\ UNCHANGED req
    <3>1. Dials
      BY <1>1, <2>1, <2>4, OpenDials DEF TypeOK
    <3> QED BY <3>1 DEF Outcome
  <2>5. CASE UNCHANGED <<req, conn, fetches>> /\ (conn.ws # 0 => ~conn.authSent)
    <3>1. ~conn.authSent /\ Opening' = Opening
      BY <1>1, <2>5 DEF SocketsInv, Opening, Dialled
    <3>2. Dials
      BY <1>1, <2>1, <2>5, <3>1 DEF Dials
    <3> QED BY <3>2 DEF Outcome
  <2> QED BY <1>3, <2>3, <2>4, <2>5 DEF Establish
<1> QED BY <1>2, <1>3 DEF Connect

LEMMA AppDoes ==
    ASSUME TypeOK, LinkInv, RequestsInv, App
    PROVE  Outcome
<1>1. ASSUME NEW c \in Consumers, Remove(c)
      PROVE  Outcome
  <2>1. UNCHANGED <<subs, req, conn, fetches, turn, net>> /\ \A s \in Streams : Kept(s)
    BY <1>1 DEF Remove, env, Kept, TypeOK, StreamObject
  <2>2. Retries' = Retries /\ NetKept
    BY <2>1, RetriesDue, Stays DEF RequestsInv, IdsInv
  <2> QED BY <2>1, <2>2, QuietStep DEF Outcome
<1>2. CASE Disconnect
  <2>1. /\ req' = NoRequests /\ conn' = ShutDown(conn) /\ net' = Offline /\ UNCHANGED <<fetches, turn>>
        /\ \A ch \in Channels : subs'[ch] = NoStream
    BY <1>2 DEF Disconnect
  <2>2. req'.pending = {} /\ req'.bySub = {} /\ req.seq <= req'.seq
    BY <2>1, NoRequestsLeft, FetchNumbers
  <2>3. Current' = {} /\ Retries' = Retries
    BY <2>1, RetriesDue DEF Current
  <2>4. \A s \in Streams :
          /\ stream'[s].channel = stream[s].channel
          /\ stream'[s].sub \in {0, stream[s].sub} /\ stream'[s].retryTimer \in {0, stream[s].retryTimer}
    BY <1>2 DEF Disconnect, TypeOK, StreamObject
  <2>5. Ends
    BY <2>1, <2>2, <2>3, <2>4, ShutDownCuts DEF Ends
  <2> QED BY <2>5 DEF Outcome
<1> QED BY <1>1, <1>2, ConnectDoes DEF App

LEMMA PairOfJobs ==
    ASSUME NEW one \in Jobs, NEW two \in Jobs
    PROVE  <<one>> \o <<two>> = <<one, two>>
<1>1. <<one>> \in Seq(Jobs) /\ <<two>> \in Seq(Jobs) /\ <<one, two>> \in Seq(Jobs)
  OBVIOUS
<1>2. Len(<<one>>) = 1 /\ Len(<<two>>) = 1 /\ Len(<<one, two>>) = 2
  OBVIOUS
<1>3. /\ <<one>> \o <<two>> \in Seq(Jobs) /\ Len(<<one>> \o <<two>>) = 2
      /\ \A i \in 1..2 : (<<one>> \o <<two>>)[i] = IF i <= 1 THEN <<one>>[i] ELSE <<two>>[i - 1]
  BY <1>1, <1>2, ConcatProperties
<1>4. \A i \in 1..2 : (<<one>> \o <<two>>)[i] = <<one, two>>[i]
  BY <1>3
<1> QED BY <1>1, <1>2, <1>3, <1>4, SeqEqual

\* Handlers that only tell consumers something.
LEMMA CatchUpRetries ==
    ASSUME TypeOK, NEW s, NEW c
    PROVE  NoRetry(WhatIsKnown(s, c))
<1> DEFINE r == stream[s]
           D == {Job("deliver", s, ev, {c}) : ev \in {Link("connected"), Snapshot(r.orders), Stale(r.stale)}}
           a == DeliverIf(r.state = "connected", s, Link("connected"), c)
           b == DeliverIf(r.orders # NoView, s, Snapshot(r.orders), c)
           d == DeliverIf(r.stale # "no", s, Stale(r.stale), c)
<1>1. \A j \in D : j.do # "retry"
  BY FewRetries
<1>2. /\ Job("deliver", s, Link("connected"), {c}) \in D
      /\ Job("deliver", s, Snapshot(r.orders), {c}) \in D
      /\ Job("deliver", s, Stale(r.stale), {c}) \in D
  OBVIOUS
<1> HIDE DEF D
<1>3. a \in Seq(D) /\ b \in Seq(D) /\ d \in Seq(D)
  BY <1>2 DEF DeliverIf
<1>4. WhatIsKnown(s, c) = a \o b \o d
  BY DEF WhatIsKnown
<1> HIDE DEF a, b, d
<1>5. WhatIsKnown(s, c) \in Seq(D)
  BY <1>3, <1>4, ConcatProperties
<1>6. \A i \in DOMAIN WhatIsKnown(s, c) : WhatIsKnown(s, c)[i] \in D
  BY <1>5, LenProperties, ElementOfSeq
<1> QED BY <1>1, <1>6 DEF NoRetry

LEMMA RunMicrotaskDoes ==
    ASSUME TypeOK, LinkInv, RequestsInv, RunMicrotask
    PROVE  Outcome
<1> DEFINE task == Head(micro)
<1>1. task \in Tasks /\ UNCHANGED fetches /\ turn = <<>> /\ Retries = {}
  BY HeadTailProperties, RetriesDue DEF RunMicrotask, TypeOK
<1>2. ASSUME UNCHANGED <<core, net>>, Retries' = {}
      PROVE  Outcome
  <2>1. NetKept /\ UNCHANGED <<subs, req, conn>> /\ \A s \in Streams : Kept(s)
    BY <1>2, Stays, AllKept DEF core, RequestsInv, IdsInv
  <2> QED BY <1>1, <1>2, <2>1, QuietStep DEF Outcome
<1>3. CASE \E c \in task.c : CatchUp(task.s, c) /\ UNCHANGED <<core, net>>
  <2>1. NoRetry(turn')
    BY <1>1, <1>3, CatchUpRetries, FewRetries DEF CatchUp
  <2> QED BY <1>2, <1>3, <2>1, RetriesDue
<1>4. CASE task.do = "teardown" /\ IsCurrent(task.s) /\ Teardown(task.s, stream[task.s]) /\ UNCHANGED turn
  <2>1. task.s \in Streams /\ stream[task.s] \in StreamObject
    BY <1>1, <1>4 DEF Tasks, TypeOK
  <2>2. Ends \/ Leaves(task.s)
    BY <1>1, <1>4, <2>1, TeardownDoes, RetriesDue
  <2> QED BY <2>1, <2>2 DEF Outcome
<1>5. CASE UNCHANGED <<core, net, turn>>
  BY <1>1, <1>2, <1>5, RetriesDue
<1>6. CASE turn' = <<Every("terminateAll")>> /\ UNCHANGED <<core, net>>
  BY <1>2, <1>6, FewRetries, RetriesDue
<1> QED BY <1>3, <1>4, <1>5, <1>6 DEF RunMicrotask

-----------------------------------------------------------------------------
(* Token fetches and timers.                                               *)

\* One that settles and changes no table.
LEMMA SettledQuietly ==
    ASSUME TypeOK, RequestsInv, NEW f, fetches' = fetches \ {f}, UNCHANGED <<subs, stream, req, net>>,
           conn'.ws = conn.ws, conn'.authSent = conn.authSent, conn'.opens = conn.opens,
           conn'.generation = conn.generation, Retries' = {}
    PROVE  Outcome
<1>1. SameSocket
  BY DEF SameSocket, Opening, Dialled
<1>2. NetKept /\ Fewer /\ \A s \in Streams : Kept(s)
  BY Stays, AllKept DEF RequestsInv, IdsInv
<1>3. Quiet
  BY <1>1, <1>2 DEF Quiet
<1> QED BY <1>3 DEF Outcome

LEMMA ConnectTokenDoes ==
    ASSUME TypeOK, LinkInv, RequestsInv, NEW f \in fetches, f.kind = "connect", Wanted(f),
           fetches' = fetches \ {f}, ConnectToken(f), turn = <<>>
    PROVE  Outcome
<1>1. f \in Opening /\ UNCHANGED <<subs, stream, req>> /\ Retries = {}
  BY RetriesDue DEF Opening, Dialled, Wanted, ConnectToken
<1>2. Opening = {f}
  BY <1>1, OneConnectionByDialled DEF DialledOnce, LinkInv
<1>3. CASE /\ conn' = [conn EXCEPT !.connecting = FALSE, !.ws = f.ws, !.authSent = FALSE]
           /\ net' = [Offline EXCEPT !.phase = "connecting"] /\ UNCHANGED turn
  <2>1. conn'.ws = f.ws /\ ~conn'.authSent /\ conn'.opens = conn.opens /\ conn'.generation = conn.generation
    BY <1>3 DEF TypeOK, Connection
  <2>2. net'.wire = <<>> /\ net'.srv = {} /\ net'.phase # "open"
    BY <1>3 DEF Offline
  <2>3. Opening' = {}
    BY <1>2, <2>1 DEF Opening, Dialled
  <2>4. Retries' \subseteq Retries
    BY <1>3, RetriesDue
  <2>5. Connects
    BY <1>1, <2>1, <2>2, <2>3, <2>4 DEF Connects
  <2> QED BY <2>5 DEF Outcome
<1>4. CASE conn' = [conn EXCEPT !.connecting = FALSE] /\ UNCHANGED net /\ NoRetry(turn')
  <2>1. /\ conn'.ws = conn.ws /\ conn'.authSent = conn.authSent /\ conn'.opens = conn.opens
        /\ conn'.generation = conn.generation
    BY <1>4 DEF TypeOK, Connection
  <2> QED BY <1>1, <1>4, <2>1, RetriesDue, SettledQuietly
<1>5. NoRetry(<<Every("terminateAll")>>) /\ NoRetry(AfterTokenFailure)
  BY FewRetries DEF AfterTokenFailure
<1>6. \/ /\ conn' = [[conn EXCEPT !.connecting = FALSE] EXCEPT !.ws = f.ws, !.authSent = FALSE]
         /\ net' = [Offline EXCEPT !.phase = "connecting"] /\ UNCHANGED turn
      \/ /\ conn' = [conn EXCEPT !.connecting = FALSE] /\ UNCHANGED net
         /\ turn' \in {<<Every("terminateAll")>>, AfterTokenFailure}
  BY DEF ConnectToken
<1>7. [[conn EXCEPT !.connecting = FALSE] EXCEPT !.ws = f.ws, !.authSent = FALSE]
         = [conn EXCEPT !.connecting = FALSE, !.ws = f.ws, !.authSent = FALSE]
  BY DEF TypeOK, Connection
<1> QED BY <1>3, <1>4, <1>5, <1>6, <1>7

LEMMA SubscribeTokenDoes ==
    ASSUME TypeOK, Created, RequestsInv, NEW f \in fetches, f.kind = "subscribe", Wanted(f),
           fetches' = fetches \ {f}, SubscribeToken(f), turn = <<>>
    PROVE  Outcome
<1> DEFINE p == Request(f.id, "subscribe", f.s)
<1>1. /\ f.s \in Streams /\ f.id \in Nat /\ f.id # 0 /\ f.id \notin Confirmed(net) /\ f.ws = conn.ws
      /\ p \in req.pending /\ Retries = {} /\ WireShape(net)
  BY FetchFields, RetriesDue DEF TypeOK, Wanted, RequestsInv, IdsInv
<1>2. p.s = f.s /\ p.kind = "subscribe"
  BY DEF Request
<1> HIDE DEF p
<1>3. UNCHANGED <<subs, stream, conn>> /\ SameSocket
  <2>1. UNCHANGED <<subs, stream, conn>>
    BY DEF SubscribeToken
  <2> QED BY <2>1 DEF SameSocket, Opening, Dialled
<1>4. CASE ServerAnswers(f.id, stream[f.s].channel, stream[f.s].cursor) /\ UNCHANGED <<req, turn>>
  <2>1. stream[f.s].channel \in Channels /\ stream[f.s].cursor \in Cursors
    BY <1>1, <1>2 DEF Created, Named, TypeOK, StreamObject
  <2>2. /\ WireShape(net') /\ Confirmed(net') \subseteq Confirmed(net) \cup {f.id}
        /\ Renewed(net') \subseteq Renewed(net)
        /\ net'.wire # <<>> => net.wire # <<>> \/ net'.phase = "open"
    BY <1>1, <1>4, <2>1, AnswerConfirms
  <2>3. net'.phase = net.phase
    BY <1>1, <1>4, <2>1, ServerAnswersTypes DEF Like
  <2>4. Retries' = Retries
    BY <1>4, RetriesDue
  <2>5. Accepts(f)
    BY <1>3, <1>4, <2>2, <2>3, <2>4 DEF Accepts
  <2> QED BY <2>5 DEF Outcome
<1>5. ASSUME req' = [req EXCEPT !.pending = @ \ {p}], UNCHANGED net, NEW terminal \in BOOLEAN,
             turn' = IF terminal THEN <<Step("terminate", f.s)>>
                     ELSE <<Report(f.s), Job("retry", f.s, Link("disconnected"), {f.ws})>>
      PROVE  Outcome
  <2>1. req'.seq = req.seq /\ req'.pending = req.pending \ {p} /\ req'.bySub = req.bySub
    BY <1>5 DEF TypeOK, Tables
  <2>2. \A j \in Retries' : j.s = f.s /\ j.left = {f.ws}
    <3> DEFINE k == Job("retry", f.s, Link("disconnected"), {f.ws})
    <3>1. k.s = f.s /\ k.left = {f.ws}
      BY DEF Job
    <3>2. CASE terminal
      <4>1. Retries' = {}
        BY <1>5, <3>2, FewRetries, RetriesDue
      <4> QED BY <4>1
    <3>3. CASE ~terminal
      <4>1. turn' = <<Report(f.s), k>> /\ Report(f.s).do # "retry"
        BY <1>5, <3>3, FewRetries
      <4> HIDE DEF k
      <4>2. \A j \in Retries' : j = k
        BY <4>1 DEF Retries, Due
      <4> QED BY <3>1, <4>2
    <3> QED BY <3>2, <3>3
  <2>3. NetKept
    BY <1>1, <1>5, Stays
  <2>4. Fails(f)
    BY <1>1, <1>3, <2>1, <2>2, <2>3 DEF Fails, p
  <2> QED BY <2>4 DEF Outcome
<1>6. \/ ServerAnswers(f.id, stream[f.s].channel, stream[f.s].cursor) /\ UNCHANGED <<req, turn>>
      \/ \E terminal \in BOOLEAN :
            /\ req' = [req EXCEPT !.pending = @ \ {p}] /\ UNCHANGED net
            /\ turn' = IF terminal THEN <<Step("terminate", f.s)>>
                       ELSE <<Report(f.s), Job("retry", f.s, Link("disconnected"), {f.ws})>>
  BY DEF SubscribeToken, p
<1> QED BY <1>4, <1>5, <1>6

LEMMA RefreshTokenDoes ==
    ASSUME TypeOK, RequestsInv, NEW f \in fetches, f.kind = "refresh", Wanted(f),
           fetches' = fetches \ {f}, RefreshToken(f), turn = <<>>
    PROVE  Outcome
<1>1. /\ f.s \in Streams /\ f.id \in Nat /\ f.id # 0 /\ f.ws = conn.ws /\ stream[f.s].sub = f.id
      /\ Retries = {} /\ WireShape(net) /\ net \in Network /\ req.seq + 1 \in Nat
  BY FetchFields, FetchNumbers, RetriesDue DEF TypeOK, Wanted, RequestsInv, IdsInv
<1>2. IsCurrent(f.s) /\ conn.authSent
  BY <1>1 DEF RequestsInv, SocketsInv, Settled
<1>3. UNCHANGED <<subs, stream, conn>> /\ SameSocket
  <2>1. UNCHANGED <<subs, stream, conn>>
    BY DEF RefreshToken
  <2> QED BY <2>1 DEF SameSocket, Opening, Dialled
<1>4. CASE UNCHANGED <<req, net>> /\ turn' = <<Report(f.s)>>
  <2>1. Retries' = {}
    BY <1>4, FewRetries, RetriesDue
  <2> QED BY <1>3, <1>4, <2>1, SettledQuietly
<1>5. CASE /\ req' = [req EXCEPT !.seq = req.seq + 1,
                                 !.pending = @ \cup {Request(req.seq + 1, "refresh", f.s)}]
           /\ \/ net' = Renew(net, req.seq + 1, f.id)
              \/ net.phase = "open" /\ net' = Post(net, Reply("error", req.seq + 1, f.id, "forbidden"))
           /\ UNCHANGED turn
  <2>1. /\ req'.seq = req.seq + 1 /\ req'.bySub = req.bySub
        /\ req'.pending = req.pending \cup {Request(req.seq + 1, "refresh", f.s)}
    BY <1>5 DEF TypeOK, Tables
  <2>2. Reply("error", req.seq + 1, f.id, "forbidden") \in Frames /\ IsPlain(Reply("error", req.seq + 1, f.id, "forbidden"))
    BY <1>1, ReplyType DEF Plain, FrameKinds, StreamFrames, Notes, IsPlain, Names, Reply, Frame
  <2>3. /\ WireShape(net') /\ Confirmed(net') \subseteq Confirmed(net)
        /\ Renewed(net') \subseteq Renewed(net) \cup {req.seq + 1}
        /\ net'.wire # <<>> => net.wire # <<>> \/ net'.phase = "open"
        /\ net'.phase = net.phase
    <3>1. CASE net' = Renew(net, req.seq + 1, f.id)
      BY <1>1, <3>1, RenewCalm, CancelType DEF Like
    <3>2. CASE net.phase = "open" /\ net' = Post(net, Reply("error", req.seq + 1, f.id, "forbidden"))
      BY <1>1, <2>2, <3>2, PostCalm, PostType DEF Calm
    <3> QED BY <1>5, <3>1, <3>2
  <2>4. Retries' = Retries
    BY <1>5, RetriesDue
  <2>5. Refreshes(f.s)
    BY <1>2, <1>3, <2>1, <2>3, <2>4 DEF Refreshes
  <2> QED BY <1>1, <2>5 DEF Outcome
<1> QED BY <1>4, <1>5 DEF RefreshToken

LEMMA FetchDoes ==
    ASSUME TypeOK, Created, LinkInv, RequestsInv, FetchSettles
    PROVE  Outcome
<1>1. PICK f \in fetches :
         /\ fetches' = fetches \ {f}
         /\ \/ /\ Wanted(f)
               /\ \/ f.kind = "connect"   /\ ConnectToken(f)
                  \/ f.kind = "reauth"    /\ ReauthToken
                  \/ f.kind = "subscribe" /\ SubscribeToken(f)
                  \/ f.kind = "refresh"   /\ RefreshToken(f)
            \/ ~Wanted(f) /\ UNCHANGED <<core, turn, net, faults>>
  BY DEF FetchSettles
<1>2. turn = <<>>
  BY DEF FetchSettles
<1>3. CASE UNCHANGED <<core, turn, net>>
  BY <1>1, <1>2, <1>3, RetriesDue, SettledQuietly DEF core
<1>4. CASE ReauthToken
  <2>1. NoRetry(turn')
    BY <1>2, <1>4, FewRetries DEF ReauthToken
  <2> QED BY <1>1, <1>4, <2>1, RetriesDue, SettledQuietly DEF ReauthToken, core
<1> QED BY <1>1, <1>2, <1>3, <1>4, ConnectTokenDoes, SubscribeTokenDoes, RefreshTokenDoes

LEMMA ReconnectTimerDoes ==
    ASSUME TypeOK, RequestsInv, ReconnectTimer
    PROVE  Outcome
<1>1. PICK stray \in BOOLEAN :
         /\ IF stray THEN conn.strays > 0 ELSE conn.timer
         /\ \/ conn.ws = 0 /\ Open(Fired(stray))
            \/ conn' = Fired(stray) /\ UNCHANGED fetches
  BY DEF ReconnectTimer
<1> DEFINE c == Fired(stray)
<1>2. /\ c.ws = conn.ws /\ c.authSent = conn.authSent /\ c.generation = conn.generation /\ c.opens = conn.opens
      /\ c \in Connection
  <2>1. conn \in Connection /\ conn.strays \in Nat /\ (stray => conn.strays - 1 \in Nat)
    BY <1>1 DEF TypeOK, Connection
  <2> QED BY <2>1 DEF Fired, Connection
<1>3. UNCHANGED <<subs, stream, req, turn, net>> /\ Retries' = Retries
  BY RetriesDue DEF ReconnectTimer
<1> HIDE DEF c
<1>4. CASE conn.ws = 0 /\ Open(c)
  BY <1>2, <1>3, <1>4, OpenDials DEF Outcome
<1>5. CASE conn' = c /\ UNCHANGED fetches
  <2>1. SameSocket
    BY <1>2, <1>5 DEF SameSocket, Opening, Dialled
  <2>2. NetKept /\ Fewer /\ \A s \in Streams : Kept(s)
    BY <1>3, Stays, AllKept DEF RequestsInv, IdsInv
  <2>3. Quiet
    BY <1>3, <1>5, <2>1, <2>2 DEF Quiet
  <2> QED BY <2>3 DEF Outcome
<1> QED BY <1>1, <1>4, <1>5 DEF c

LEMMA RetryTimerDoes ==
    ASSUME TypeOK, RequestsInv, NEW s \in Streams, RetryTimer(s)
    PROVE  Outcome
<1>1. /\ turn = <<>> /\ stream[s].retryTimer # 0 /\ UNCHANGED <<subs, conn, turn, net>>
      /\ stream' = [stream EXCEPT ![s].retryTimer = 0]
  BY DEF RetryTimer, Idle, env
<1>2. /\ Others(s) /\ stream'[s].channel = stream[s].channel /\ stream'[s].sub = stream[s].sub
      /\ stream'[s].retryTimer = 0 /\ stream[s].channel # NoChannel
  BY <1>1 DEF TypeOK, StreamObject, Others, Kept, RequestsInv, Settled
<1>3. Retries = {} /\ Retries' = {} /\ NetKept
  BY <1>1, RetriesDue, Stays DEF RequestsInv, IdsInv
<1>4. CASE IsCurrent(s)
  <2>1. stream[s].sub = 0 /\ stream[s].retryTimer = conn.ws /\ conn.authSent /\ Asking(s) = {}
    BY <1>1, <1>4 DEF RequestsInv, Settled, Tidy
  <2> DEFINE p == Request(req.seq + 1, "subscribe", s)
  <2>2. StartSubscribe(s, req)
    BY <1>4, <2>1 DEF RetryTimer
  <2>3. /\ req'.seq = req.seq + 1 /\ req'.pending = req.pending \cup {p} /\ req'.bySub = req.bySub
        /\ fetches' = fetches \cup {Fetch("subscribe", conn.ws, 0, s, req.seq + 1)}
    BY <2>2 DEF StartSubscribe, TypeOK, Tables
  <2>4. SameSocket
    BY <1>1, <2>3 DEF SameSocket, Opening, Dialled, Fetch
  <2>5. req.seq < req'.seq
    BY <2>3, FetchNumbers
  <2>6. req'.bySub = NamedBut(s)
    BY <2>1, <2>3, OwnNames
  <2>7. \A q \in req.pending : ~(q.s = s /\ q.kind = "subscribe")
    BY <2>1 DEF Asking
  <2>8. Asks(s)
    BY <1>1, <1>2, <1>3, <1>4, <2>1, <2>3, <2>4, <2>5, <2>6, <2>7 DEF Asks
  <2> QED BY <2>8 DEF Outcome
<1>5. CASE ~IsCurrent(s)
  <2>1. UNCHANGED <<req, fetches>>
    BY <1>5 DEF RetryTimer
  <2>2. req'.bySub = NamedBut(s)
    BY <1>5, <2>1, OwnNames
  <2>3. Waits(s)
    BY <1>1, <1>2, <1>3, <1>5, <2>1, <2>2, Stays DEF Waits
  <2> QED BY <2>3 DEF Outcome
<1> QED BY <1>4, <1>5

\* The connection is given up.
LEMMA ClosedDoes ==
    ASSUME TypeOK, RequestsInv, Idle, NEW terminal, Closed(terminal)
    PROVE  Outcome
<1>1. PICK stable \in BOOLEAN :
         LET c == [conn EXCEPT !.ws = 0, !.authSent = FALSE, !.attempt = IF stable THEN 0 ELSE @]
         IN  conn' = c \/ conn' = Scheduled(c)
  BY DEF Closed
<1>2. /\ conn'.ws = 0 /\ ~conn'.authSent /\ conn'.opens = conn.opens /\ conn'.generation = conn.generation
  BY <1>1 DEF TypeOK, Connection, Scheduled
<1>3. /\ UNCHANGED <<subs, fetches>> /\ net' = Offline /\ req' = NoRequests
      /\ stream' = [s \in Streams |-> IF IsCurrent(s) THEN Detached(stream[s]) ELSE stream[s]]
  BY DEF Closed
<1>4. Opening' \subseteq Opening
  BY <1>2, <1>3 DEF Opening, Dialled
<1>5. req'.pending = {} /\ req'.bySub = {} /\ req.seq <= req'.seq
  BY <1>3, NoRequestsLeft, FetchNumbers
<1>6. Retries' = {}
  BY FewRetries, RetriesDue DEF Closed
<1>7. \A s \in Streams :
        /\ stream'[s].channel = stream[s].channel
        /\ stream'[s].sub \in {0, stream[s].sub} /\ stream'[s].retryTimer \in {0, stream[s].retryTimer}
        /\ IsCurrent(s) => stream'[s].sub = 0 /\ stream'[s].retryTimer = 0
  <2>1. \A s \in Streams : stream[s] \in StreamObject
    BY DEF TypeOK
  <2> QED BY <1>3, <2>1 DEF Detached, StreamObject
<1>8. \A s \in Current' : s \in Current /\ stream'[s].sub = 0 /\ stream'[s].retryTimer = 0
  BY <1>3, <1>7, SameCurrent, CurrentStreams DEF IsCurrent
<1>9. Ends
  BY <1>2, <1>3, <1>4, <1>5, <1>6, <1>7, <1>8 DEF Ends
<1> QED BY <1>9 DEF Outcome

-----------------------------------------------------------------------------
(* Frames.                                                                 *)

\* What holds when a frame is read, and what reading it does to the wire.
LEMMA Reading ==
    ASSUME TypeOK, RequestsInv, Idle, net.wire # <<>>
    PROVE  /\ turn = <<>> /\ Retries = {} /\ conn.authSent
           /\ Read \in Network /\ Read.phase = net.phase /\ Calm(net, Read) /\ WireShape(Read)
           /\ \A m : Calm(Read, m) /\ m.phase = Read.phase => Calm(net, m) /\ m.phase = net.phase
           /\ net' = Read => NetKept
<1>1. turn = <<>> /\ Retries = {} /\ conn.authSent /\ WireShape(net)
  BY RetriesDue DEF Idle, RequestsInv, SocketsInv, IdsInv
<1>2. Read \in Network /\ Read.phase = net.phase /\ Calm(net, Read) /\ WireShape(Read)
  BY <1>1, ReadType, ReadCalm DEF Like, Calm
<1>3. \A m : Calm(Read, m) /\ m.phase = Read.phase => Calm(net, m) /\ m.phase = net.phase
  BY <1>2, CalmOnwards
<1> QED BY <1>1, <1>2, <1>3 DEF NetKept

LEMMA AnsweredDoes ==
    ASSUME TypeOK, RequestsInv, Idle, net.wire # <<>>, NEW q, NEW jobs, Answered(q, jobs),
           q.pending \subseteq req.pending, q.bySub = req.bySub, q.seq = req.seq, NoRetry(jobs)
    PROVE  Outcome
<1>1. req' = q /\ turn' = jobs /\ UNCHANGED <<subs, stream, conn, fetches>> /\ net' = Read
  BY DEF Answered
<1>2. NetKept /\ SameSocket /\ (\A s \in Streams : Kept(s)) /\ Retries' = {}
  BY <1>1, Reading, Stays, AllKept, RetriesDue
<1>3. Fewer
  BY <1>1, FetchNumbers DEF Fewer
<1>4. Quiet
  BY <1>1, <1>2, <1>3 DEF Quiet
<1> QED BY <1>4 DEF Outcome

LEMMA UpdateDoes ==
    ASSUME TypeOK, RequestsInv, Idle, net.wire # <<>>, NEW s \in Streams, NEW r, NEW jobs, Update(s, r, jobs),
           r.channel = stream[s].channel, r.sub = stream[s].sub, r.retryTimer = stream[s].retryTimer,
           NoRetry(jobs)
    PROVE  Outcome
<1>1. UNCHANGED <<subs, req, conn, fetches>> /\ (\A t \in Streams : Kept(t)) /\ Retries' = {} /\ NetKept
  BY Reading, AllKept, RetriesDue DEF Update
<1> QED BY <1>1, QuietStep DEF Outcome

\* #subscribe: a stream that asks nothing asks.
LEMMA StartSubscribeDoes ==
    ASSUME TypeOK, NEW s \in Streams, IsCurrent(s), conn.authSent, NEW q \in Tables,
           q.pending \subseteq req.pending, \A p \in q.pending : ~(p.s = s /\ p.kind = "subscribe"),
           q.bySub = NamedBut(s), req.seq <= q.seq, StartSubscribe(s, q),
           UNCHANGED <<subs, conn>>, NetKept, Retries' = {},
           Others(s), stream'[s].channel = stream[s].channel, stream'[s].sub = 0, stream'[s].retryTimer = 0
    PROVE  Asks(s)
<1>1. /\ req'.seq = q.seq + 1 /\ req'.bySub = q.bySub
      /\ req'.pending = q.pending \cup {Request(q.seq + 1, "subscribe", s)}
      /\ fetches' = fetches \cup {Fetch("subscribe", conn.ws, 0, s, q.seq + 1)}
  BY DEF StartSubscribe, Tables
<1>2. SameSocket
  <2> DEFINE g == Fetch("subscribe", conn.ws, 0, s, q.seq + 1)
  <2>1. g.kind = "subscribe"
    BY DEF Fetch
  <2> HIDE DEF g
  <2>2. fetches' = fetches \cup {g} /\ conn' = conn
    BY <1>1 DEF g
  <2> QED BY <2>1, <2>2 DEF SameSocket, Opening, Dialled
<1>3. req.seq < req'.seq
  BY <1>1, FetchNumbers DEF Tables
<1> QED BY <1>1, <1>2, <1>3 DEF Asks

\* #resubscribe: a subscribed stream, or one just ended by the server.
LEMMA ResubscribeDoes ==
    ASSUME TypeOK, RequestsInv, Idle, net.wire # <<>>, NEW s \in Streams, IsCurrent(s), stream[s].sub # 0,
           NEW r \in StreamObject, r.channel = stream[s].channel, r.sub \in {0, stream[s].sub},
           r.retryTimer = stream[s].retryTimer,
           NEW q \in Tables, q.pending \subseteq req.pending, q.seq = req.seq,
           q.bySub = IF r.sub = 0 THEN NamedBut(s) ELSE req.bySub,
           Resubscribe(s, r, q, Read)
    PROVE  Outcome
<1> DEFINE drop == r.sub # 0
           q2   == IF drop THEN Unsubscribing(q, r.sub) ELSE q
           gone == [r EXCEPT !.sub = 0, !.seq = 0, !.staged = NoView,
                             !.state = IF @ = "connected" THEN "disconnected" ELSE @]
<1>1. /\ conn.authSent /\ Asking(s) = {} /\ stream[s].retryTimer = 0
      /\ NamedBut(s) = {b \in req.bySub : b.sub # stream[s].sub} /\ r.sub \in Nat
  BY OwnNames DEF StreamObject
<1>2. \A p \in req.pending : ~(p.s = s /\ p.kind = "subscribe")
  BY <1>1 DEF Asking
<1>3. q2 \in Tables /\ q2.pending = q.pending /\ q2.seq \in Nat /\ req.seq <= q2.seq
  <2>1. CASE drop
    <3>1. q2 = Unsubscribing(q, r.sub) /\ q2.pending = q.pending /\ q2.seq = req.seq + 1
      BY <2>1 DEF Unsubscribing, Tables
    <3>2. Unsubscribing(q, r.sub) \in Tables
      BY <1>1, TableTypes
    <3> HIDE DEF q2
    <3>3. q2 \in Tables
      BY <3>1, <3>2
    <3>4. req.seq + 1 \in Nat /\ req.seq <= req.seq + 1
      BY FetchNumbers
    <3> QED BY <3>1, <3>3, <3>4
  <2>2. CASE ~drop
    BY <2>2, FetchNumbers
  <2> QED BY <2>1, <2>2
<1>4. q2.bySub = NamedBut(s)
  <2>1. CASE drop
    <3>1. q2.bySub = {b \in q.bySub : b.sub # r.sub}
      BY <2>1 DEF Unsubscribing, Tables
    <3> QED BY <1>1, <2>1, <3>1
  <2>2. CASE ~drop
    BY <2>2
  <2> QED BY <2>1, <2>2
<1>5. gone.channel = stream[s].channel /\ gone.sub = 0 /\ gone.retryTimer = 0
  BY <1>1 DEF StreamObject
<1>6. /\ [gone EXCEPT !.retries = 1].channel = stream[s].channel /\ [gone EXCEPT !.retries = 1].sub = 0
      /\ [gone EXCEPT !.retries = 1].retryTimer = 0
      /\ Retrying(gone, conn.ws).channel = stream[s].channel /\ Retrying(gone, conn.ws).sub = 0
      /\ Retrying(gone, conn.ws).retryTimer = conn.ws
  BY <1>1 DEF StreamObject, Retrying
<1>7. /\ net' = IF drop THEN Cancel(Read, q2.seq, r.sub) ELSE Read
      /\ \/ stream' = [stream EXCEPT ![s] = Retrying(gone, conn.ws)] /\ req' = q2 /\ UNCHANGED fetches
         \/ stream' = [stream EXCEPT ![s] = [gone EXCEPT !.retries = 1]] /\ StartSubscribe(s, q2)
      /\ turn' = IF r.state = "connected" THEN <<Deliver(s, Link("disconnected"))>> ELSE <<>>
      /\ UNCHANGED <<subs, conn>>
  BY DEF Resubscribe
<1>8. Retries' = {}
  BY <1>7, FewRetries, RetriesDue
<1> HIDE DEF gone, q2
<1>9. NetKept
  <2>1. CASE drop
    <3>1. Calm(Read, Cancel(Read, q2.seq, r.sub)) /\ Cancel(Read, q2.seq, r.sub).phase = Read.phase
      BY <1>1, <1>3, <2>1, Reading, CancelCalm, CancelType DEF Like
    <3> QED BY <1>7, <2>1, <3>1, Reading DEF NetKept
  <2>2. CASE ~drop
    BY <1>7, <2>2, Reading
  <2> QED BY <2>1, <2>2
<1>10. CASE stream' = [stream EXCEPT ![s] = Retrying(gone, conn.ws)] /\ req' = q2 /\ UNCHANGED fetches
  <2>1. /\ Others(s) /\ stream'[s].channel = stream[s].channel /\ stream'[s].sub = 0
        /\ stream'[s].retryTimer = conn.ws
    BY <1>6, <1>10 DEF TypeOK, Others, Kept
  <2>2. SameSocket /\ Fewer
    BY <1>3, <1>7, <1>10, Stays DEF Fewer
  <2>3. stream[s].channel # NoChannel
    BY OwnNames, SentinelAssumption
  <2>4. Waits(s)
    BY <1>1, <1>2, <1>3, <1>4, <1>7, <1>8, <1>9, <1>10, <2>1, <2>2, <2>3 DEF Waits
  <2> QED BY <2>4 DEF Outcome
<1>11. CASE stream' = [stream EXCEPT ![s] = [gone EXCEPT !.retries = 1]] /\ StartSubscribe(s, q2)
  <2>1. /\ Others(s) /\ stream'[s].channel = stream[s].channel /\ stream'[s].sub = 0
        /\ stream'[s].retryTimer = 0
    BY <1>6, <1>11 DEF TypeOK, Others, Kept
  <2>2. Asks(s)
    BY <1>1, <1>2, <1>3, <1>4, <1>7, <1>8, <1>9, <1>11, <2>1, StartSubscribeDoes
  <2> QED BY <2>2 DEF Outcome
<1> QED BY <1>7, <1>10, <1>11

LEMMA EndedDoes ==
    ASSUME TypeOK, RequestsInv, Idle, net.wire # <<>>, NEW s \in Streams, IsCurrent(s), stream[s].sub # 0,
           NEW q \in Tables, q.pending \subseteq req.pending, q.seq = req.seq, q.bySub = req.bySub, Ended(s, q)
    PROVE  Outcome
<1> DEFINE r == [stream[s] EXCEPT !.sub = 0]
           q1 == Unnamed(q, stream[s].sub)
<1>1. r \in StreamObject /\ r.channel = stream[s].channel /\ r.sub = 0 /\ r.retryTimer = stream[s].retryTimer
      /\ stream[s].sub \in Nat
  BY DEF TypeOK, StreamObject
<1>2. q1 \in Tables /\ q1.pending = q.pending /\ q1.seq = q.seq /\ q1.bySub = {b \in req.bySub : b.sub # stream[s].sub}
  BY <1>1, TableTypes DEF Unnamed, Tables
<1>3. q1.bySub = NamedBut(s)
  BY <1>2, OwnNames
<1>4. Resubscribe(s, r, q1, Read)
  BY DEF Ended
<1> HIDE DEF r, q1
<1> QED BY <1>1, <1>2, <1>3, <1>4, ResubscribeDoes

LEMMA ForgetTables ==
    ASSUME TypeOK, NEW id
    PROVE  /\ Forget(id) \in Tables /\ Forget(id).pending = {p \in req.pending : p.id # id}
           /\ Forget(id).bySub = req.bySub /\ Forget(id).seq = req.seq
           /\ LET q == [req EXCEPT !.unsubscribing = @ \ {id}]
              IN  q.pending = req.pending /\ q.bySub = req.bySub /\ q.seq = req.seq
BY DEF Forget, TypeOK, Tables

LEMMA OnSubscribedDoes ==
    ASSUME TypeOK, RequestsInv, Idle, net.wire # <<>>, NEW f, f = Head(net.wire), f.kind = "subscribed",
           OnSubscribed(f)
    PROVE  Outcome
<1>1. /\ f.sub = f.id /\ f.id # 0 /\ f.id \in Confirmed(net) \ Confirmed(Read) /\ f.id \in Nat
      /\ f.sub \in Nat
  BY ReadCalm, FrameFields DEF RequestsInv, IdsInv
<1>2. ASSUME NEW s \in Streams, Request(f.id, "subscribe", s) \in req.pending,
             req' = [Forget(f.id) EXCEPT !.bySub = @ \cup {[sub |-> f.sub, s |-> s]}],
             stream' = [stream EXCEPT ![s].sub = f.sub, ![s].seq = 0, ![s].state = "connected"],
             turn' = (IF stream[s].state = "connected" THEN <<>>
                      ELSE <<Deliver(s, Link("connected"))>>) \o <<Step("unstale", s)>>,
             net' = Read, UNCHANGED <<subs, conn, fetches>>
      PROVE  Outcome
  <2>1. /\ req'.seq = req.seq /\ req'.pending = {p \in req.pending : p.id # f.id}
        /\ req'.bySub = req.bySub \cup {[sub |-> f.id, s |-> s]}
    BY <1>1, <1>2, ForgetTables DEF Tables
  <2>2. /\ Others(s) /\ stream'[s].channel = stream[s].channel
        /\ stream'[s].sub = f.id /\ stream'[s].retryTimer = stream[s].retryTimer
    BY <1>1, <1>2 DEF TypeOK, StreamObject, Others, Kept
  <2>3. NoRetry(turn')
    <3>1. CASE stream[s].state = "connected"
      <4>1. turn' = <<Step("unstale", s)>>
        BY <1>2, <3>1
      <4> QED BY <4>1, FewRetries
    <3>2. CASE stream[s].state # "connected"
      <4> DEFINE one == Deliver(s, Link("connected"))
                 two == Step("unstale", s)
      <4>1. turn' = <<one>> \o <<two>>
        BY <1>2, <3>2
      <4>2. one \in Jobs /\ two \in Jobs /\ one.do # "retry" /\ two.do # "retry"
        BY EventTypes, JobTypes, FewRetries DEF Job, Step, Deliver
      <4> HIDE DEF one, two
      <4>3. turn' = <<one, two>>
        BY <4>1, <4>2, PairOfJobs
      <4> QED BY <4>2, <4>3, FewRetries
    <3> QED BY <3>1, <3>2
  <2>4. Confirms(s, f.id)
    BY <1>1, <1>2, <2>1, <2>2, <2>3, Reading, RetriesDue, Stays DEF Confirms
  <2> QED BY <1>1, <2>4 DEF Outcome
<1>3. CASE DropUnwanted(f)
  <2>1. /\ req' = Unsubscribing(req, f.sub) /\ net' = Cancel(Read, req.seq + 1, f.sub)
        /\ UNCHANGED <<subs, stream, conn, fetches, turn>>
    BY <1>3 DEF DropUnwanted
  <2>2. /\ req'.seq = req.seq + 1 /\ req'.pending = req.pending
        /\ req'.bySub = {b \in req.bySub : b.sub # f.sub}
    BY <2>1 DEF Unsubscribing, TypeOK, Tables
  <2>3. req'.bySub = req.bySub
    BY <1>1, <2>2 DEF RequestsInv, IdsInv
  <2>4. req.seq + 1 \in Nat /\ Fewer
    BY <2>2, FetchNumbers DEF Fewer
  <2>5. NetKept
    <3>1. Calm(Read, net') /\ net'.phase = Read.phase
      BY <1>1, <2>1, <2>4, Reading, CancelCalm, CancelType DEF Like
    <3> QED BY <3>1, Reading DEF NetKept
  <2>6. Quiet
    BY <2>1, <2>3, <2>4, <2>5, Stays, AllKept, RetriesDue DEF Quiet
  <2> QED BY <2>6 DEF Outcome
<1> QED BY <1>2, <1>3 DEF OnSubscribed

LEMMA OnErrorDoes ==
    ASSUME TypeOK, RequestsInv, Idle, net.wire # <<>>, NEW f, f = Head(net.wire), f.kind = "error", OnError(f)
    PROVE  Outcome
<1> DEFINE asked == {p \in req.pending : p.id = f.id}
           Other(s) == IF f.note = "unknown" /\ stream[s].sub = f.sub THEN Ended(s, Forget(f.id))
                       ELSE Answered(Forget(f.id), <<Report(s)>>)
<1>1. IsPlain(f) /\ f.id \in Nat
  BY ReadCalm, FrameFields DEF RequestsInv, IdsInv
<1>2. /\ Forget(f.id) \in Tables /\ Forget(f.id).pending \subseteq req.pending
      /\ Forget(f.id).bySub = req.bySub /\ Forget(f.id).seq = req.seq
  BY ForgetTables
<1>3. ASSUME NEW s \in Streams, IsCurrent(s), Other(s)
      PROVE  Outcome
  <2>1. CASE f.note = "unknown" /\ stream[s].sub = f.sub
    <3>1. stream[s].sub # 0 /\ Ended(s, Forget(f.id))
      BY <1>1, <1>3, <2>1 DEF IsPlain, Names
    <3> QED BY <1>2, <1>3, <3>1, EndedDoes
  <2>2. CASE ~(f.note = "unknown" /\ stream[s].sub = f.sub)
    <3>1. Answered(Forget(f.id), <<Report(s)>>) /\ NoRetry(<<Report(s)>>)
      BY <1>3, <2>2, FewRetries
    <3> QED BY <1>2, <3>1, AnsweredDoes
  <2> QED BY <2>1, <2>2
<1>4. ASSUME NEW p \in asked, p.kind = "subscribe", SubscribeError(p.s, f)
      PROVE  Outcome
  <2> DEFINE s == p.s
  <2>1. s \in Streams /\ IsCurrent(s) /\ conn.authSent /\ p \in Asking(s)
    BY <1>4, OwnNames DEF Asking, TypeOK, Tables, Requests
  <2>2. (\A x \in Asking(s) : x = p) /\ stream[s].sub = 0 /\ stream[s].retryTimer = 0
    BY <2>1 DEF RequestsInv, Settled, Tidy
  <2>3. CASE f.note = "cursorInvalid"
    <3>1. /\ stream' = [stream EXCEPT ![s].cursor = NoCursor] /\ StartSubscribe(s, Forget(f.id))
          /\ net' = Read /\ UNCHANGED <<subs, conn, turn>>
      BY <1>4, <2>3 DEF SubscribeError
    <3>2. /\ Others(s) /\ stream'[s].channel = stream[s].channel /\ stream'[s].sub = 0
          /\ stream'[s].retryTimer = 0
      BY <2>1, <2>2, <3>1 DEF Others, Kept, TypeOK, StreamObject
    <3>3. \A x \in Forget(f.id).pending : ~(x.s = s /\ x.kind = "subscribe")
      BY <1>4, <2>2, ForgetTables DEF Asking
    <3>4. Forget(f.id).bySub = NamedBut(s) /\ req.seq <= Forget(f.id).seq
      BY <1>2, <2>1, <2>2, OwnNames, FetchNumbers
    <3>5. NetKept /\ Retries' = {}
      BY <3>1, Reading, RetriesDue
    <3>6. Asks(s)
      BY <1>2, <2>1, <3>1, <3>2, <3>3, <3>4, <3>5, StartSubscribeDoes
    <3> QED BY <2>1, <3>6 DEF Outcome
  <2>4. CASE f.note # "cursorInvalid"
    <3>1. Answered(Forget(f.id), <<Step("terminate", s)>>) /\ NoRetry(<<Step("terminate", s)>>)
      BY <1>4, <2>4, FewRetries DEF SubscribeError
    <3> QED BY <1>2, <3>1, AnsweredDoes
  <2> QED BY <2>3, <2>4
<1>5. NoRetry(<<>>) /\ NoRetry(<<Every("reportAll")>>) /\ req.pending \subseteq req.pending
  BY FewRetries
<1>6. CASE Answered([req EXCEPT !.unsubscribing = @ \ {f.id}], <<>>)
  BY <1>5, <1>6, ForgetTables, AnsweredDoes
<1>7. CASE Answered(req, <<>>) \/ Answered(req, <<Every("reportAll")>>)
  BY <1>5, <1>7, AnsweredDoes
<1>8. ASSUME NEW p \in asked, p.kind # "subscribe", Other(p.s)
      PROVE  Outcome
  <2>1. p.s \in Streams /\ IsCurrent(p.s)
    BY OwnNames DEF TypeOK, Tables, Requests
  <2> QED BY <1>3, <1>8, <2>1
<1>9. ASSUME NEW b \in req.bySub, Other(b.s)
      PROVE  Outcome
  <2>1. b.s \in Streams /\ IsCurrent(b.s)
    BY OwnNames DEF TypeOK, Tables
  <2> QED BY <1>3, <1>9, <2>1
<1>10. \/ Answered([req EXCEPT !.unsubscribing = @ \ {f.id}], <<>>)
       \/ Answered(req, <<>>)
       \/ \E p \in asked : IF p.kind = "subscribe" THEN SubscribeError(p.s, f) ELSE Other(p.s)
       \/ \E b \in req.bySub : Other(b.s)
       \/ Answered(req, <<Every("reportAll")>>)
  BY DEF OnError
<1> HIDE DEF asked, Other
<1> QED BY <1>4, <1>6, <1>7, <1>8, <1>9, <1>10

LEMMA OnStreamFrameDoes ==
    ASSUME TypeOK, RequestsInv, Idle, net.wire # <<>>, NEW b \in req.bySub, NEW f \in Frames, OnStreamFrame(b.s, f)
    PROVE  Outcome
<1> DEFINE s == b.s
           r == IF f.seq > 0 THEN [stream[s] EXCEPT !.seq = f.seq] ELSE stream[s]
<1>1. /\ s \in Streams /\ IsCurrent(s) /\ stream[s].sub # 0 /\ conn.authSent
  BY OwnNames DEF TypeOK, Tables
<1>2. stream[s] \in StreamObject /\ req \in Tables /\ f.seq \in Nat
  BY <1>1, FrameFields DEF TypeOK
<1>3. /\ r \in StreamObject /\ r.channel = stream[s].channel /\ r.sub = stream[s].sub
      /\ r.retryTimer = stream[s].retryTimer
  BY <1>2 DEF StreamObject
<1>4. /\ req.pending \subseteq req.pending /\ req.bySub = req.bySub /\ req.seq = req.seq
  OBVIOUS
<1>5. /\ NoRetry(<<>>) /\ \A ev : NoRetry(<<Deliver(s, ev)>>)
  BY FewRetries
<1>6. CASE Resubscribe(s, stream[s], req, Read)
  BY <1>1, <1>2, <1>4, <1>6, ResubscribeDoes
<1>7. ASSUME NEW x, x.channel = r.channel, x.sub = r.sub, x.retryTimer = r.retryTimer,
             NEW jobs, NoRetry(jobs), Update(s, x, jobs)
      PROVE  Outcome
  BY <1>1, <1>3, <1>7, UpdateDoes
<1> HIDE DEF s
<1>8. CASE SnapshotEnd(s, f)
  <2> DEFINE x == [stream[s] EXCEPT !.seq = f.seq, !.staged = NoView]
             view == stream[s].staged
  <2>1. CASE Resubscribe(s, [x EXCEPT !.cursor = NoCursor], req, Read)
    <3> DEFINE y == [x EXCEPT !.cursor = NoCursor]
    <3>1. y \in StreamObject
      BY <1>2 DEF StreamObject, MaybeView, Cursors
    <3>2. y.channel = stream[s].channel /\ y.sub = stream[s].sub /\ y.retryTimer = stream[s].retryTimer
      BY <1>2 DEF StreamObject
    <3>3. Resubscribe(s, y, req, Read)
      BY <2>1
    <3> HIDE DEF y
    <3> QED BY <1>1, <1>2, <1>4, <3>1, <3>2, <3>3, ResubscribeDoes
  <2>2. CASE Update(s, [x EXCEPT !.cursor = f.pos, !.retries = 0, !.orders = view], <<Deliver(s, Snapshot(view))>>)
    <3> DEFINE y == [x EXCEPT !.cursor = f.pos, !.retries = 0, !.orders = view]
    <3>1. y.channel = stream[s].channel /\ y.sub = stream[s].sub /\ y.retryTimer = stream[s].retryTimer
      BY <1>2 DEF StreamObject
    <3>2. Update(s, y, <<Deliver(s, Snapshot(view))>>)
      BY <2>2
    <3> HIDE DEF y
    <3> QED BY <1>1, <1>5, <3>1, <3>2, UpdateDoes
  <2> QED BY <1>8, <2>1, <2>2 DEF SnapshotEnd
<1>9. CASE OnUnit(s, f)
  <2> DEFINE y == [stream[s] EXCEPT !.seq = f.seq, !.cursor = f.pos, !.retries = 0,
                                    !.orders = IF @ = NoView THEN @ ELSE Apply(@, f.pos)]
  <2>1. y.channel = stream[s].channel /\ y.sub = stream[s].sub /\ y.retryTimer = stream[s].retryTimer
    BY <1>2 DEF StreamObject
  <2>2. Update(s, y, <<Deliver(s, UnitEvent(f.pos))>>)
    BY <1>9 DEF OnUnit
  <2> HIDE DEF y
  <2> QED BY <1>1, <1>5, <2>1, <2>2, UpdateDoes
<1>10. CASE Ended(s, req)
  BY <1>1, <1>2, <1>4, <1>10, EndedDoes
<1>11. CASE /\ fetches' = fetches \cup {Fetch("refresh", conn.ws, 0, s, r.sub)}
            /\ net' = Read /\ UNCHANGED <<core, turn>>
  <2> DEFINE g == Fetch("refresh", conn.ws, 0, s, r.sub)
  <2>1. Harmless(g) /\ g.kind = "refresh"
    BY <1>1, <1>3 DEF Fetch, Harmless, IsCurrent
  <2> HIDE DEF g
  <2>2. fetches' = fetches \cup {g}
    BY <1>11 DEF g
  <2>3. UNCHANGED <<subs, stream, req, conn, turn>> /\ net' = Read
    BY <1>11 DEF core
  <2>4. SameSocket
    BY <2>1, <2>2, <2>3 DEF SameSocket, Opening, Dialled
  <2>5. Quiet
    BY <2>1, <2>2, <2>3, <2>4, Reading, Stays, AllKept, RetriesDue DEF Quiet
  <2> QED BY <2>5 DEF Outcome
<1>12. /\ [r EXCEPT !.staged = EmptyView].channel = r.channel /\ [r EXCEPT !.staged = EmptyView].sub = r.sub
       /\ [r EXCEPT !.staged = EmptyView].retryTimer = r.retryTimer
       /\ \A v : LET x == [r EXCEPT !.staged = IF @ = NoView THEN @ ELSE v]
                 IN  x.channel = r.channel /\ x.sub = r.sub /\ x.retryTimer = r.retryTimer
       /\ \A v : LET x == [r EXCEPT !.cursor = v, !.retries = 0]
                 IN  x.channel = r.channel /\ x.sub = r.sub /\ x.retryTimer = r.retryTimer
       /\ LET x == [r EXCEPT !.retries = 0]
          IN  x.channel = r.channel /\ x.sub = r.sub /\ x.retryTimer = r.retryTimer
       /\ \A v : LET x == [r EXCEPT !.stale = v]
                 IN  x.channel = r.channel /\ x.sub = r.sub /\ x.retryTimer = r.retryTimer
  BY <1>3 DEF StreamObject
<1>13. \/ Resubscribe(s, stream[s], req, Read)
       \/ Update(s, [r EXCEPT !.staged = EmptyView], <<>>)
       \/ Update(s, [r EXCEPT !.staged = IF @ = NoView THEN @ ELSE ViewAt(f.pos)], <<>>)
       \/ SnapshotEnd(s, f)
       \/ OnUnit(s, f)
       \/ Update(s, [r EXCEPT !.cursor = f.pos, !.retries = 0], <<>>)
       \/ Update(s, [r EXCEPT !.retries = 0], <<>>)
       \/ Update(s, r, <<>>)
       \/ Update(s, [r EXCEPT !.stale = f.note], <<Deliver(s, Stale(f.note))>>)
       \/ /\ fetches' = fetches \cup {Fetch("refresh", conn.ws, 0, s, r.sub)}
          /\ net' = Read /\ UNCHANGED <<core, turn>>
       \/ Ended(s, req)
  BY DEF OnStreamFrame, s
<1> HIDE DEF r
<1> QED BY <1>5, <1>6, <1>7, <1>8, <1>9, <1>10, <1>11, <1>12, <1>13

LEMMA OnFrameDoes ==
    ASSUME TypeOK, RequestsInv, OnFrame \/ OnGarbledFrame
    PROVE  Outcome
<1> DEFINE f == Head(net.wire)
<1>1. Idle /\ net.wire # <<>> /\ f \in Frames
  BY ReadType DEF OnFrame, OnGarbledFrame
<1>2. /\ Forget(f.id).pending \subseteq req.pending /\ Forget(f.id).bySub = req.bySub /\ Forget(f.id).seq = req.seq
      /\ NoRetry(<<>>) /\ NoRetry(<<Every("reportAll")>>) /\ req.pending \subseteq req.pending
  BY ForgetTables, FewRetries
<1>3. CASE Answered(Forget(f.id), <<>>)
  BY <1>1, <1>2, <1>3, AnsweredDoes
<1>4. CASE Answered([req EXCEPT !.unsubscribing = @ \ {f.id}], <<>>)
  BY <1>1, <1>2, <1>4, ForgetTables, AnsweredDoes
<1>5. CASE Answered(req, <<>>) \/ Answered(req, <<Every("reportAll")>>)
  BY <1>1, <1>2, <1>5, AnsweredDoes
<1>6. CASE /\ fetches' = fetches \cup {Fetch("reauth", conn.ws, 0, NoStream, 0)}
           /\ net' = Read /\ UNCHANGED <<core, turn>>
  <2> DEFINE g == Fetch("reauth", conn.ws, 0, NoStream, 0)
  <2>1. Harmless(g) /\ g.kind = "reauth"
    BY <1>1, Reading DEF Fetch, Harmless
  <2> HIDE DEF g
  <2>2. fetches' = fetches \cup {g}
    BY <1>6 DEF g
  <2>3. UNCHANGED <<subs, stream, req, conn, turn>> /\ net' = Read
    BY <1>6 DEF core
  <2>4. SameSocket
    BY <2>1, <2>2, <2>3 DEF SameSocket, Opening, Dialled
  <2>5. Quiet
    BY <1>1, <2>1, <2>2, <2>3, <2>4, Reading, Stays, AllKept, RetriesDue DEF Quiet
  <2> QED BY <2>5 DEF Outcome
<1>7. CASE \E b \in req.bySub : OnStreamFrame(b.s, f)
  BY <1>1, <1>7, OnStreamFrameDoes
<1>8. CASE f.kind = "subscribed" /\ OnSubscribed(f)
  BY <1>1, <1>8, OnSubscribedDoes
<1>9. CASE f.kind = "error" /\ OnError(f)
  BY <1>1, <1>9, OnErrorDoes
<1> QED BY <1>3, <1>4, <1>5, <1>6, <1>7, <1>8, <1>9 DEF OnFrame, OnGarbledFrame

-----------------------------------------------------------------------------
(* The rest of a turn, and the world outside.                              *)

LEMMA CallsDo ==
    ASSUME TypeOK, RequestsInv, CallConsumer \/ CallsDone \/ NextStream
    PROVE  Outcome
<1> DEFINE job == Head(turn)
<1>1. turn # <<>> /\ job \in Jobs /\ UNCHANGED <<subs, req, conn, fetches, net>>
  BY TurnType DEF CallConsumer, CallsDone, NextStream, core, env
<1>2. \A left, called : /\ [job EXCEPT !.left = left, !.called = called].do = job.do
                        /\ [job EXCEPT !.left = left].do = job.do
  BY <1>1 DEF Jobs, CallJobs, StreamJobs, ClientJobs
<1>3. ASSUME NEW jobs \in Seq(Jobs), NoRetry(jobs), Push(jobs), \A s \in Streams : Kept(s)
      PROVE  Outcome
  <2>1. Retries' \subseteq Retries
    BY <1>1, <1>3, PushRetries
  <2>2. NetKept
    BY <1>1, Stays DEF RequestsInv, IdsInv
  <2> QED BY <1>1, <1>3, <2>1, <2>2, QuietStep DEF Outcome
<1>4. UNCHANGED stream => \A s \in Streams : Kept(s)
  BY AllKept
<1>5. NoRetry(<<>>) /\ <<>> \in Seq(Jobs)
  BY FewRetries
<1>6. CASE CallConsumer
  <2>1. PICK c \in Callable(job) : Push(<<[job EXCEPT !.left = @ \ {c}, !.called = TRUE]>>)
    BY <1>6 DEF CallConsumer
  <2>2. job.do \in {"deliver", "report", "call"}
    BY <2>1 DEF Callable
  <2> DEFINE next == [job EXCEPT !.left = @ \ {c}, !.called = TRUE]
  <2>3. next \in Jobs /\ next.do # "retry"
    BY <1>1, <2>2, JobFields DEF Jobs, CallJobs
  <2>4. UNCHANGED stream /\ Push(<<next>>)
    BY <1>6, <2>1 DEF CallConsumer, core
  <2> HIDE DEF next
  <2>5. <<next>> \in Seq(Jobs) /\ NoRetry(<<next>>)
    BY <2>3, ShortSeqs, FewRetries
  <2> QED BY <1>3, <1>4, <2>4, <2>5
<1>7. CASE CallsDone
  BY <1>3, <1>4, <1>5, <1>7 DEF CallsDone, Pop, core
<1>8. CASE NextStream
  <2>1. ASSUME NEW s \in job.left, job.do \in {"terminateAll", "reportAll"}, UNCHANGED stream,
               Push(<<IF job.do = "reportAll" THEN Report(s) ELSE Step("terminate", s),
                      [job EXCEPT !.left = @ \ {s}]>>)
        PROVE  Outcome
    <3> DEFINE one  == IF job.do = "reportAll" THEN Report(s) ELSE Step("terminate", s)
               rest == [job EXCEPT !.left = @ \ {s}]
    <3>1. s \in Streams /\ job \in ClientJobs
      BY <1>1, <2>1, JobFields
    <3>2. one \in Jobs /\ one.do # "retry"
      BY <3>1, ClientJobTypes, JobTypes, EventTypes, FewRetries
    <3>3. rest \in Jobs /\ rest.do # "retry"
      BY <2>1, <3>1 DEF Jobs, ClientJobs
    <3>4. Push(<<one, rest>>)
      BY <2>1
    <3> HIDE DEF one, rest
    <3>5. <<one, rest>> \in Seq(Jobs) /\ NoRetry(<<one, rest>>)
      BY <3>2, <3>3, ShortSeqs, FewRetries
    <3> QED BY <1>3, <1>4, <2>1, <3>4, <3>5
  <2>2. ASSUME NEW s \in Current, job.do = "closed", stream' = [stream EXCEPT ![s].state = "disconnected"],
               Push(<<Deliver(s, Link("disconnected")), job>>)
        PROVE  Outcome
    <3> DEFINE one == Deliver(s, Link("disconnected"))
    <3>1. s \in Streams
      BY CurrentStreams
    <3>2. one \in Jobs /\ one.do # "retry"
      BY <3>1, JobTypes, EventTypes, FewRetries
    <3>3. \A t \in Streams : Kept(t)
      BY <2>2 DEF TypeOK, StreamObject, Kept
    <3> HIDE DEF one
    <3>4. <<one, job>> \in Seq(Jobs) /\ NoRetry(<<one, job>>)
      BY <1>1, <2>2, <3>2, ShortSeqs, FewRetries
    <3>5. Push(<<one, job>>)
      BY <2>2 DEF one
    <3> QED BY <1>3, <3>3, <3>4, <3>5
  <2>3. CASE Pop /\ UNCHANGED stream
    BY <1>3, <1>4, <1>5, <2>3 DEF Pop
  <2>4. \/ \E s \in job.left :
              /\ job.do \in {"terminateAll", "reportAll"} /\ UNCHANGED stream
              /\ Push(<<IF job.do = "reportAll" THEN Report(s) ELSE Step("terminate", s),
                        [job EXCEPT !.left = @ \ {s}]>>)
        \/ \E s \in Current : /\ job.do = "closed" /\ stream' = [stream EXCEPT ![s].state = "disconnected"]
                              /\ Push(<<Deliver(s, Link("disconnected")), job>>)
        \/ Pop /\ UNCHANGED stream
    BY <1>8 DEF NextStream
  <2> HIDE DEF job
  <2> QED BY <2>1, <2>2, <2>3, <2>4
<1> QED BY <1>6, <1>7, <1>8

LEMMA ResumeDoes ==
    ASSUME TypeOK, LinkInv, RequestsInv, Resume
    PROVE  Outcome
<1> DEFINE job == Head(turn)
           s   == job.s
<1>1. turn # <<>> /\ job \in Jobs /\ UNCHANGED fetches
  BY TurnType DEF Resume
<1>2. ASSUME NEW jobs \in Seq(Jobs), NoRetry(jobs), Push(jobs)
      PROVE  Retries' \subseteq Retries
  BY <1>1, <1>2, PushRetries
<1>3. NoRetry(<<>>) /\ <<>> \in Seq(Jobs)
  BY FewRetries
<1>4. Pop => Retries' \subseteq Retries
  BY <1>2, <1>3 DEF Pop
<1>5. ASSUME UNCHANGED <<subs, req, conn, net>>, \A t \in Streams : Kept(t), Retries' \subseteq Retries
      PROVE  Outcome
  BY <1>1, <1>5, Stays, QuietStep DEF Outcome, RequestsInv, IdsInv
<1>6. CASE job.do = "terminate" /\ UNCHANGED <<core, net>>
           /\ (Push(<<Report(s), Step("finish", s)>>) \/ Pop)
  <2> DEFINE one == Report(s)
             two == Step("finish", s)
  <2>1. s \in Streams
    BY <1>1, <1>6, JobFields
  <2>2. one \in Jobs /\ two \in Jobs /\ one.do # "retry" /\ two.do # "retry"
    BY <2>1, ClientJobTypes, JobTypes, EventTypes, FewRetries
  <2>3. Push(<<one, two>>) \/ Pop
    BY <1>6
  <2> HIDE DEF one, two
  <2>4. <<one, two>> \in Seq(Jobs) /\ NoRetry(<<one, two>>)
    BY <2>2, ShortSeqs, FewRetries
  <2>5. Retries' \subseteq Retries
    BY <1>2, <1>4, <2>3, <2>4
  <2> QED BY <1>5, <1>6, <2>5, AllKept DEF core
<1>7. CASE job.do = "finish" /\ FinishTerminate(s)
  <2> DEFINE r == [stream[s] EXCEPT !.state = "disconnected"]
             call == Job("call", s, Link("disconnected"), OwedClose(s))
  <2>1. s \in Streams /\ OwedClose(s) \in SUBSET Consumers
    BY <1>1, <1>7, JobFields DEF OwedClose, TypeOK, StreamObject
  <2>2. call \in Jobs /\ call.do # "retry"
    BY <2>1, JobTypes, EventTypes, FewRetries
  <2>3. Push(<<call>>)
    BY <1>7 DEF FinishTerminate
  <2> HIDE DEF call
  <2>4. <<call>> \in Seq(Jobs) /\ NoRetry(<<call>>)
    BY <2>2, ShortSeqs, FewRetries
  <2>5. Retries' \subseteq Retries
    BY <1>2, <2>3, <2>4
  <2>6. /\ r \in StreamObject /\ r.channel = stream[s].channel /\ r.sub = stream[s].sub
        /\ r.retryTimer = stream[s].retryTimer
    BY <2>1 DEF TypeOK, StreamObject, LinkStates
  <2>7. CASE IsCurrent(s) /\ Teardown(s, r)
    BY <1>1, <2>1, <2>5, <2>6, <2>7, TeardownDoes DEF Outcome
  <2>8. CASE stream' = [stream EXCEPT ![s] = r] /\ UNCHANGED <<subs, req, conn, net>>
    BY <1>5, <2>5, <2>6, <2>8, AllKept
  <2> QED BY <1>7, <2>7, <2>8 DEF FinishTerminate
<1>8. CASE /\ job.do = "unstale" /\ (Pop \/ Push(<<Deliver(s, Stale("no"))>>))
           /\ stream' = [stream EXCEPT ![s].stale = "no"] /\ UNCHANGED <<subs, req, conn, net>>
  <2> DEFINE one == Deliver(s, Stale("no"))
  <2>1. s \in Streams /\ "no" \in Scopes
    BY <1>1, <1>8, JobFields DEF Scopes
  <2>2. one \in Jobs /\ one.do # "retry"
    BY <2>1, JobTypes, EventTypes, FewRetries
  <2>3. Push(<<one>>) \/ Pop
    BY <1>8
  <2> HIDE DEF one
  <2>4. <<one>> \in Seq(Jobs) /\ NoRetry(<<one>>)
    BY <2>2, ShortSeqs, FewRetries
  <2>5. Retries' \subseteq Retries
    BY <1>2, <1>4, <2>3, <2>4
  <2>6. \A t \in Streams : Kept(t)
    BY <1>8 DEF TypeOK, StreamObject, Kept
  <2> QED BY <1>5, <1>8, <2>5, <2>6
<1>9. ASSUME job.do = "retry", NEW sock \in job.left, stream' = [stream EXCEPT ![s] = Retrying(@, sock)], Pop,
             UNCHANGED <<subs, req, conn, net>>
      PROVE  Outcome
  <2>1. s \in Streams /\ stream[s] \in StreamObject
    BY <1>1, <1>9, JobFields DEF TypeOK
  <2>2. job \in Retries
    <3>1. 1 \in DOMAIN turn /\ job = turn[1]
      <4>1. turn \in Seq(Jobs)
        BY DEF TypeOK
      <4> QED BY <1>1, <4>1, HeadTailProperties, EmptySeq, LenProperties
    <3> QED BY <1>9, <3>1 DEF Retries, Due
  <2>3. /\ stream[s].channel # NoChannel
        /\ IsCurrent(s) => conn.authSent /\ Asking(s) = {} /\ stream[s].sub = 0 /\ job.left = {conn.ws}
    BY <2>1, <2>2 DEF RequestsInv, Settled
  <2>4. /\ Others(s) /\ stream'[s].channel = stream[s].channel /\ stream'[s].sub = stream[s].sub
        /\ stream'[s].retryTimer = sock
    BY <1>9, <2>1 DEF TypeOK, StreamObject, Retrying, Others, Kept
  <2>5. req'.bySub = NamedBut(s)
    BY <1>9, <2>1, <2>3, OwnNames
  <2>6. SameSocket /\ NetKept /\ Fewer /\ Retries' \subseteq Retries
    BY <1>1, <1>4, <1>9, Stays DEF RequestsInv, IdsInv
  <2>7. IsCurrent(s) => \A p \in req'.pending : ~(p.s = s /\ p.kind = "subscribe")
    BY <1>9, <2>3 DEF Asking
  <2>8. Waits(s)
    BY <1>1, <1>9, <2>3, <2>4, <2>5, <2>6, <2>7 DEF Waits
  <2> QED BY <2>1, <2>8 DEF Outcome
<1>10. CASE conn' = Scheduled(conn) /\ Pop /\ UNCHANGED <<subs, stream, req, net>>
  <2>1. /\ conn'.ws = conn.ws /\ conn'.authSent = conn.authSent /\ conn'.opens = conn.opens
        /\ conn'.generation = conn.generation
    BY <1>10 DEF Scheduled, TypeOK, Connection
  <2>2. SameSocket
    BY <1>1, <2>1 DEF SameSocket, Opening, Dialled
  <2>3. NetKept /\ Fewer /\ (\A t \in Streams : Kept(t)) /\ Retries' \subseteq Retries
    BY <1>4, <1>10, Stays, AllKept DEF RequestsInv, IdsInv
  <2>4. Quiet
    BY <1>1, <1>10, <2>2, <2>3 DEF Quiet
  <2> QED BY <2>4 DEF Outcome
<1>11. \/ /\ job.do = "terminate" /\ UNCHANGED <<core, net>>
          /\ Push(<<Report(s), Step("finish", s)>>) \/ Pop
       \/ job.do = "finish" /\ FinishTerminate(s)
       \/ /\ job.do = "unstale" /\ (Pop \/ Push(<<Deliver(s, Stale("no"))>>))
          /\ stream' = [stream EXCEPT ![s].stale = "no"] /\ UNCHANGED <<subs, req, conn, net>>
       \/ /\ job.do = "retry" /\ \E sock \in job.left : stream' = [stream EXCEPT ![s] = Retrying(@, sock)]
          /\ Pop /\ UNCHANGED <<subs, req, conn, net>>
       \/ conn' = Scheduled(conn) /\ Pop /\ UNCHANGED <<subs, stream, req, net>>
  BY DEF Resume
<1> HIDE DEF job, s
<1> QED BY <1>6, <1>7, <1>8, <1>9, <1>10, <1>11

LEMMA ServerDoes ==
    ASSUME TypeOK, RequestsInv, Server \/ UNCHANGED vars
    PROVE  Outcome
<1>1. UNCHANGED <<subs, stream, req, conn, fetches, turn>>
  BY DEF Server, AccountMoves, ServerSends, FrameLost, ConnectionEnds, core, vars
<1>2. NetKept
  <2>1. CASE UNCHANGED net
    BY <2>1, Stays DEF RequestsInv, IdsInv
  <2>2. CASE Server
    <3>1. Calm(net, net') /\ net \in Network
      BY <2>2, ServerCalm DEF RequestsInv, IdsInv, TypeOK
    <3>2. CASE ConnectionEnds
      <4>1. net'.phase \in {"lost", "refused"}
        BY <3>1, <3>2 DEF ConnectionEnds, Network
      <4> QED BY <3>1, <4>1 DEF NetKept
    <3>3. CASE FrameLost
      <4>1. net'.phase = net.phase
        BY <3>1, <3>3 DEF FrameLost, Network
      <4> QED BY <3>1, <4>1 DEF NetKept
    <3>4. CASE ServerSends
      <4>1. \A r \in net.srv : log[r.ch] \in Positions
        BY <3>1 DEF TypeOK, Network, ServerSubs
      <4>2. \A kind \in {"tokenExpiring", "error"} : Reply(kind, 0, 0, "other") \in Frames
        BY ReplyType DEF Plain, FrameKinds, StreamFrames, Notes
      <4>3. net'.phase = net.phase
        BY <3>1, <3>4, <4>1, <4>2, PostType, SendTypes DEF ServerSends, Like
      <4> QED BY <3>1, <4>3 DEF NetKept
    <3> QED BY <2>1, <2>2, <3>2, <3>3, <3>4 DEF Server, AccountMoves
  <2> QED BY <2>1, <2>2 DEF vars, env
<1>3. Quiet
  BY <1>1, <1>2, QuietStep, RetriesDue, AllKept
<1> QED BY <1>3 DEF Outcome

LEMMA StepDoes ==
    ASSUME TypeOK, Created, LinkInv, RequestsInv, [Next]_vars
    PROVE  Outcome \/ SocketOpens
<1>1. CASE App
  BY <1>1, AppDoes
<1>2. CASE SocketCloses \/ HeartbeatTimer
  BY <1>2, ClosedDoes DEF SocketCloses, HeartbeatTimer
<1>3. CASE Client
  BY <1>2, <1>3, RunMicrotaskDoes, FetchDoes, ReconnectTimerDoes, RetryTimerDoes, OnFrameDoes,
     CallsDo, ResumeDoes DEF Client
<1>4. CASE Server \/ UNCHANGED vars
  BY <1>4, ServerDoes
<1> QED BY <1>1, <1>3, <1>4 DEF Next

LEMMA StepKeepsRequests ==
    ASSUME TypeOK, Created, LinkInv, RequestsInv, [Next]_vars
    PROVE  RequestsInv'
<1>1. TypeOK'
  BY StepKeepsTypes
<1> QED BY <1>1, StepDoes, OutcomeKeeps, SocketOpensKeeps

LEMMA InitRequests == Init => RequestsInv
<1> SUFFICES ASSUME Init PROVE RequestsInv
  OBVIOUS
<1>1. /\ Current = {} /\ Retries = {} /\ Opening = {}
      /\ WireShape(net) /\ Confirmed(net) = {}
  BY EmptyWire DEF Init, Current, Retries, Due, Opening, Dialled, Offline
<1>2. SocketsInv /\ IdsInv
  BY <1>1 DEF Init, Offline, SocketsInv, IdsInv
<1>3. Placed
  BY DEF Init, Placed
<1>4. \A s \in Streams : Settled(s)
  BY <1>1 DEF Init, Settled, IsCurrent, NewStream
<1> QED BY <1>2, <1>3, <1>4 DEF RequestsInv

LEMMA SettledTables == TypeOK /\ RequestsInv => TablesAgree
<1> SUFFICES ASSUME TypeOK, RequestsInv PROVE TablesAgree
  OBVIOUS
<1> DEFINE named == {[sub |-> stream[s].sub, s |-> s] : s \in {t \in Current : stream[t].sub # 0}}
<1>1. ASSUME NEW b \in req.bySub PROVE b \in named
  <2>1. b.s \in Current /\ b.sub = stream[b.s].sub /\ b.sub # 0 /\ b = [sub |-> b.sub, s |-> b.s]
    BY OwnNames DEF TypeOK, Tables, IsCurrent
  <2> QED BY <2>1
<1>2. ASSUME NEW s \in Current, stream[s].sub # 0 PROVE [sub |-> stream[s].sub, s |-> s] \in req.bySub
  BY <1>2, CurrentStreams DEF RequestsInv, Settled, Tidy, IsCurrent
<1>3. \A p \in req.pending : IsCurrent(p.s)
  BY OwnNames DEF TypeOK, Tables, Requests
<1>4. req.bySub = named
  BY <1>1, <1>2
<1> QED BY <1>3, <1>4 DEF TablesAgree

-----------------------------------------------------------------------------

\* The request tables never go stale: whatever the order in which tokens, frames,
\* timers and callers arrive, #bySub holds exactly the subscriptions the current
\* streams believe they have, and #pending names no stream that was torn down.
THEOREM TablesAgreeHolds == Spec => []TablesAgree
<1>1. Init => TypeOK /\ Created /\ LinkInv /\ RequestsInv
  <2>1. Init => Created
    BY DEF Init, Created, Named, Current
  <2>2. Init => LinkInv
    BY DEF Init, LinkInv, DialledBefore, Dialled, OneConnection, Offline
  <2> QED BY <2>1, <2>2, InitTypes, InitRequests
<1>2. TypeOK /\ Created /\ LinkInv /\ RequestsInv /\ [Next]_vars => (TypeOK /\ Created /\ LinkInv /\ RequestsInv)'
  BY StepKeepsTypes, StepKeepsCreated, StepKeepsLink, StepKeepsRequests
<1>3. TypeOK /\ RequestsInv => TablesAgree
  BY SettledTables
<1> QED BY <1>1, <1>2, <1>3, PTL DEF Spec
==============================================================================
