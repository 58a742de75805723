---------------------------- MODULE PrivateOrders ----------------------------
(***************************************************************************)
(* PrivateOrderStream (src/realtime/private-orders.ts): account order      *)
(* streams over one private WebSocket.  JavaScript runs to completion, so  *)
(* an action is what one event (API call, microtask, settled token fetch,  *)
(* timer, socket event) does before it calls a consumer.  The calls an     *)
(* event still owes its consumers are the jobs of `turn`; a consumer may   *)
(* call back into the stream from inside each of them.                     *)
(***************************************************************************)
EXTENDS PrivateServer

CONSTANTS Channels,        \* account channels
          Streams,         \* bound: StreamSubscription objects a behaviour may create
          Consumers,       \* bound: Consumer objects a behaviour may create
          NoChannel, NoStream,
          Faults,          \* what may go wrong outside the client
          MaxFaults,       \* bound: how many of them happen
          MaxWire          \* bound: unread frames when the server sends more

ASSUME SentinelAssumption == NoStream \notin Streams /\ NoChannel \notin Channels
ASSUME FiniteAssumption   == IsFiniteSet(Streams)
ASSUME BoundAssumption    == MaxFaults \in Nat /\ MaxWire \in Nat

VARIABLES subs,            \* #subs: the current stream of each channel
          stream,          \* the StreamSubscription objects
          req,             \* #pending, #bySub, #unsubscribing, #requestSeq
          conn,            \* #ws, #connecting, #generation, #authSent, backoff and timer
          fetches,         \* token fetches in flight
          micro,           \* queued microtasks
          turn,            \* what the running event has yet to do
          consumer,        \* the Consumer objects and what each was told
          net, log, faults \* external: the connection, account positions, faults so far

core == <<subs, stream, req, conn>>
env  == <<net, log, faults>>
vars == <<core, fetches, micro, turn, consumer, env>>

\* A unit upserts its orders, then removes.
Apply(view, n) == [o \in OrderIds |-> IF o \in Units[n].removed THEN {}
                                      ELSE IF o \in Units[n].put THEN {n} ELSE view[o]]

NewStream == [channel |-> NoChannel, consumers |-> {}, sub |-> 0, seq |-> 0,
              cursor |-> NoCursor, staged |-> NoView, orders |-> NoView,
              state |-> "pending", stale |-> "no", retries |-> 0, retryTimer |-> 0]

Current      == {subs[ch] : ch \in Channels} \ {NoStream}     \* #subs.values()
IsCurrent(s) == s \in Current

Idle       == turn = <<>> /\ micro = <<>>
AppMayCall == turn # <<>> => Head(turn).called

Fault(kind) == kind \in Faults /\ faults < MaxFaults /\ faults' = faults + 1

\* Jobs of a turn: `left` are the consumers (streams, socket) still to be visited.
Job(do, s, ev, left) == [do |-> do, s |-> s, ev |-> ev, left |-> left, called |-> FALSE]
Event(type, view, pos, stale) == [type |-> type, view |-> view, pos |-> pos, stale |-> stale]
Link(type)     == Event(type, NoView, NoCursor, "no")    \* "connected", "disconnected"
Snapshot(view) == Event("snapshot", view, NoCursor, "no")
UnitEvent(n)   == Event("unit", NoView, n, "no")
Stale(scope)   == Event("stale", NoView, NoCursor, scope)

Step(do, s)    == Job(do, s, Link("disconnected"), {})
Deliver(s, ev) == Job("deliver", s, ev, Consumers)       \* #deliver iterates the live set
Report(s)      == Job("report", s, Link("disconnected"), stream[s].consumers)
Every(do)      == Job(do, NoStream, Link("disconnected"), Current)

Task(do, s, cs) == [do |-> do, s |-> s, c |-> cs]
Request(id, kind, s) == [id |-> id, kind |-> kind, s |-> s]
Fetch(kind, sock, gen, s, id) == [kind |-> kind, ws |-> sock, gen |-> gen, s |-> s, id |-> id]

-----------------------------------------------------------------------------
(* Steps several handlers share.                                           *)

\* #open: the connect token is for socket number opens + 1.
Open(c) ==
    \/ /\ conn' = [c EXCEPT !.connecting = TRUE, !.opens = @ + 1]
       /\ fetches' = fetches \cup {Fetch("connect", c.opens + 1, c.generation, NoStream, 0)}
       /\ UNCHANGED <<micro, faults>>
    \/ /\ Fault("noWebSocket")
       /\ conn' = c
       /\ micro' = Append(micro, Task("terminateAll", NoStream, {}))
       /\ UNCHANGED fetches

\* #scheduleReconnect does not clear a timer it overwrites: that one strays.
Scheduled(c) == [c EXCEPT !.timer = TRUE, !.attempt = @ + 1,
                          !.strays = IF c.timer THEN @ + 1 ELSE @]

\* Mutant: the retry is counted but no timer is set.
RetryingNever(r, sock) == [r EXCEPT !.retries = @ + 1]
\* #retrySubscribe
Retrying(r, sock) == [r EXCEPT !.retryTimer = sock, !.retries = @ + 1]

\* Mutant: retry timers outlive the socket they were set for.
DetachedKeepsTimers(r) == [r EXCEPT !.sub = 0, !.seq = 0, !.staged = NoView]
\* #detach, for a current stream.
Detached(r) == [r EXCEPT !.retryTimer = 0, !.sub = 0, !.seq = 0, !.staged = NoView]

\* Mutant: a connect token fetched before the shutdown still counts.
ShutDownInPlace(c) == [c EXCEPT !.ws = 0, !.authSent = FALSE, !.connecting = FALSE,
                                !.timer = FALSE, !.attempt = 0]
\* #shutdown
ShutDown(c) == [c EXCEPT !.ws = 0, !.authSent = FALSE, !.generation = @ + 1,
                         !.connecting = FALSE, !.timer = FALSE, !.attempt = 0]

NoRequests == [req EXCEPT !.pending = {}, !.bySub = {}, !.unsubscribing = {}]

\* #subscribe up to the token fetch, the request tables being q.
StartSubscribe(s, q) ==
    /\ req' = [q EXCEPT !.seq = @ + 1, !.pending = @ \cup {Request(q.seq + 1, "subscribe", s)}]
    /\ fetches' = fetches \cup {Fetch("subscribe", conn.ws, 0, s, q.seq + 1)}

\* #unsubscribe: the tables afterwards; the request takes their last ID.
Unsubscribing(q, sub) == [q EXCEPT !.seq = @ + 1, !.unsubscribing = @ \cup {q.seq + 1},
                                   !.bySub = {b \in @ : b.sub # sub}]

\* #resubscribe, with s's fields r, the request tables q and the connection n.
Resubscribe(s, r, q, n) ==
    LET drop == r.sub # 0
        q2   == IF drop THEN Unsubscribing(q, r.sub) ELSE q
        gone == [r EXCEPT !.sub = 0, !.seq = 0, !.staged = NoView,
                          !.state = IF @ = "connected" THEN "disconnected" ELSE @]
    IN  /\ net' = IF drop THEN Cancel(n, q2.seq, r.sub) ELSE n
        /\ IF r.retries > 0
           THEN /\ stream' = [stream EXCEPT ![s] = Retrying(gone, conn.ws)]
                /\ req' = q2 /\ UNCHANGED fetches
           ELSE /\ stream' = [stream EXCEPT ![s] = [gone EXCEPT !.retries = 1]]
                /\ StartSubscribe(s, q2)
        /\ turn' = IF r.state = "connected" THEN <<Deliver(s, Link("disconnected"))>> ELSE <<>>
        /\ UNCHANGED <<subs, conn>>

\* Mutant: a torn down stream's requests stay pending.
WithAll(q, s)     == q
WithoutThoseOf(q, s) == [q EXCEPT !.pending = {p \in @ : p.s # s}]

\* #teardown of a current stream whose fields are r.
Teardown(s, r) ==
    LET drop == conn.ws # 0 /\ r.sub # 0
        q    == IF drop THEN Unsubscribing(req, r.sub) ELSE req
    IN  /\ subs' = [subs EXCEPT ![r.channel] = NoStream]
        /\ stream' = [stream EXCEPT ![s] = [r EXCEPT !.consumers = {}, !.retryTimer = 0, !.sub = 0]]
        /\ IF Current = {s}
           THEN conn' = ShutDown(conn) /\ req' = [NoRequests EXCEPT !.seq = q.seq] /\ net' = Offline
           ELSE /\ req' = WithoutThoseOf(q, s)
                /\ net' = IF drop THEN Cancel(net, q.seq, r.sub) ELSE net
                /\ UNCHANGED conn

-----------------------------------------------------------------------------
(* The application, from anywhere and from inside its own callbacks.       *)

Join(c, s) ==
    /\ stream' = [stream EXCEPT ![s].consumers = @ \cup {c}]
    /\ consumer' = [consumer EXCEPT ![c].s = s]
    /\ micro' = Append(micro, Task("catchUp", s, {c}))
    /\ UNCHANGED <<subs, req, conn, fetches, faults>>

\* The first consumer of a channel creates its stream.
Establish(c, ch, s) ==
    /\ stream[s].channel = NoChannel
    /\ subs' = [subs EXCEPT ![ch] = s]
    /\ stream' = [stream EXCEPT ![s] = [@ EXCEPT !.channel = ch, !.consumers = {c}]]
    /\ consumer' = [consumer EXCEPT ![c].s = s, ![c].caughtUp = TRUE]
    /\ \/ conn.ws # 0 /\ conn.authSent /\ StartSubscribe(s, req) /\ UNCHANGED <<conn, micro, faults>>
       \/ conn.ws = 0 /\ ~conn.connecting /\ ~conn.timer /\ Open(conn) /\ UNCHANGED req
       \/ /\ IF conn.ws = 0 THEN conn.connecting \/ conn.timer ELSE ~conn.authSent
          /\ UNCHANGED <<req, conn, fetches, micro, faults>>

Connect(c, ch) ==
    /\ AppMayCall
    /\ consumer[c].s = NoStream
    /\ \/ subs[ch] # NoStream /\ Join(c, subs[ch])
       \/ subs[ch] = NoStream /\ \E s \in Streams : Establish(c, ch, s)
    /\ UNCHANGED <<turn, net, log>>

\* The disposer connect() returned.
Remove(c) ==
    /\ AppMayCall
    /\ \E s \in Streams :
          /\ c \in stream[s].consumers
          /\ stream' = [stream EXCEPT ![s].consumers = @ \ {c}]
          /\ micro' = IF stream[s].consumers = {c} THEN Append(micro, Task("teardown", s, {}))
                      ELSE micro
    /\ UNCHANGED <<subs, req, conn, fetches, turn, consumer, env>>

Disconnect ==
    /\ AppMayCall
    /\ Current # {} \/ conn.timer
    /\ subs' = [ch \in Channels |-> NoStream]
    /\ stream' = [s \in Streams |->
                    IF IsCurrent(s) THEN [stream[s] EXCEPT !.retryTimer = 0, !.consumers = {}]
                    ELSE stream[s]]
    /\ req' = NoRequests /\ conn' = ShutDown(conn) /\ net' = Offline
    /\ UNCHANGED <<fetches, micro, turn, consumer, log, faults>>

-----------------------------------------------------------------------------
(* Microtasks.                                                             *)

DeliverIf(known, s, ev, c) == IF known THEN <<Job("deliver", s, ev, {c})>> ELSE <<>>

\* Mutant: a late consumer is not told that its view is stale.
ViewAndLink(s, c) ==
    LET r == stream[s]
    IN  DeliverIf(r.state = "connected", s, Link("connected"), c)
        \o DeliverIf(r.orders # NoView, s, Snapshot(r.orders), c)
\* What the others already know.
WhatIsKnown(s, c) ==
    LET r == stream[s]
    IN  DeliverIf(r.state = "connected", s, Link("connected"), c)
        \o DeliverIf(r.orders # NoView, s, Snapshot(r.orders), c)
        \o DeliverIf(r.stale # "no", s, Stale(r.stale), c)

CatchUp(s, c) ==
    IF IsCurrent(s) /\ c \in stream[s].consumers
    THEN /\ consumer' = [consumer EXCEPT ![c].caughtUp = TRUE]
         /\ turn' = WhatIsKnown(s, c)
    ELSE UNCHANGED <<consumer, turn>>

RunMicrotask ==
    /\ turn = <<>> /\ micro # <<>>
    /\ micro' = Tail(micro)
    /\ LET task == Head(micro)
       IN  \/ /\ task.do = "catchUp"
              /\ \E c \in task.c : CatchUp(task.s, c)
              /\ UNCHANGED <<core, net>>
           \/ /\ task.do = "teardown"
              /\ IF IsCurrent(task.s) /\ stream[task.s].consumers = {}
                 THEN Teardown(task.s, stream[task.s]) ELSE UNCHANGED <<core, net>>
              /\ UNCHANGED <<consumer, turn>>
           \/ /\ task.do = "terminateAll"
              /\ turn' = <<Every("terminateAll")>>
              /\ UNCHANGED <<core, net, consumer>>
    /\ UNCHANGED <<fetches, log, faults>>

-----------------------------------------------------------------------------
(* A token fetch settles: with a token, or with a failure that is terminal *)
(* (a PolyesterError that is not retryable) or not.                        *)

TokenFails(terminal) == Fault(IF terminal THEN "tokenRefused" ELSE "tokenFails")

\* Mutant: the failure is reported and nothing is scheduled.
ReportOnly == <<Every("reportAll")>>
AfterTokenFailure == <<Every("reportAll"), Step("schedule", NoStream)>>

ConnectToken(f) ==
    LET ended == [conn EXCEPT !.connecting = FALSE]
    IN  /\ \/ /\ conn' = [ended EXCEPT !.ws = f.ws, !.authSent = FALSE]
              /\ net' = [Offline EXCEPT !.phase = "connecting"]
              /\ UNCHANGED <<turn, faults>>
           \/ /\ Fault("noSocket")                          \* the constructor throws
              /\ conn' = ended /\ turn' = <<Every("terminateAll")>> /\ UNCHANGED net
           \/ \E terminal \in BOOLEAN :
                 /\ TokenFails(terminal)
                 /\ conn' = ended
                 /\ turn' = IF terminal THEN <<Every("terminateAll")>> ELSE AfterTokenFailure
                 /\ UNCHANGED net
        /\ UNCHANGED <<subs, stream, req>>

\* #reauthenticate; a sent Auth changes nothing here.
ReauthToken ==
    /\ \/ UNCHANGED <<turn, faults>>
       \/ \E terminal \in BOOLEAN :
             /\ TokenFails(terminal)
             /\ turn' = <<Every(IF terminal THEN "terminateAll" ELSE "reportAll")>>
    /\ UNCHANGED <<core, net>>

\* The server accepts or refuses a Subscribe, or wants another cursor.
ServerAnswers(id, ch, cursor) ==
    \/ /\ net' = IF net.phase = "open" THEN Accept(net, id, ch, cursor) ELSE net
       /\ UNCHANGED faults
    \/ /\ net.phase = "open" /\ cursor # NoCursor
       /\ \/ /\ Fault("cursorExpired")
             /\ LET n == Accept(net, id, ch, NoCursor)
                    r == CHOOSE x \in n.srv : x.sub = id
                IN  net' = Emit(n, r, r, <<"resync">>, NoCursor, "none")
          \/ Fault("cursorInvalid") /\ net' = Post(net, Reply("error", id, 0, "cursorInvalid"))
    \/ /\ net.phase = "open"
       /\ Fault("refuseSubscribe") /\ net' = Post(net, Reply("error", id, 0, "forbidden"))

SubscribeToken(f) ==
    /\ \/ ServerAnswers(f.id, stream[f.s].channel, stream[f.s].cursor) /\ UNCHANGED <<req, turn>>
       \/ \E terminal \in BOOLEAN :
             /\ TokenFails(terminal)
             /\ req' = [req EXCEPT !.pending = @ \ {Request(f.id, "subscribe", f.s)}]
             /\ turn' = IF terminal THEN <<Step("terminate", f.s)>>
                        ELSE <<Report(f.s), Job("retry", f.s, Link("disconnected"), {f.ws})>>
             /\ UNCHANGED net
    /\ UNCHANGED <<subs, stream, conn>>

RefreshToken(f) ==
    /\ \/ LET id == req.seq + 1
          IN  /\ req' = [req EXCEPT !.seq = id, !.pending = @ \cup {Request(id, "refresh", f.s)}]
              /\ \/ net' = Renew(net, id, f.id) /\ UNCHANGED faults
                 \/ /\ net.phase = "open" /\ Fault("refuseRefresh")
                    /\ net' = Post(net, Reply("error", id, f.id, "forbidden"))
              /\ UNCHANGED turn
       \/ \E terminal \in BOOLEAN :
             /\ TokenFails(terminal)
             /\ turn' = <<Report(f.s)>>
             /\ UNCHANGED <<req, net>>
    /\ UNCHANGED <<subs, stream, conn>>

\* What settles too late is dropped.
Wanted(f) == CASE f.kind = "connect"   -> f.gen = conn.generation
               [] f.kind = "reauth"    -> conn.ws = f.ws
               [] f.kind = "subscribe" -> conn.ws = f.ws /\ Request(f.id, "subscribe", f.s) \in req.pending
               [] f.kind = "refresh"   -> conn.ws = f.ws /\ stream[f.s].sub = f.id

FetchSettles ==
    /\ turn = <<>>
    /\ \E f \in fetches :
          /\ fetches' = fetches \ {f}
          /\ \/ /\ Wanted(f)
                /\ \/ f.kind = "connect"   /\ ConnectToken(f)
                   \/ f.kind = "reauth"    /\ ReauthToken
                   \/ f.kind = "subscribe" /\ SubscribeToken(f)
                   \/ f.kind = "refresh"   /\ RefreshToken(f)
             \/ ~Wanted(f) /\ UNCHANGED <<core, turn, net, faults>>
    /\ UNCHANGED <<micro, consumer, log>>

-----------------------------------------------------------------------------
(* Timers, and the socket opening and closing.                             *)

\* Mutant: a timer that fires also takes a stray one off the count.
FiredTwice(stray) == [conn EXCEPT !.timer = FALSE, !.strays = @ - 1]
\* Whichever fires forgets the handle, so a timer it belonged to strays instead.
Fired(stray) == [conn EXCEPT !.timer = FALSE,
                             !.strays = IF stray /\ ~conn.timer THEN @ - 1 ELSE @]

ReconnectTimer ==
    /\ Idle
    /\ \E stray \in BOOLEAN :
          /\ IF stray THEN conn.strays > 0 ELSE conn.timer
          /\ IF Current # {} /\ conn.ws = 0 /\ ~conn.connecting THEN Open(Fired(stray))
             ELSE conn' = Fired(stray) /\ UNCHANGED <<fetches, micro, faults>>
    /\ UNCHANGED <<subs, stream, req, turn, consumer, net, log>>

RetryTimer(s) ==
    /\ Idle
    /\ stream[s].retryTimer # 0
    /\ stream' = [stream EXCEPT ![s].retryTimer = 0]
    /\ IF conn.ws = stream[s].retryTimer /\ IsCurrent(s) /\ stream[s].sub = 0
       THEN StartSubscribe(s, req) ELSE UNCHANGED <<req, fetches>>
    /\ UNCHANGED <<subs, conn, micro, turn, consumer, env>>

\* #authenticate
SocketOpens ==
    /\ Idle
    /\ net.phase = "connecting"
    /\ net' = [net EXCEPT !.phase = "open"]
    /\ conn' = [conn EXCEPT !.authSent = TRUE]
    /\ \E rank \in [Current -> 1 .. Cardinality(Current)] :
          /\ \A s, t \in Current : rank[s] = rank[t] => s = t
          /\ req' = [req EXCEPT !.seq = @ + Cardinality(Current), !.pending = @ \cup
                        {Request(req.seq + rank[s], "subscribe", s) : s \in Current}]
          /\ fetches' = fetches \cup
                        {Fetch("subscribe", conn.ws, 0, s, req.seq + rank[s]) : s \in Current}
    /\ UNCHANGED <<subs, stream, micro, turn, consumer, log, faults>>

\* #onClosed; `stable`: the connection had been up for 10 seconds.
Closed(terminal) ==
    /\ \E stable \in BOOLEAN :
          LET c == [conn EXCEPT !.ws = 0, !.authSent = FALSE, !.attempt = IF stable THEN 0 ELSE @]
          IN  /\ stable => conn.authSent
              /\ conn' = IF Current = {} \/ terminal THEN c ELSE Scheduled(c)
    /\ turn' = IF Current = {} THEN <<>>
               ELSE <<IF terminal THEN Every("terminateAll") ELSE Step("closed", NoStream)>>
    /\ stream' = [s \in Streams |-> IF IsCurrent(s) THEN Detached(stream[s]) ELSE stream[s]]
    /\ req' = NoRequests /\ net' = Offline
    /\ UNCHANGED <<subs, fetches, micro, consumer, log>>

SocketCloses ==
    /\ Idle
    /\ net.phase \in {"lost", "refused"}
    /\ Closed(net.phase = "refused")
    /\ UNCHANGED faults

\* Three silent seconds: the connection may be lost, or only slow.
HeartbeatTimer ==
    /\ Idle
    /\ conn.authSent
    /\ IF net.phase = "open" THEN Fault("slow") ELSE UNCHANGED faults
    /\ Closed(FALSE)

-----------------------------------------------------------------------------
(* #onFrame: the client reads one frame.                                   *)

Read == [net EXCEPT !.wire = Tail(@)]

\* A frame that changes the request tables to q and owes consumers `jobs`.
Answered(q, jobs) ==
    req' = q /\ turn' = jobs /\ net' = Read /\ UNCHANGED <<subs, stream, conn, fetches>>

\* A frame that changes one stream's fields to r and owes its consumers `jobs`.
Update(s, r, jobs) ==
    /\ stream' = [stream EXCEPT ![s] = r]
    /\ turn' = jobs
    /\ net' = Read
    /\ UNCHANGED <<subs, req, conn, fetches>>

Forget(id) == [req EXCEPT !.pending = {p \in @ : p.id # id}]
Unnamed(q, sub) == [q EXCEPT !.bySub = {b \in @ : b.sub # sub}]

\* Mutant: a subscription confirmed after its consumer left is kept.
KeepUnwanted(f) == Answered(req, <<>>)
\* Its consumer left before the server confirmed it.
DropUnwanted(f) == /\ req' = Unsubscribing(req, f.sub)
                   /\ net' = Cancel(Read, req.seq + 1, f.sub)
                   /\ UNCHANGED <<subs, stream, conn, fetches, turn>>

OnSubscribed(f) ==
    \/ \E s \in Streams :
          /\ Request(f.id, "subscribe", s) \in req.pending
          /\ req' = [Forget(f.id) EXCEPT !.bySub = @ \cup {[sub |-> f.sub, s |-> s]}]
          /\ stream' = [stream EXCEPT ![s].sub = f.sub, ![s].seq = 0, ![s].state = "connected"]
          /\ turn' = (IF stream[s].state = "connected" THEN <<>>
                      ELSE <<Deliver(s, Link("connected"))>>) \o <<Step("unstale", s)>>
          /\ net' = Read
          /\ UNCHANGED <<subs, conn, fetches>>
    \/ /\ \A s \in Streams : Request(f.id, "subscribe", s) \notin req.pending
       /\ DropUnwanted(f)

\* The server ended or forgot s's subscription.
Ended(s, q) == Resubscribe(s, [stream[s] EXCEPT !.sub = 0], Unnamed(q, stream[s].sub), Read)

\* #onRequestError: a subscribe request failed.
SubscribeError(s, f) ==
    IF f.note = "cursorInvalid"
    THEN /\ stream' = [stream EXCEPT ![s].cursor = NoCursor]
         /\ StartSubscribe(s, Forget(f.id))
         /\ net' = Read
         /\ UNCHANGED <<subs, conn, turn>>
    ELSE Answered(Forget(f.id), <<Step("terminate", s)>>)

OnError(f) ==
    LET asked == {p \in req.pending : p.id = f.id}
        Other(s) == \* not the answer to a Subscribe
            IF f.note = "unknown" /\ stream[s].sub = f.sub THEN Ended(s, Forget(f.id))
            ELSE Answered(Forget(f.id), <<Report(s)>>)
    IN  \/ /\ f.id \in req.unsubscribing
           /\ Answered([req EXCEPT !.unsubscribing = @ \ {f.id}], <<>>)
        \/ /\ f.id \notin req.unsubscribing
           /\ f.id # 0 /\ asked = {}
           /\ Answered(req, <<>>)
        \/ \E p \in asked : IF p.kind = "subscribe" THEN SubscribeError(p.s, f) ELSE Other(p.s)
        \/ f.id = 0 /\ \E b \in req.bySub : b.sub = f.sub /\ Other(b.s)
        \/ /\ f.id = 0 /\ \A b \in req.bySub : b.sub # f.sub
           /\ Answered(req, <<Every("reportAll")>>)

SnapshotEnd(s, f) ==
    LET r == [stream[s] EXCEPT !.seq = f.seq, !.staged = NoView]
        view == stream[s].staged
    IN  IF view = NoView \/ Count(view) # Count(ViewAt(f.pos))
        THEN Resubscribe(s, [r EXCEPT !.cursor = NoCursor], req, Read)
        ELSE Update(s, [r EXCEPT !.cursor = f.pos, !.retries = 0, !.orders = view],
                    <<Deliver(s, Snapshot(view))>>)

OnUnit(s, f) ==
    Update(s, [stream[s] EXCEPT !.seq = f.seq, !.cursor = f.pos, !.retries = 0,
                                !.orders = IF @ = NoView THEN @ ELSE Apply(@, f.pos)],
           <<Deliver(s, UnitEvent(f.pos))>>)

\* Mutant: frames are applied whatever is missing before them.
AnySequence(s, f) == TRUE
InSequence(s, f) == f.seq > 0 => f.seq = stream[s].seq + 1

OnStreamFrame(s, f) ==
    LET r == IF f.seq > 0 THEN [stream[s] EXCEPT !.seq = f.seq] ELSE stream[s]
    IN  \/ ~InSequence(s, f) /\ Resubscribe(s, stream[s], req, Read)
        \/ /\ InSequence(s, f)
           /\ \/ f.kind = "begin"   /\ Update(s, [r EXCEPT !.staged = EmptyView], <<>>)
              \/ f.kind = "page"    /\ Update(s, [r EXCEPT !.staged =
                                                    IF @ = NoView THEN @ ELSE ViewAt(f.pos)], <<>>)
              \/ f.kind = "end"     /\ SnapshotEnd(s, f)
              \/ f.kind = "unit"    /\ OnUnit(s, f)
              \/ f.kind = "covered" /\ Update(s, [r EXCEPT !.cursor = f.pos, !.retries = 0], <<>>)
              \/ f.kind = "ready"   /\ Update(s, [r EXCEPT !.retries = 0], <<>>)
              \/ f.kind = "resync"  /\ Update(s, r, <<>>)     \* not a case of the switch
              \/ /\ f.kind \in {"unavailable", "available"}
                 /\ Update(s, [r EXCEPT !.stale = f.note], <<Deliver(s, Stale(f.note))>>)
              \/ /\ f.kind = "expiring"
                 /\ fetches' = fetches \cup {Fetch("refresh", conn.ws, 0, s, r.sub)}
                 /\ net' = Read
                 /\ UNCHANGED <<core, turn>>
              \/ f.kind = "unsubscribed" /\ Ended(s, req)

StreamFrames == {"begin", "page", "end", "unit", "covered", "ready", "resync",
                 "unavailable", "available", "expiring", "unsubscribed"}

OnFrame ==
    /\ Idle
    /\ net.wire # <<>>
    /\ LET f == Head(net.wire)
       IN  \/ f.kind = "subscribed" /\ OnSubscribed(f)
           \/ f.kind = "refreshed"  /\ Answered(Forget(f.id), <<>>)
           \/ f.kind = "error"      /\ OnError(f)
           \/ /\ f.kind = "tokenExpiring"
              /\ fetches' = fetches \cup {Fetch("reauth", conn.ws, 0, NoStream, 0)}
              /\ net' = Read
              /\ UNCHANGED <<core, turn>>
           \/ /\ f.kind = "unsubscribed" /\ f.id \in req.unsubscribing
              /\ Answered([req EXCEPT !.unsubscribing = @ \ {f.id}], <<>>)
           \/ /\ f.kind \in StreamFrames
              /\ f.kind = "unsubscribed" => f.id \notin req.unsubscribing
              /\ \/ \E b \in req.bySub : b.sub = f.sub /\ OnStreamFrame(b.s, f)
                 \/ (\A b \in req.bySub : b.sub # f.sub) /\ Answered(req, <<>>)
    /\ UNCHANGED <<micro, consumer, log, faults>>

\* A stream frame the client cannot decode.
OnGarbledFrame ==
    /\ Idle
    /\ net.wire # <<>> /\ Head(net.wire).seq > 0
    /\ Fault("garble")
    /\ Answered(req, <<Every("reportAll")>>)
    /\ UNCHANGED <<micro, consumer, log>>

-----------------------------------------------------------------------------
(* The rest of a turn: consumers are called one at a time.                 *)

\* How a consumer that keeps what it is told takes an event.
Told(h, ev) ==
    CASE ev.type = "snapshot" -> [h EXCEPT !.view = ev.view]
      [] ev.type = "unit"  -> [h EXCEPT !.view = Apply(IF @ = NoView THEN EmptyView ELSE @, ev.pos)]
      [] ev.type = "stale" -> [h EXCEPT !.stale = ev.stale]
      [] OTHER -> [h EXCEPT !.state = ev.type]

\* Who is called: the attached; #deliver also waits for the caught-up ones;
\* #terminate calls the consumers it collected whatever happens meanwhile.
Attached(job) == job.left \cap stream[job.s].consumers
CallableAtOnce(job) ==       \* Mutant: late joiners are called before they are caught up.
    CASE job.do \in {"deliver", "report"} -> Attached(job)
      [] job.do = "call" -> job.left
      [] OTHER -> {}
Callable(job) ==
    CASE job.do = "deliver" -> {c \in Attached(job) : consumer[c].caughtUp}
      [] job.do = "report"  -> Attached(job)
      [] job.do = "call"    -> job.left
      [] OTHER -> {}

Push(jobs) == turn' = jobs \o Tail(turn)
Pop == Push(<<>>)

CallConsumer ==
    /\ turn # <<>>
    /\ LET job == Head(turn)
       IN  \E c \in Callable(job) :
              /\ Push(<<[job EXCEPT !.left = @ \ {c}, !.called = TRUE]>>)
              /\ consumer' = IF job.do = "report" THEN consumer
                             ELSE [consumer EXCEPT ![c] = Told(@, job.ev)]
    /\ UNCHANGED <<core, fetches, micro, env>>

CallsDone ==
    /\ turn # <<>>
    /\ Head(turn).do \in {"deliver", "report", "call"} /\ Callable(Head(turn)) = {}
    /\ Pop
    /\ UNCHANGED <<core, fetches, micro, consumer, env>>

\* One stream after the other: #terminateAll, #reportAll, the end of #onClosed.
NextStream ==
    /\ turn # <<>>
    /\ LET job == Head(turn)
           rest(s) == [job EXCEPT !.left = @ \ {s}]
           open == {s \in Current : stream[s].state = "connected"}
       IN  \/ /\ job.do \in {"terminateAll", "reportAll"}
              /\ \/ \E s \in job.left :
                       Push(<<IF job.do = "reportAll" THEN Report(s) ELSE Step("terminate", s), rest(s)>>)
                 \/ job.left = {} /\ Pop
              /\ UNCHANGED stream
           \/ /\ job.do = "closed"
              /\ \/ \E s \in open :
                       /\ stream' = [stream EXCEPT ![s].state = "disconnected"]
                       /\ Push(<<Deliver(s, Link("disconnected")), job>>)
                 \/ open = {} /\ Pop /\ UNCHANGED stream
    /\ UNCHANGED <<subs, req, conn, fetches, micro, consumer, env>>

\* Mutant: computed after the stream is marked disconnected.
OwedAfterwards(s) == {c \in stream[s].consumers : ~consumer[c].caughtUp}
OwedClose(s) == {c \in stream[s].consumers :
                   ~consumer[c].caughtUp \/ stream[s].state # "disconnected"}

\* #terminate, once the error is reported.
FinishTerminate(s) ==
    LET r == [stream[s] EXCEPT !.state = "disconnected"]
    IN  /\ Push(<<Job("call", s, Link("disconnected"), OwedClose(s))>>)
        /\ IF IsCurrent(s) THEN Teardown(s, r)
           ELSE stream' = [stream EXCEPT ![s] = r] /\ UNCHANGED <<subs, req, conn, net>>

\* The rest of the handlers that go on after calling consumers.
Resume ==
    /\ turn # <<>>
    /\ LET job == Head(turn)
       IN  \/ /\ job.do = "terminate"
              /\ IF IsCurrent(job.s) THEN Push(<<Report(job.s), Step("finish", job.s)>>) ELSE Pop
              /\ UNCHANGED <<core, net>>
           \/ job.do = "finish" /\ FinishTerminate(job.s)
           \/ /\ job.do = "unstale"
              /\ IF stream[job.s].stale = "no" THEN Pop ELSE Push(<<Deliver(job.s, Stale("no"))>>)
              /\ stream' = [stream EXCEPT ![job.s].stale = "no"]
              /\ UNCHANGED <<subs, req, conn, net>>
           \/ /\ job.do = "retry"
              /\ \E sock \in job.left : stream' = [stream EXCEPT ![job.s] = Retrying(@, sock)]
              /\ Pop
              /\ UNCHANGED <<subs, req, conn, net>>
           \/ /\ job.do = "schedule"
              /\ conn' = Scheduled(conn)
              /\ Pop
              /\ UNCHANGED <<subs, stream, req, net>>
    /\ UNCHANGED <<fetches, micro, consumer, log, faults>>

-----------------------------------------------------------------------------
(* External: accounts, server and network move between turns; a running    *)
(* turn sends, but reads nothing of what they do meanwhile.                *)

AccountMoves(ch) ==
    /\ turn = <<>>
    /\ log[ch] < Len(Units)
    /\ log' = [log EXCEPT ![ch] = @ + 1]
    /\ UNCHANGED <<core, fetches, micro, turn, consumer, net, faults>>

ServerFaults == {"shortSnapshot", "unavailable", "expiring", "ended", "forgotten", "streamError"}

ServerSends ==
    /\ turn = <<>>
    /\ net.phase = "open" /\ Len(net.wire) < MaxWire
    /\ \/ \E r \in net.srv : \/ net' \in Serving(net, r, log[r.ch]) /\ UNCHANGED faults
                             \/ net' \in Recovering(net, r) /\ UNCHANGED faults
                             \/ \E kind \in ServerFaults :
                                   Fault(kind) /\ net' \in Failing(net, r, kind, log[r.ch])
       \/ \E kind \in {"tokenExpiring", "error"} :
             Fault(kind) /\ net' = Post(net, Reply(kind, 0, 0, "other"))
    /\ UNCHANGED <<core, fetches, micro, turn, consumer, log>>

\* The server skips a frame of a subscription's sequence; a later one shows it.
FrameLost ==
    /\ turn = <<>>
    /\ Fault("gap")
    /\ \E i, j \in DOMAIN net.wire :
          /\ i < j /\ net.wire[i].sub = net.wire[j].sub
          /\ net.wire[i].seq > 0 /\ net.wire[j].seq > 0
          /\ net' = [net EXCEPT !.wire = SubSeq(@, 1, i - 1) \o SubSeq(@, i + 1, Len(@))]
    /\ UNCHANGED <<core, fetches, micro, turn, consumer, log>>

\* The connection breaks, or the server closes it with 4400 or 4403.
ConnectionEnds ==
    /\ turn = <<>>
    /\ net.phase \in {"connecting", "open"}
    /\ \E phase \in {"lost", "refused"} :
          Fault(phase) /\ net' = [net EXCEPT !.phase = phase, !.srv = {}]
    /\ UNCHANGED <<core, fetches, micro, turn, consumer, log>>

-----------------------------------------------------------------------------

Init ==
    /\ subs = [ch \in Channels |-> NoStream]
    /\ stream = [s \in Streams |-> NewStream]
    /\ req = [pending |-> {}, bySub |-> {}, unsubscribing |-> {}, seq |-> 0]
    /\ conn = [ws |-> 0, connecting |-> FALSE, generation |-> 0, authSent |-> FALSE,
               attempt |-> 0, timer |-> FALSE, strays |-> 0, opens |-> 0]
    /\ fetches = {} /\ micro = <<>> /\ turn = <<>>
    /\ consumer = [c \in Consumers |-> [s |-> NoStream, caughtUp |-> FALSE, state |-> "pending",
                                        view |-> NoView, stale |-> "no"]]
    /\ net = Offline
    /\ log = [ch \in Channels |-> 0]
    /\ faults = 0

App == \/ \E c \in Consumers, ch \in Channels : Connect(c, ch)
       \/ \E c \in Consumers : Remove(c)
       \/ Disconnect

Client == \/ RunMicrotask \/ FetchSettles \/ ReconnectTimer
          \/ \E s \in Streams : RetryTimer(s)
          \/ SocketOpens \/ SocketCloses \/ HeartbeatTimer
          \/ OnFrame \/ OnGarbledFrame
          \/ CallConsumer \/ CallsDone \/ NextStream \/ Resume

Server == \/ \E ch \in Channels : AccountMoves(ch)
          \/ ServerSends \/ FrameLost \/ ConnectionEnds

Next == App \/ Client \/ Server

Spec == Init /\ [][Next]_vars

\* JavaScript runs queued work, a token fetch settles (requests time out), timers
\* fire, the browser reports a socket that fails to open, and the server goes on
\* serving.  A socket that dies later need not be reported: the heartbeat is for that.
Fairness == /\ WF_vars(RunMicrotask) /\ WF_vars(FetchSettles)
            /\ WF_vars(CallConsumer) /\ WF_vars(CallsDone) /\ WF_vars(NextStream) /\ WF_vars(Resume)
            /\ WF_vars(ReconnectTimer) /\ \A s \in Streams : WF_vars(RetryTimer(s))
            /\ WF_vars(SocketOpens) /\ WF_vars(SocketCloses /\ ~conn.authSent)
            /\ WF_vars(HeartbeatTimer /\ net.phase # "open")
            /\ WF_vars(OnFrame) /\ WF_vars(ServerSends)
==============================================================================
