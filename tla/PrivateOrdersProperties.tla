----------------------- MODULE PrivateOrdersProperties -----------------------
(* What PrivateOrders guarantees: types, safety, liveness.                 *)
EXTENDS PrivateOrders

MaybeView    == Views \cup {NoView}
MaybeStream  == Streams \cup {NoStream}
LinkStates   == {"pending", "connected", "disconnected"}
StreamObject == [channel : Channels \cup {NoChannel}, consumers : SUBSET Consumers,
                 sub : Nat, seq : Nat, cursor : Cursors, staged : MaybeView,
                 orders : MaybeView, state : LinkStates, stale : Scopes,
                 retries : Nat, retryTimer : Nat]
Requests     == [id : Nat, kind : {"subscribe", "refresh"}, s : Streams]
Tables       == [pending : SUBSET Requests, bySub : SUBSET [sub : Nat, s : Streams],
                 unsubscribing : SUBSET Nat, seq : Nat]
Connection   == [ws : Nat, connecting : BOOLEAN, generation : Nat, authSent : BOOLEAN,
                 attempt : Nat, timer : BOOLEAN, strays : Nat, opens : Nat]
Fetches      == [kind : {"connect", "reauth"}, ws : Nat, gen : Nat, s : {NoStream}, id : Nat]
           \cup [kind : {"subscribe", "refresh"}, ws : Nat, gen : Nat, s : Streams, id : Nat]
Tasks        == [do : {"catchUp", "teardown"}, s : Streams, c : SUBSET Consumers]
           \cup [do : {"terminateAll"}, s : {NoStream}, c : {{}}]
Events       == [type : {"connected", "disconnected"}, view : {NoView}, pos : Cursors, stale : Scopes]
           \cup [type : {"snapshot"}, view : Views, pos : Cursors, stale : Scopes]
           \cup [type : {"unit"}, view : {NoView}, pos : Positions \ {0}, stale : Scopes]
           \cup [type : {"stale"}, view : {NoView}, pos : Cursors, stale : Scopes]
CallJobs     == [do : {"deliver", "report", "call"}, s : Streams, ev : Events,
                 left : SUBSET Consumers, called : BOOLEAN]
StreamJobs   == [do : {"terminate", "finish", "unstale"}, s : Streams, ev : Events,
                 left : {{}}, called : BOOLEAN]
           \cup [do : {"retry"}, s : Streams, ev : Events, left : SUBSET Nat, called : BOOLEAN]
ClientJobs   == [do : {"terminateAll", "reportAll", "closed", "schedule"}, s : {NoStream},
                 ev : Events, left : SUBSET Streams, called : BOOLEAN]
Jobs         == CallJobs \cup StreamJobs \cup ClientJobs
FrameKinds   == StreamFrames \cup {"subscribed", "refreshed", "error", "tokenExpiring"}
Notes        == Scopes \cup {"none", "unknown", "forbidden", "cursorInvalid", "other"}
Frames       == [kind : FrameKinds \ {"unit", "unavailable", "available"},
                 id : Nat, sub : Nat, seq : Nat, pos : Cursors, note : Notes]
           \cup [kind : {"unit"}, id : Nat, sub : Nat, seq : Nat, pos : Positions \ {0}, note : Notes]
           \cup [kind : {"unavailable", "available"},
                 id : Nat, sub : Nat, seq : Nat, pos : Cursors, note : Scopes]
ServerSubs   == [sub : Nat, ch : Channels, seq : Nat, pos : Cursors, ready : BOOLEAN, stale : Scopes]
Network      == [phase : {"none", "connecting", "open", "lost", "refused"},
                 wire : Seq(Frames), srv : SUBSET ServerSubs]
Held         == [s : MaybeStream, caughtUp : BOOLEAN, state : LinkStates,
                 view : MaybeView, stale : Scopes]

TypeOK ==
    /\ subs \in [Channels -> MaybeStream]
    /\ stream \in [Streams -> StreamObject]
    /\ req \in Tables
    /\ conn \in Connection
    /\ fetches \in SUBSET Fetches
    /\ micro \in Seq(Tasks)
    /\ turn \in Seq(Jobs)
    /\ consumer \in [Consumers -> Held]
    /\ net \in Network
    /\ log \in [Channels -> Positions]
    /\ faults \in Nat

-----------------------------------------------------------------------------

\* One connection at a time: the connect token of this generation is being
\* fetched exactly while #connecting, once, and never beside a socket.
OneConnection ==
    LET opening == {f \in fetches : f.kind = "connect" /\ f.gen = conn.generation}
    IN  /\ conn.connecting <=> opening # {}
        /\ \A f, g \in opening : f = g
        /\ conn.connecting => conn.ws = 0
        /\ conn.ws # 0 <=> net.phase # "none"

\* Between turns the client makes one attempt at what it lacks, neither none nor
\* two: with subscriptions it has a socket, is opening one or waits for a reconnect
\* timer, and each current stream of an authenticated socket is subscribed, asks to
\* be, or waits to ask again.
NeverAbandoned ==
    Current # {} => conn.ws # 0 \/ conn.connecting \/ conn.timer \/ conn.strays > 0

OneAttempt ==
    Idle =>
        /\ NeverAbandoned
        /\ conn.authSent => \A s \in Current :
              LET asking == {p \in req.pending : p.kind = "subscribe" /\ p.s = s}
                  r == stream[s]
              IN  /\ \A p, q \in asking : p = q
                  /\ \/ r.sub # 0 /\ asking = {} /\ r.retryTimer = 0
                     \/ r.sub = 0 /\ asking # {} /\ r.retryTimer = 0
                     \/ r.sub = 0 /\ asking = {} /\ r.retryTimer = conn.ws

\* The request tables name current streams only, and #bySub agrees with the
\* subscription each stream believes it has.
TablesAgree ==
    turn = <<>> =>
        /\ req.bySub = {[sub |-> stream[s].sub, s |-> s] : s \in {t \in Current : stream[t].sub # 0}}
        /\ \A p \in req.pending : IsCurrent(p.s)

\* A stream's orders are the account's live view at the cursor it would resume
\* from: no unit is skipped, repeated or applied to another's view.
ViewMatchesCursor ==
    \A s \in Current : stream[s].cursor # NoCursor => stream[s].orders = ViewAt(stream[s].cursor)

\* Between turns every consumer was told what its stream knows, whenever it
\* joined and whatever other consumers did in their callbacks.
ConsumersAgree ==
    Idle => \A s \in Current : \A c \in stream[s].consumers :
        /\ consumer[c].caughtUp
        /\ consumer[c].view = stream[s].orders
        /\ consumer[c].stale = stream[s].stale
        /\ (consumer[c].state = "connected") <=> (stream[s].state = "connected")

\* Once the wire is drained the server keeps no subscription nobody holds.
NoOrphanSubscription ==
    Idle /\ net.wire = <<>> =>
        \A r \in net.srv : \E s \in Current : stream[s].sub = r.sub

\* What a consumer is told is news: opens and closes alternate, and a unit
\* comes after the snapshot it changes.
Calls(c) == /\ turn # <<>> /\ turn' # <<>>
            /\ Head(turn).do \in {"deliver", "call"}
            /\ Head(turn').do = Head(turn).do
            /\ c \in Head(turn).left \ Head(turn').left
IsNews(h, ev) == CASE ev.type \in {"connected", "disconnected"} -> h.state # ev.type
                   [] ev.type = "unit" -> h.view # NoView
                   [] OTHER -> TRUE
ConsumersHearNews == [][\A c \in Consumers : Calls(c) => IsNews(consumer[c], Head(turn).ev)]_vars

-----------------------------------------------------------------------------

\* Once faults stop, whoever is still subscribed ends up connected and holding
\* the account's live view.
IsServed(c) == LET s == consumer[c].s
               IN  s # NoStream /\ c \in stream[s].consumers =>
                     /\ consumer[c].state = "connected" /\ consumer[c].stale = "no"
                     /\ consumer[c].view = ViewAt(log[stream[s].channel])
EventuallyServed == \A c \in Consumers : <>[]IsServed(c)
==============================================================================
