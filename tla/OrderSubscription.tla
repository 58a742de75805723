-------------------------- MODULE OrderSubscription --------------------------
(***************************************************************************)
(* OrdersService.subscribe (src/services/orders/orders.ts): the account's  *)
(* order stream behind connectReadyGated (src/realtime/                    *)
(* ready-gated-subscription.ts), which holds publications back until the   *)
(* catalog is ready, and behind connectPrivateOrders (src/realtime/        *)
(* client.ts), which loads the stream's module when it is first needed.    *)
(* The stream itself is external here and does what OrderFeed says.        *)
(*                                                                         *)
(* An action runs to completion except the flush of a gate, which calls    *)
(* the consumer once for each publication; what the consumer may do inside *)
(* a call it may do between any two steps.                                 *)
(***************************************************************************)
EXTENDS OrderHistory, ReadyGate, ClientCatalog

CONSTANTS Subs, NoSub,           \* the subscriptions made
          WithSnapshots,         \* those whose consumer has an onSnapshot
          Listings,              \* what a catalog may list: sets of orders of known symbols
          Faults,                \* what may go wrong outside the client
          MaxFaults,             \* bound: how many of them happen
          MaxCalls               \* bound: calls to the catalog, and logouts

ASSUME SubscriptionAssumption == /\ NoSub \notin Subs /\ WithSnapshots \subseteq Subs
                                 /\ Listings \subseteq SUBSET OrderIds
                                 /\ MaxFaults \in Nat /\ MaxCalls \in Nat

VARIABLES cat,                   \* the client catalog
          loader,                \* #privateOrders and #privateOrdersLoading
          epoch, auth,           \* #privateOrdersEpoch, #hasAuth
          sub,                   \* each subscription's closures
          flushing,              \* the gate being flushed: [s, left]
          consumer,              \* what each consumer was told
          stream, log,           \* external: the order streams, the account's position
          faults, calls

vars == <<cat, loader, epoch, auth, sub, flushing, consumer, stream, log, faults, calls>>

Unused == [state |-> "unused", gate |-> NewGate, ready |-> "none", link |-> "none",
           epoch |-> 0, live |-> {}]
Stream == [open |-> FALSE, pos |-> NoCursor]
Untold == [state |-> "pending", view |-> EmptyView, at |-> NoCursor, errors |-> {}]
Rest   == [s |-> NoSub, left |-> <<>>]

Idle == flushing = Rest

Fault(kind) == kind \in Faults /\ faults < MaxFaults /\ faults' = faults + 1
Call == calls < MaxCalls /\ calls' = calls + 1

-----------------------------------------------------------------------------
(* The consumer is told.                                                   *)

Ids(n) == {o \in OrderIds : ViewAt(n)[o] # {}}

\* `live` after a publication.
LiveAfter(live, p) ==
    IF p.type = "snapshot" THEN Ids(p.pos)
    ELSE (live \cup Units[p.pos].put) \ Units[p.pos].removed

\* Mutant: what left with a snapshot is taken from the new live set.
RemovedLate(live, p) ==
    IF p.type = "snapshot" THEN Ids(p.pos) \ Ids(p.pos) ELSE Units[p.pos].removed
\* What onRemoved is given.
RemovedBy(live, p) ==
    IF p.type = "snapshot" THEN live \ Ids(p.pos) ELSE Units[p.pos].removed

\* The orders of a publication whose symbol the catalog knows.
Known(p) == {o \in OrderIds :
                /\ Lists(cat, o)
                /\ \/ p.type = "snapshot" /\ o \in Ids(p.pos)
                   \/ p.type = "unit" /\ o \in Units[p.pos].put}

Version(p, o) == IF p.type = "snapshot" THEN ViewAt(p.pos)[o] ELSE {p.pos}

\* A consumer that takes snapshots replaces its view by one; any other applies
\* onEvent and then onRemoved.
ViewAfter(s, p) ==
    [o \in OrderIds |->
        IF o \in RemovedBy(sub[s].live, p) THEN {}
        ELSE IF o \in Known(p) THEN Version(p, o)
        ELSE IF s \in WithSnapshots /\ p.type = "snapshot" THEN {}
        ELSE consumer[s].view[o]]

\* onPublication, behind the gate, of a subscription with these closures.
Deliver(s, closures, p) ==
    /\ sub' = [sub EXCEPT ![s] = [closures EXCEPT !.live = LiveAfter(@, p)]]
    /\ consumer' = [consumer EXCEPT ![s].view = ViewAfter(s, p), ![s].at = p.pos]

\* The handlers that pass by the gate, while the subscription is active.
Tell(s, state) ==
    consumer' = IF sub[s].state = "active" THEN [consumer EXCEPT ![s].state = state] ELSE consumer
Report(s, error) == consumer' = [consumer EXCEPT ![s].errors = @ \cup {error}]
ReportAndClose(s, error) ==
    consumer' = [consumer EXCEPT ![s].errors = @ \cup {error}, ![s].state = "disconnected"]

\* unsubscribeRealtime: a stream is left; one that still loads will not be joined.
Left(link) == IF link = "streaming" THEN "gone" ELSE link

\* terminate, after the gate closed with an error.
Terminated(r) == [r EXCEPT !.state = "terminal", !.gate = Shut(@), !.link = Left(@)]
\* Mutant: a full gate drops the delivery and goes on.
TerminateNever(s) == UNCHANGED <<sub, consumer>>
\* terminate, of a subscription whose gate is full.
Terminate(s) == /\ sub' = [sub EXCEPT ![s] = Terminated(@)]
                /\ ReportAndClose(s, "publication_handler")

-----------------------------------------------------------------------------
(* Calls of the application, also inside a callback.                       *)

Subscribed(link) ==
    [Unused EXCEPT !.state = "active", !.ready = "due", !.link = link, !.epoch = epoch]

\* Without authentication the error is reported a microtask later, or thrown if
\* there is no onError; the gate's promise was made before.
Subscribe(s) ==
    /\ sub[s].state = "unused"
    /\ \/ /\ auth /\ loader = "loaded"
          /\ sub' = [sub EXCEPT ![s] = Subscribed("streaming")]
          /\ UNCHANGED loader
       \/ /\ auth /\ loader # "loaded"
          /\ loader' = IF loader = "absent" THEN "loading" ELSE loader
          /\ sub' = [sub EXCEPT ![s] = Subscribed(loader')]
       \/ /\ ~auth
          /\ \/ sub' = [sub EXCEPT ![s] = Subscribed("refused")]
             \/ sub' = [sub EXCEPT ![s] = [Subscribed("gone") EXCEPT
                                              !.state = "disposed", !.gate = Shut(@)]]
          /\ UNCHANGED loader
    /\ UNCHANGED <<cat, epoch, auth, flushing, consumer, stream, log, faults, calls>>

\* The disposer.
Unsubscribe(s) ==
    /\ sub[s].state = "active"
    /\ sub' = [sub EXCEPT ![s].state = "disposed", ![s].gate = Shut(@), ![s].link = Left(@)]
    /\ UNCHANGED <<cat, loader, epoch, auth, flushing, consumer, stream, log, faults, calls>>

\* disconnectPrivate: every stream is dropped without callbacks, and who waits
\* for the module never connects.
Logout ==
    /\ Call /\ auth
    /\ auth' = FALSE
    /\ epoch' = epoch + 1
    /\ sub' = [s \in Subs |-> [sub[s] EXCEPT !.link = Left(@)]]
    /\ UNCHANGED <<cat, loader, flushing, consumer, stream, log, faults>>

Login ==
    /\ ~auth
    /\ auth' = TRUE
    /\ UNCHANGED <<cat, loader, epoch, sub, flushing, consumer, stream, log, faults, calls>>

\* The application gives the catalog a snapshot, or asks it to refresh.
CallCatalog ==
    /\ Call
    /\ \/ \E listing \in Listings : cat' = SetSnapshot(cat, listing)
       \/ cat' = Refreshing(cat)
    /\ UNCHANGED <<loader, epoch, auth, sub, flushing, consumer, stream, log, faults>>

-----------------------------------------------------------------------------
(* Events.                                                                 *)

\* The gate calls ready(), a microtask after it was made.
CallReady(s) ==
    /\ Idle /\ sub[s].ready = "due"
    /\ sub' = [sub EXCEPT ![s].ready = Awaited(cat)]
    /\ cat' = Ensured(cat)
    /\ UNCHANGED <<loader, epoch, auth, flushing, consumer, stream, log, faults, calls>>

\* The refresh in flight settles, and with it every ready() that waits for it.
RefreshSettles ==
    /\ Idle /\ cat.inFlight
    /\ \E outcome \in {"resolved", "rejected"} :
          /\ IF outcome = "resolved"
             THEN /\ \E listing \in Listings : cat' = RefreshSucceeded(cat, listing)
                  /\ UNCHANGED faults
             ELSE cat' = RefreshFailed(cat) /\ Fault("refresh")
          /\ sub' = [s \in Subs |-> IF sub[s].ready = "refresh"
                                    THEN [sub[s] EXCEPT !.ready = outcome] ELSE sub[s]]
    /\ UNCHANGED <<loader, epoch, auth, flushing, consumer, stream, log, calls>>

\* What a flush has left to deliver.
Flush(s, left) == flushing' = IF left = <<>> THEN Rest ELSE [s |-> s, left |-> left]

\* ready() resolved: a gate still pending opens and its flush begins.
GateOpens(s) ==
    LET queue == sub[s].gate.queue
        open  == [sub[s] EXCEPT !.ready = "done", !.gate = Opened(@)]
    IN  /\ Idle /\ sub[s].ready = "resolved"
        /\ IF sub[s].gate.state # "pending"
           THEN sub' = [sub EXCEPT ![s].ready = "done"] /\ UNCHANGED <<consumer, flushing>>
           ELSE IF queue = <<>>
           THEN sub' = [sub EXCEPT ![s] = open] /\ UNCHANGED <<consumer, flushing>>
           ELSE Deliver(s, open, Head(queue)) /\ Flush(s, Tail(queue))
        /\ UNCHANGED <<cat, loader, epoch, auth, stream, log, faults, calls>>

\* ready() rejected: a gate still pending closes with the error.
GateFails(s) ==
    /\ Idle /\ sub[s].ready = "rejected"
    /\ IF sub[s].gate.state = "pending"
       THEN /\ sub' = [sub EXCEPT ![s] = [Terminated(@) EXCEPT !.ready = "done"]]
            /\ ReportAndClose(s, "publication_handler")
       ELSE sub' = [sub EXCEPT ![s].ready = "done"] /\ UNCHANGED consumer
    /\ UNCHANGED <<cat, loader, epoch, auth, flushing, stream, log, faults, calls>>

\* The flush goes on, whatever the consumer did in the last call.
FlushNext ==
    /\ ~Idle
    /\ Deliver(flushing.s, sub[flushing.s], Head(flushing.left))
    /\ Flush(flushing.s, Tail(flushing.left))
    /\ UNCHANGED <<cat, loader, epoch, auth, stream, log, faults, calls>>

\* import("./private-orders.js") settles.
ModuleLoads ==
    /\ Idle /\ loader = "loading"
    /\ loader' = "loaded"
    /\ sub' = [s \in Subs |-> IF sub[s].link = "loading" THEN [sub[s] EXCEPT !.link = "loaded"]
                              ELSE sub[s]]
    /\ UNCHANGED <<cat, epoch, auth, flushing, consumer, stream, log, faults, calls>>

ModuleFails ==
    /\ Idle /\ loader = "loading"
    /\ Fault("module")
    /\ loader' = "failed"
    /\ sub' = [s \in Subs |-> IF sub[s].link = "loading" THEN [sub[s] EXCEPT !.link = "failed"]
                              ELSE sub[s]]
    /\ UNCHANGED <<cat, epoch, auth, flushing, consumer, stream, log, calls>>

\* Mutant: whoever waited joins, disposed or not.
StillWaitsAlways(r) == TRUE
\* !closed && epoch === this.#privateOrdersEpoch
StillWaits(r) == r.state = "active" /\ r.epoch = epoch

\* Who waited for the module joins its stream.
JoinStream(s) ==
    /\ Idle /\ sub[s].link = "loaded"
    /\ sub' = [sub EXCEPT ![s].link = IF StillWaits(sub[s]) THEN "streaming" ELSE "gone"]
    /\ UNCHANGED <<cat, loader, epoch, auth, flushing, consumer, stream, log, faults, calls>>

\* Who waited for a module that failed is told; the next subscribe tries again.
HearOfFailure(s) ==
    /\ Idle /\ sub[s].link = "failed"
    /\ loader' = IF loader = "failed" THEN "absent" ELSE loader
    /\ sub' = [sub EXCEPT ![s].link = "gone"]
    /\ IF StillWaits(sub[s]) THEN ReportAndClose(s, "transport_load") ELSE UNCHANGED consumer
    /\ UNCHANGED <<cat, epoch, auth, flushing, stream, log, faults, calls>>

\* The queued report that authentication is missing.
HearOfRefusal(s) ==
    /\ Idle /\ sub[s].link = "refused"
    /\ sub' = [sub EXCEPT ![s].link = "gone"]
    /\ Report(s, "auth")
    /\ UNCHANGED <<cat, loader, epoch, auth, flushing, stream, log, faults, calls>>

-----------------------------------------------------------------------------
(* External: the order streams, as OrderFeed says, and the account.        *)

Streaming(s) == Idle /\ sub[s].link = "streaming"

StreamOpens(s) ==
    /\ Streaming(s) /\ ~stream[s].open
    /\ stream' = [stream EXCEPT ![s].open = TRUE]
    /\ Tell(s, "connected")
    /\ UNCHANGED <<cat, loader, epoch, auth, sub, flushing, log, faults, calls>>

StreamCloses(s) ==
    /\ Streaming(s) /\ stream[s].open
    /\ Fault("close")
    /\ stream' = [stream EXCEPT ![s].open = FALSE]
    /\ Tell(s, "disconnected")
    /\ UNCHANGED <<cat, loader, epoch, auth, sub, flushing, log, calls>>

\* The stream ends for good: onError, then onDisconnected.
StreamEnds(s) ==
    /\ Streaming(s)
    /\ Fault("end")
    /\ sub' = [sub EXCEPT ![s].link = "gone"]
    /\ ReportAndClose(s, "stream")
    /\ UNCHANGED <<cat, loader, epoch, auth, flushing, stream, log, calls>>

Publications(s) ==
    [type : {"snapshot"}, pos : {n \in 0 .. log : stream[s].pos = NoCursor}]
      \cup [type : {"unit"}, pos : {n \in 1 .. log : stream[s].pos = n - 1}]
\* A resync, when the stream's cursor has expired.
Resyncs(s) ==
    [type : {"snapshot"}, pos : {n \in 0 .. log : 0 <= stream[s].pos /\ stream[s].pos <= n}]

\* onPublication: the gate delivers, queues or gives up.
Pass(s, p) ==
    LET gate == sub[s].gate
    IN  CASE gate.state = "open" -> Deliver(s, sub[s], p)
          [] gate.state = "pending" /\ ~IsFull(gate) ->
                /\ sub' = [sub EXCEPT ![s].gate = Queued(gate, p)]
                /\ UNCHANGED consumer
          [] gate.state = "pending" /\ IsFull(gate) -> Terminate(s)
          [] OTHER -> UNCHANGED <<sub, consumer>>

StreamPublishes(s) ==
    /\ Streaming(s) /\ stream[s].open
    /\ \E p \in Publications(s) :
          /\ Pass(s, p)
          /\ stream' = [stream EXCEPT ![s].pos = p.pos]
    /\ UNCHANGED <<cat, loader, epoch, auth, flushing, log, faults, calls>>

StreamResyncs(s) ==
    /\ Streaming(s) /\ stream[s].open
    /\ Fault("resync")
    /\ \E p \in Resyncs(s) :
          /\ Pass(s, p)
          /\ stream' = [stream EXCEPT ![s].pos = p.pos]
    /\ UNCHANGED <<cat, loader, epoch, auth, flushing, log, calls>>

AccountMoves ==
    /\ log < Len(Units)
    /\ log' = log + 1
    /\ UNCHANGED <<cat, loader, epoch, auth, sub, flushing, consumer, stream, faults, calls>>

-----------------------------------------------------------------------------

Init ==
    /\ cat = EmptyCatalog
    /\ loader = "absent" /\ epoch = 0 /\ auth = TRUE
    /\ sub = [s \in Subs |-> Unused]
    /\ flushing = Rest
    /\ consumer = [s \in Subs |-> Untold]
    /\ stream = [s \in Subs |-> Stream]
    /\ log = 0
    /\ faults = 0 /\ calls = 0

App == \/ \E s \in Subs : Subscribe(s) \/ Unsubscribe(s)
       \/ Logout \/ Login \/ CallCatalog

Events == \/ RefreshSettles \/ FlushNext \/ ModuleLoads \/ ModuleFails
          \/ \E s \in Subs : \/ CallReady(s) \/ GateOpens(s) \/ GateFails(s)
                             \/ JoinStream(s) \/ HearOfFailure(s) \/ HearOfRefusal(s)

External == \/ AccountMoves
            \/ \E s \in Subs : \/ StreamOpens(s) \/ StreamCloses(s) \/ StreamEnds(s)
                               \/ StreamPublishes(s) \/ StreamResyncs(s)

Next == App \/ Events \/ External

Spec == Init /\ [][Next]_vars

\* The event loop runs what is due, requests and imports settle, and a stream
\* that is joined opens and catches up.
ReadyGoesOn(s)  == CallReady(s) \/ GateOpens(s) \/ GateFails(s)
StreamGoesOn(s) == JoinStream(s) \/ HearOfFailure(s) \/ HearOfRefusal(s) \/ StreamOpens(s) \/ StreamPublishes(s)

Fairness == /\ WF_vars(RefreshSettles) /\ WF_vars(FlushNext)
            /\ WF_vars(ModuleLoads \/ ModuleFails)
            /\ \A s \in Subs : WF_vars(ReadyGoesOn(s)) /\ WF_vars(StreamGoesOn(s))

FairSpec == Spec /\ Fairness
==============================================================================
