--------------------- MODULE OrderSubscriptionProperties ---------------------
(* What OrderSubscription guarantees: types, safety, liveness.             *)
EXTENDS OrderSubscription

CONSTANTS Account, NoAccount     \* whose orders they are, for OrderFeed

ASSUME AccountAssumption == Account # NoAccount

Publication == [type : {"snapshot"}, pos : Positions] \cup [type : {"unit"}, pos : 1 .. Len(Units)]
Gates       == [state : {"pending", "open", "closed"}, queue : Seq(Publication)]
Closures    == [state : {"unused", "active", "terminal", "disposed"}, gate : Gates,
                ready : {"none", "due", "refresh", "resolved", "rejected", "done"},
                link : {"none", "loading", "loaded", "failed", "refused", "streaming", "gone"},
                epoch : Nat, live : SUBSET OrderIds]
Errors      == {"publication_handler", "transport_load", "auth", "stream"}
Hearers     == [state : {"pending", "connected", "disconnected"}, view : Views, at : Cursors,
                errors : SUBSET Errors]

Catalogs    == [listed : SUBSET Listings, status : {"empty", "refreshing", "fresh", "stale"},
                inFlight : BOOLEAN]

SubTypes      == sub \in [Subs -> Closures] /\ \A s \in Subs : Len(sub[s].gate.queue) <= MaxPending
ConsumerTypes == consumer \in [Subs -> Hearers]
StreamTypes   == stream \in [Subs -> [open : BOOLEAN, pos : Cursors]] /\ log \in Positions
FlushTypes    == flushing \in {Rest} \cup [s : Subs, left : Seq(Publication) \ {<<>>}]
ClientTypes   == /\ cat \in Catalogs
                 /\ loader \in {"absent", "loading", "loaded", "failed"}
                 /\ epoch \in Nat /\ auth \in BOOLEAN
                 /\ faults \in Nat /\ calls \in Nat

TypeOK == SubTypes /\ ConsumerTypes /\ StreamTypes /\ FlushTypes /\ ClientTypes

-----------------------------------------------------------------------------

\* What onSnapshot, onEvent and onRemoved amount to: no order is shown that has
\* left the account's live view, by a unit or with a resync, and every order
\* whose symbol all catalogs know is shown as it is there.
AlwaysListed == {o \in OrderIds : \A listing \in Listings : o \in listing}

ViewIsLive ==
    \A s \in Subs : consumer[s].at # NoCursor =>
        \A o \in OrderIds :
            LET true == ViewAt(consumer[s].at)[o]
            IN  /\ true = {} => consumer[s].view[o] = {}
                /\ o \in AlwaysListed => consumer[s].view[o] = true

\* A stream is held only by a subscription that is active, whenever its module
\* loaded; and an active one without a stream has one coming, has been told of
\* an error, or was dropped by a disconnect of all private streams.
StreamsMatch ==
    \A s \in Subs :
        /\ sub[s].link = "streaming" => sub[s].state = "active" /\ sub[s].epoch = epoch
        /\ sub[s].state = "active" /\ sub[s].link = "gone" =>
              consumer[s].errors # {} \/ sub[s].epoch # epoch

\* What a subscription is still to be given: by the flush that has begun, or by
\* the one that will.
Waiting(s)  == IF flushing.s = s THEN flushing.left ELSE sub[s].gate.queue
EndOf(q, n) == IF q = <<>> THEN n ELSE q[Len(q)].pos

\* The gate drops nothing while its subscription is active: with what waits the
\* consumer will be where the stream is.  A gate that gave up, as it was full or
\* the catalog failed, has told its consumer of the error and of the close.
UnbrokenOrTold ==
    \A s \in Subs :
        /\ sub[s].state = "active" => stream[s].pos = EndOf(Waiting(s), consumer[s].at)
        /\ sub[s].state = "terminal" =>
              "publication_handler" \in consumer[s].errors /\ consumer[s].state = "disconnected"

\* A subscription that has ended.
Ended(s) == sub[s].state \in {"terminal", "disposed"}

\* The only calls s still gets are of a flush that has begun, and the report that
\* authentication is missing, which connectPrivateOrders queued before.
StaysQuiet(s) ==
    /\ consumer'[s].state = consumer[s].state
    /\ flushing.s # s => consumer'[s].view = consumer[s].view /\ consumer'[s].at = consumer[s].at
    /\ consumer'[s].errors \ consumer[s].errors \subseteq {e \in {"auth"} : sub[s].link = "refused"}

\* A subscription that has ended hears nothing new: not of publications, of the
\* link or of errors, from its gate, the module's load or a stream.
QuietAfterTheEnd == [][\A s \in Subs : Ended(s) => StaysQuiet(s)]_vars

\* close() "permanently prevents future delivery" (src/shared/decimal-surface.ts):
\* a closed gate delivers nothing, not even what a flush has taken from it.
ClosedGateIsSilent ==
    [][\A s \in Subs : sub[s].gate.state = "closed" => consumer'[s].at = consumer[s].at]_vars

-----------------------------------------------------------------------------

\* Once faults stop, a subscription has ended or been told why it has no stream,
\* or its consumer is connected and has had all the account's changes.
Served(s) ==
    \/ sub[s].state # "active" \/ sub[s].link = "gone"
    \/ /\ sub[s].link = "streaming"
       /\ consumer[s].state = "connected" /\ consumer[s].at = log
EventuallyServed == \A s \in Subs : <>[]Served(s)

-----------------------------------------------------------------------------

\* What each consumer was told, as a feed of the account.
ConsumerFeed == [s \in Subs |->
    [channel |-> IF sub[s].state = "unused" THEN NoAccount ELSE Account,
     state |-> consumer[s].state, at |-> consumer[s].at]]

Feed == INSTANCE OrderFeed WITH Consumers <- Subs, Channels <- {Account}, NoChannel <- NoAccount,
                                LastPosition <- Len(Units),
                                log <- [a \in {Account} |-> log], feed <- ConsumerFeed

\* Every subscription implements OrderFeed: the gate, the lazy load and the catalog
\* neither reorder, repeat nor lose what a view is made of.
ImplementsOrderFeed == Feed!Spec
==============================================================================
