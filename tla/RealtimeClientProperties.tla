----------------------- MODULE RealtimeClientProperties -----------------------
(* What RealtimeClient guarantees: types, safety, liveness.                *)
EXTENDS RealtimeClient

Objects == [channel : Channels \cup {NoChannel},
            sub : {"none", "subscribing", "subscribed", "unsubscribed"},
            client : Nat, epoch : Nat, consumers : Nat, subEpoch : Nat, handlers : SUBSET Consumers]
Closures == [s : Shareds \cup {NoShared}, closed : BOOLEAN, epoch : Nat \cup {-1}]
Loaders  == [state : {"unloaded", "loading", "loaded"}, waiting : Seq([s : Shareds, epoch : Nat])]
Refusals == [do : {"refuseClient"}, n : Nat \ {0}] \cup [do : {"refuseSub"}, s : Shareds]
Jobs     == Refusals
       \cup [do : {"attach"}, s : Shareds, epoch : Nat, ok : BOOLEAN]
       \cup [do : {"late"}, c : Consumers, s : Shareds, epoch : Nat]
       \cup [do : {"teardown"}, s : Shareds]
       \cup [do : {"report"}, c : Consumers]
News     == {"publication", "open", "close", "error"}
Steps    == [do : {"deliver"}, what : News, s : Shareds, epoch : Nat, done : SUBSET Consumers]
       \cup [do : {"call"}, what : News, who : SUBSET Consumers]
       \cup [do : {"end"}, left : SUBSET SUBSET Consumers]
       \cup [do : {"tokenError"}, done : SUBSET Shareds]
       \cup [do : {"then"}, job : Refusals]

TypeOK ==
    /\ sharedSubs \in [Channels -> Shareds \cup {NoShared}]
    /\ pendingTeardowns \in [Channels -> Shareds \cup {NoShared}]
    /\ shared \in [Shareds -> Objects]
    /\ client \in [Kinds -> Nat]
    /\ consumer \in [Consumers -> Closures]
    /\ loader \in Loaders
    /\ micro \in Seq(Jobs)
    /\ turn \in [steps : Seq(Steps), in : Consumers \cup {NoConsumer}]
    /\ auth \in BOOLEAN
    /\ clients \in Seq([kind : Kinds, state : {"connecting", "connected", "disconnected"}])
    /\ faults \in Nat /\ authChanges \in Nat

-----------------------------------------------------------------------------

AwaitsLoader(s) ==
    Cardinality({i \in DOMAIN loader.waiting :
                    loader.waiting[i] = [s |-> s, epoch |-> shared[s].epoch]}) = 1

IsAttached(s) == IF shared[s].sub # "none" THEN shared[s].client = client[Kind(s)]
                 ELSE loader.state = "loading" /\ AwaitsLoader(s)

\* Whatever was disposed, revived, disconnected or ended while Centrifuge was
\* loading, a tracked channel is on the current client of its kind, or exactly
\* one attachment of it is still to come.
AlwaysAttached == Idle /\ auth => \A s \in Tracked(sharedSubs) : IsAttached(s)

\* Centrifuge refuses a second subscription of a channel on one client.
OneSubscription ==
    \A s, t \in Shareds : s # t /\ shared[s].channel = shared[t].channel
                          /\ shared[s].sub # "none" /\ shared[t].sub # "none"
                          => shared[s].client # shared[t].client

\* A connection that is open is one the client still knows, and can close; and
\* between tasks no channel is subscribed that no consumer holds.
NothingLeaks ==
    /\ \A n \in DOMAIN clients : clients[n].state # "disconnected" => client[clients[n].kind] = n
    /\ Idle => \A s \in Shareds : IsLive(s) => IsTracked(s) /\ shared[s].handlers # {}

\* "Disconnects only the idle client when mixed public and private subscriptions
\* unsubscribe" (client.test.ts): between tasks an open connection has a channel.
IdleClientsClose ==
    Idle => \A n \in DOMAIN clients : clients[n].state # "disconnected" =>
               \E s \in Tracked(sharedSubs) : shared[s].client = n

\* Everyone on a subscribed channel, also who joined late or inside a callback,
\* has been told of the subscription there is now.
EveryoneOpen ==
    Idle => \A s \in Tracked(sharedSubs) :
               shared[s].sub = "subscribed" =>
                   \A c \in shared[s].handlers : consumer[c].epoch = shared[s].subEpoch

-----------------------------------------------------------------------------

Calls(c) == turn' # turn /\ turn'.in = c /\ UNCHANGED shared

\* A consumer that left, inside whichever callback, is not called again, except
\* by a termination that has collected its handlers.
LeavingIsHeeded ==
    [][\A c \in Consumers : Calls(c) /\ consumer[c].s # NoShared =>
          \/ ~consumer[c].closed
          \/ turn.steps # <<>> /\ Head(turn.steps).do = "call"]_vars

Begins(c, s) == consumer[c].s = NoShared /\ consumer'[c].s = s

\* A subscribe with authentication never joins a private client, or a private
\* subscription, that a refused token has stopped.
SubscribeRestarts ==
    [][\A c \in Consumers, s \in Shareds :
          Begins(c, s) /\ auth /\ (Kind(s) = "private" /\ shared[s].sub # "none")' =>
             (shared[s].sub # "unsubscribed" /\ clients[shared[s].client].state # "disconnected")']_vars

\* The attachment of a shared subscription has been made or will be.
AttachmentDue(s) ==
    \/ shared[s].sub # "none"
    \/ \E i \in DOMAIN loader.waiting : loader.waiting[i] = [s |-> s, epoch |-> shared[s].epoch]
    \/ \E i \in DOMAIN micro : /\ micro[i].do = "attach"
                               /\ micro[i].s = s /\ micro[i].epoch = shared[s].epoch

\* "Calling subscribe again after correcting the failure restarts private
\* realtime" (subscribe): who subscribes with authentication gets a private
\* channel that is attached or will be.
RestartsWhenCorrected ==
    [][\A c \in Consumers, s \in Shareds :
          Begins(c, s) /\ auth /\ Kind(s)' = "private" => AttachmentDue(s)']_vars

-----------------------------------------------------------------------------

Refused(s) == shared[s].sub = "unsubscribed"
              \/ (shared[s].sub # "none" /\ clients[shared[s].client].state = "disconnected")

\* Once faults stop, each tracked channel is subscribed and its consumers know,
\* unless its token was refused for good or authentication is gone.
EventuallyOpen ==
    <>[](auth => \A s \in Tracked(sharedSubs) :
            Refused(s) \/ (shared[s].sub = "subscribed"
                           /\ \A c \in shared[s].handlers : consumer[c].epoch = shared[s].subEpoch))
==============================================================================
