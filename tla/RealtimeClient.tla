---------------------------- MODULE RealtimeClient ----------------------------
(***************************************************************************)
(* RealtimeClient (src/realtime/client.ts): consumers share one Centrifuge *)
(* subscription per channel, and channels one Centrifuge client per kind.  *)
(* An action is one uninterrupted piece of code; where it calls consumers, *)
(* `turn` holds what is left, and the consumer may call back in between.   *)
(* Centrifuge, its loading and the server behind it are external.          *)
(***************************************************************************)
EXTENDS Integers, Sequences, FiniteSets

CONSTANTS PublicChannels, PrivateChannels,
          Consumers,             \* bound: subscribe() calls
          Shareds,               \* bound: SharedSubscription objects
          NoShared, NoConsumer, NoChannel,
          Faults,                \* what may go wrong outside the client
          MaxFaults,             \* bound: how many of them happen
          MaxAuthChanges         \* bound: sign-ins and sign-outs

ASSUME RealtimeAssumption == /\ PublicChannels \cap PrivateChannels = {}
                             /\ NoChannel \notin PublicChannels \cup PrivateChannels
                             /\ NoShared \notin Shareds /\ NoConsumer \notin Consumers
                             /\ IsFiniteSet(Consumers) /\ MaxFaults \in Nat /\ MaxAuthChanges \in Nat

VARIABLES sharedSubs, pendingTeardowns,   \* #sharedSubs, #pendingTeardowns
          shared,                \* the SharedSubscription objects; `sub` is the state of theirs
          client,                \* #publicClient, #privateClient; 0 is null
          consumer,              \* what the closures of subscribe() keep
          loader,                \* loadCentrifuge, and who awaits it
          micro,                 \* queued microtasks
          turn,                  \* what the running event has yet to do, and the consumer being called
          auth,                  \* hasAuth()
          clients,               \* external: the Centrifuge clients
          faults, authChanges

tables == <<sharedSubs, pendingTeardowns>>
vars   == <<tables, shared, client, consumer, loader, micro, turn,
            auth, clients, faults, authChanges>>

Channels   == PublicChannels \cup PrivateChannels
Kinds      == {"public", "private"}
KindOf(ch) == IF ch \in PrivateChannels THEN "private" ELSE "public"
Kind(s)    == KindOf(shared[s].channel)

Tracked(t)   == {t[ch] : ch \in Channels} \ {NoShared}
IsTracked(s) == sharedSubs[shared[s].channel] = s
Without(t, S) == [ch \in Channels |-> IF t[ch] \in S THEN NoShared ELSE t[ch]]

Idle       == turn.steps = <<>> /\ micro = <<>>
AppMayCall == turn.steps = <<>> \/ turn.in # NoConsumer
Later(job) == micro' = Append(micro, job)
Fault(kind) == kind \in Faults /\ faults < MaxFaults /\ faults' = faults + 1

\* Steps of a turn: call the handlers a shared subscription has while the loop
\* runs, or a set of handlers collected before.
Rest             == [steps |-> <<>>, in |-> NoConsumer]
Doing(steps)     == [steps |-> steps, in |-> NoConsumer]
Deliver(what, s) == [do |-> "deliver", what |-> what, s |-> s, epoch |-> shared[s].subEpoch, done |-> {}]
Call(what, who)  == [do |-> "call", what |-> what, who |-> who]
Then(job)        == [do |-> "then", job |-> job]

-----------------------------------------------------------------------------
(* Attaching and tearing down.                                             *)

NewShared(ch) == [channel |-> ch, sub |-> "none", client |-> 0, epoch |-> 0,
                  consumers |-> 0, subEpoch |-> 0, handlers |-> {}]

Unauthorized(ch) == ch \in PrivateChannels /\ ~auth

\* Subscriptions of a client that lost its connection subscribe again with it.
Offline(sh, dead) ==
    [s \in Shareds |-> IF sh[s].client \in dead /\ sh[s].sub = "subscribed"
                       THEN [sh[s] EXCEPT !.sub = "subscribing"] ELSE sh[s]]

\* #attachSubscriptionNow, with #ensureClientForChannel; `cl` are the clients.
AttachNow(sh, s, cl) ==
    LET k == KindOf(sh[s].channel)
        n == IF client[k] # 0 THEN client[k] ELSE Len(clients) + 1
    IN  /\ client' = [client EXCEPT ![k] = n]
        /\ shared' = [sh EXCEPT ![s].sub = "subscribing", ![s].client = n]
        /\ clients' = IF client[k] = 0 THEN Append(cl, [kind |-> k, state |-> "connecting"]) ELSE cl

\* #teardownSubscription of several.
TornDown(sh, S) ==
    [s \in Shareds |-> IF s \in S THEN [sh[s] EXCEPT !.sub = "none", !.client = 0, !.epoch = @ + 1]
                       ELSE sh[s]]

\* Clients are disconnected and forgotten; `sh` is what is left of the shared.
Retire(kinds, sh) ==
    LET dead == {client[k] : k \in kinds} \ {0}
    IN  /\ client' = [k \in Kinds |-> IF k \in kinds THEN 0 ELSE client[k]]
        /\ clients' = [n \in DOMAIN clients |->
                          IF n \in dead THEN [clients[n] EXCEPT !.state = "disconnected"] ELSE clients[n]]
        /\ shared' = Offline(sh, dead)

\* #disconnectClientIfIdle after the teardown of S, which left the tables.
IdleKinds(S) ==
    {k \in Kinds : /\ \E s \in S : Kind(s) = k /\ shared[s].sub # "none"
                   /\ \A s \in (Tracked(sharedSubs) \cup Tracked(pendingTeardowns)) \ S : Kind(s) # k}

\* #terminateSubscriptions up to its callbacks; `kinds` lose their client.
Terminate(S, kinds) ==
    /\ sharedSubs' = Without(sharedSubs, S)
    /\ pendingTeardowns' = Without(pendingTeardowns, S)
    /\ Retire(kinds, [s \in Shareds |-> IF s \in S THEN [TornDown(shared, S)[s] EXCEPT !.handlers = {}]
                                        ELSE shared[s]])
    /\ turn' = Doing(<<[do |-> "end", left |-> {shared[s].handlers : s \in S} \ {{}}]>>)

-----------------------------------------------------------------------------
(* subscribe() and its disposer.                                           *)

Joined(sh, s, c) ==
    [sh EXCEPT ![s].consumers = @ + 1, ![s].handlers = @ \cup {c}]

\* Mutant: a subscribe restarts nothing.
RestartedNever(sh, s) == sh
\* An explicit subscribe restarts a private subscription whose token was refused.
Restarted(sh, s) ==
    IF Kind(s) = "private" /\ auth /\ sh[s].sub = "unsubscribed"
    THEN [sh EXCEPT ![s].sub = "subscribing"] ELSE sh
Reconnected(n, k) ==
    IF n # 0 /\ k = "private" /\ auth /\ clients[n].state = "disconnected"
    THEN [clients EXCEPT ![n].state = "connecting"] ELSE clients

\* Mutant: a late consumer waits for the next subscribed event.
LateNever(s) == FALSE
\* A consumer that finds the channel subscribed is told so a microtask later.
IsLate(s) == shared[s].sub = "subscribed"

\* subscribe() on a shared subscription, `sh` of them, that is attached or is
\* being attached.
Share(c, s, sh) ==
    /\ shared' = Restarted(Joined(sh, s, c), s)
    /\ clients' = Reconnected(shared[s].client, Kind(s))
    /\ IF IsLate(s)
       THEN Later([do |-> "late", c |-> c, s |-> s, epoch |-> shared[s].subEpoch])
       ELSE UNCHANGED micro
    /\ UNCHANGED <<client, loader>>

\* #attachSubscription of `sh`'s s for its first consumer.
Attach(c, s, sh) ==
    LET joined == [sh EXCEPT ![s].epoch = @ + 1, ![s].consumers = @ + 1, ![s].handlers = @ \cup {c}]
        k == KindOf(sh[s].channel)
    IN  IF loader.state = "loaded"
        THEN /\ AttachNow(joined, s, Reconnected(client[k], k))
             /\ UNCHANGED <<micro, loader>>
        ELSE /\ shared' = joined
             /\ loader' = [state |-> "loading",
                           waiting |-> Append(loader.waiting, [s |-> s, epoch |-> joined[s].epoch])]
             /\ UNCHANGED <<client, clients, micro>>

\* Missing authentication goes to onError a microtask later.
Refuse(c) ==
    /\ consumer' = [consumer EXCEPT ![c].closed = TRUE]
    /\ Later([do |-> "report", c |-> c])
    /\ UNCHANGED <<shared, client, clients, loader>>

Holds(c, s) == consumer' = [consumer EXCEPT ![c].s = s]

SubscribeExisting(c, ch) ==
    /\ sharedSubs[ch] # NoShared
    /\ Share(c, sharedSubs[ch], shared) /\ Holds(c, sharedSubs[ch])
    /\ UNCHANGED tables

\* A subscription about to be torn down is subscribed again if it was stopped.
Resumed(s) == [shared EXCEPT ![s].sub = IF @ = "unsubscribed" THEN "subscribing" ELSE @]

\* A channel about to be torn down is kept, and attached if it has not been.
Revive(c, ch) ==
    LET s == pendingTeardowns[ch]
    IN  /\ sharedSubs[ch] = NoShared /\ s # NoShared
        /\ sharedSubs' = [sharedSubs EXCEPT ![ch] = s]
        /\ pendingTeardowns' = [pendingTeardowns EXCEPT ![ch] = NoShared]
        /\ IF shared[s].sub # "none"
           THEN /\ Share(c, s, Resumed(s)) /\ Holds(c, s)
           ELSE IF Unauthorized(ch) THEN Refuse(c)
           ELSE /\ Attach(c, s, shared) /\ Holds(c, s)

SubscribeNew(c, ch) ==
    /\ sharedSubs[ch] = NoShared /\ pendingTeardowns[ch] = NoShared
    /\ UNCHANGED pendingTeardowns
    /\ IF Unauthorized(ch) THEN Refuse(c) /\ UNCHANGED sharedSubs
       ELSE \E s \in Shareds :
               /\ shared[s].epoch = 0
               /\ sharedSubs' = [sharedSubs EXCEPT ![ch] = s]
               /\ Attach(c, s, [shared EXCEPT ![s] = NewShared(ch)]) /\ Holds(c, s)

Subscribe(c, ch) ==
    /\ AppMayCall /\ consumer[c].s = NoShared /\ ~consumer[c].closed
    /\ SubscribeExisting(c, ch) \/ Revive(c, ch) \/ SubscribeNew(c, ch)
    /\ UNCHANGED <<turn, auth, authChanges, faults>>

\* Mutant: a disposer may be used again.
DisposableAlways(c) == consumer[c].s # NoShared
Disposable(c) == consumer[c].s # NoShared /\ ~consumer[c].closed

\* A channel set aside and revived is met again by the loop over #sharedSubs.
Unmet(step, s) == IF step.do = "tokenError" THEN [step EXCEPT !.done = @ \ {s}] ELSE step
MetAgain(s) == [turn EXCEPT !.steps = [i \in DOMAIN turn.steps |-> Unmet(turn.steps[i], s)]]

\* The disposer; the last consumer's leaves the teardown to a microtask.
Dispose(c) ==
    /\ AppMayCall /\ Disposable(c)
    /\ LET s == consumer[c].s
           last == shared[s].consumers <= 1 /\ IsTracked(s)
       IN  /\ shared' = [shared EXCEPT ![s].consumers = @ - 1, ![s].handlers = @ \ {c}]
           /\ consumer' = [consumer EXCEPT ![c].closed = TRUE]
           /\ IF last
              THEN /\ sharedSubs' = Without(sharedSubs, {s})
                   /\ pendingTeardowns' = [pendingTeardowns EXCEPT ![shared[s].channel] = s]
                   /\ Later([do |-> "teardown", s |-> s])
                   /\ turn' = MetAgain(s)
              ELSE UNCHANGED <<tables, micro, turn>>
    /\ UNCHANGED <<client, loader, auth, authChanges, clients, faults>>

\* disconnect(): nobody is told, and the shared subscriptions stay as they are.
Disconnect ==
    /\ AppMayCall
    /\ sharedSubs' = Without(sharedSubs, Shareds)
    /\ pendingTeardowns' = Without(pendingTeardowns, Shareds)
    /\ Retire(Kinds, shared)
    /\ UNCHANGED <<consumer, loader, micro, turn, auth, authChanges, faults>>

\* disconnectPrivate()
DisconnectPrivate ==
    /\ AppMayCall
    /\ LET S == {s \in Tracked(sharedSubs) \cup Tracked(pendingTeardowns) : Kind(s) = "private"}
       IN  /\ sharedSubs' = Without(sharedSubs, S)
           /\ pendingTeardowns' = Without(pendingTeardowns, S)
           /\ Retire({"private"}, TornDown(shared, S))
    /\ UNCHANGED <<consumer, loader, micro, turn, auth, authChanges, faults>>

-----------------------------------------------------------------------------
(* Calling consumers.                                                      *)

\* Who is still to be called by a loop over live handlers.  A consumer hears
\* of a subscription once.
Callable(step) ==
    {c \in shared[step.s].handlers \ step.done :
        step.what = "open" => consumer[c].epoch < step.epoch}

Heard(c, step) ==
    IF step.what = "open" THEN [consumer EXCEPT ![c].epoch = step.epoch] ELSE consumer

Replaced(steps, in) == turn' = [steps |-> steps \o Tail(turn.steps), in |-> in]

CallLive(step) ==
    /\ step.do = "deliver"
    /\ \E c \in Callable(step) :
          /\ Replaced(<<[step EXCEPT !.done = @ \cup {c}]>>, c)
          /\ consumer' = Heard(c, step)
    /\ UNCHANGED micro

CallCollected(step) ==
    /\ step.do = "call"
    /\ \E c \in step.who : Replaced(<<[step EXCEPT !.who = @ \ {c}]>>, c)
    /\ UNCHANGED <<consumer, micro>>

\* #terminateSubscriptions, its callbacks: every error of a channel, then
\* every close of it.
NextEnd(step) ==
    /\ step.do = "end"
    /\ \E who \in step.left :
          Replaced(<<Call("error", who), Call("close", who), [step EXCEPT !.left = @ \ {who}]>>, NoConsumer)
    /\ UNCHANGED <<consumer, micro>>

\* #emitConnectionTokenError
ToReport(step) == {s \in Tracked(sharedSubs) : Kind(s) = "private"} \ step.done
NextTokenError(step) ==
    /\ step.do = "tokenError"
    /\ \E s \in ToReport(step) :
          Replaced(<<Deliver("error", s), [step EXCEPT !.done = @ \cup {s}]>>, NoConsumer)
    /\ UNCHANGED <<consumer, micro>>

StepDone(step) ==
    /\ \/ step.do = "deliver" /\ Callable(step) = {} /\ UNCHANGED micro
       \/ step.do = "call" /\ step.who = {} /\ UNCHANGED micro
       \/ step.do = "end" /\ step.left = {} /\ UNCHANGED micro
       \/ step.do = "tokenError" /\ ToReport(step) = {} /\ UNCHANGED micro
       \/ step.do = "then" /\ Later(step.job)
    /\ Replaced(<<>>, NoConsumer)
    /\ UNCHANGED consumer

Proceed ==
    /\ turn.steps # <<>>
    /\ LET step == Head(turn.steps)
       IN  \/ CallLive(step) \/ CallCollected(step) \/ NextEnd(step)
           \/ NextTokenError(step) \/ StepDone(step)
    /\ UNCHANGED <<tables, shared, client, loader, auth, authChanges, clients, faults>>

-----------------------------------------------------------------------------
(* Microtasks.                                                             *)

Untouched == UNCHANGED <<tables, shared, client, consumer, clients>>

\* Mutant: only the attachment epoch is compared.
AwaitedByEpoch(s, epoch) == shared[s].epoch = epoch
\* A channel torn down, attached anew or forgotten while Centrifuge was loading
\* does not take the attachment any more.
IsAwaited(s, epoch) == shared[s].epoch = epoch /\ IsTracked(s)

\* #attachSubscriptionWhenLoaded after its await.
AttachWhenLoaded(job) ==
    /\ job.do = "attach"
    /\ LET s == job.s
           given == IsAwaited(s, job.epoch)
       IN  \/ /\ shared[s].epoch = job.epoch
              /\ job.ok => given /\ shared[s].sub = "none" /\ Unauthorized(shared[s].channel)
              /\ sharedSubs' = Without(sharedSubs, {s})
              /\ turn' = Doing(<<Deliver("error", s)>>)
              /\ UNCHANGED <<pendingTeardowns, shared, client, consumer, clients>>
           \/ /\ job.ok /\ given /\ shared[s].sub = "none" /\ ~Unauthorized(shared[s].channel)
              /\ AttachNow(shared, s, clients)
              /\ turn' = Rest
              /\ UNCHANGED <<tables, consumer>>
           \/ /\ IF job.ok THEN ~given \/ shared[s].sub # "none" ELSE shared[s].epoch # job.epoch
              /\ turn' = Rest
              /\ Untouched

\* Mutant: nobody looks whether the consumer has left meanwhile.
OpenIsNewsAnyway(c, s, epoch) == shared[s].sub = "subscribed" /\ consumer[c].epoch < epoch
OpenIsNews(c, s, epoch) ==
    ~consumer[c].closed /\ shared[s].sub = "subscribed" /\ consumer[c].epoch < epoch

\* The microtask of a late subscribe().
TellLate(job) ==
    /\ job.do = "late"
    /\ IF OpenIsNews(job.c, job.s, job.epoch)
       THEN /\ consumer' = [consumer EXCEPT ![job.c].epoch = job.epoch]
            /\ turn' = [steps |-> <<Call("open", {})>>, in |-> job.c]
       ELSE turn' = Rest /\ UNCHANGED consumer
    /\ UNCHANGED <<tables, shared, client, clients>>

\* Mutant: a channel revived meanwhile is torn down all the same.
IsDueAlways(s) == TRUE
IsDue(s) == pendingTeardowns[shared[s].channel] = s

\* The disposer's microtask.
TeardownDue(job) ==
    /\ job.do = "teardown"
    /\ IF IsDue(job.s)
       THEN LET rest == (Tracked(sharedSubs) \cup Tracked(pendingTeardowns)) \ {job.s}
            IN  /\ pendingTeardowns' = Without(pendingTeardowns, {job.s})
                /\ Retire(IF rest = {} THEN Kinds ELSE IdleKinds({job.s}), TornDown(shared, {job.s}))
                /\ UNCHANGED <<sharedSubs, consumer>>
       ELSE Untouched
    /\ turn' = Rest

Report(job) ==
    /\ job.do = "report"
    /\ turn' = [steps |-> <<Call("error", {})>>, in |-> job.c]
    /\ Untouched

\* External: Centrifuge stops a client, or a subscription, whose token is refused.
StopClient(job) ==
    /\ job.do = "refuseClient"
    /\ clients' = [clients EXCEPT ![job.n].state = IF @ = "connecting" THEN "disconnected" ELSE @]
    /\ turn' = Rest
    /\ UNCHANGED <<tables, shared, client, consumer>>

StopSubscription(job) ==
    /\ job.do = "refuseSub"
    /\ IF shared[job.s].sub = "subscribing"
       THEN /\ shared' = [shared EXCEPT ![job.s].sub = "unsubscribed"]
            /\ turn' = Doing(<<Deliver("close", job.s)>>)
       ELSE turn' = Rest /\ UNCHANGED shared
    /\ UNCHANGED <<tables, client, consumer, clients>>

RunMicrotask ==
    /\ turn.steps = <<>> /\ micro # <<>>
    /\ micro' = Tail(micro)
    /\ LET job == Head(micro)
       IN  \/ AttachWhenLoaded(job) \/ TellLate(job) \/ TeardownDue(job)
           \/ Report(job) \/ StopClient(job) \/ StopSubscription(job)
    /\ UNCHANGED <<loader, auth, authChanges, faults>>

-----------------------------------------------------------------------------
(* External events, each a task of the event loop.                         *)

LoaderSettles ==
    /\ Idle /\ loader.state = "loading"
    /\ \E ok \in BOOLEAN :
          /\ IF ok THEN UNCHANGED faults ELSE Fault("loadFails")
          /\ loader' = [state |-> IF ok THEN "loaded" ELSE "unloaded", waiting |-> <<>>]
          /\ micro' = [i \in DOMAIN loader.waiting |->
                          [do |-> "attach", s |-> loader.waiting[i].s,
                           epoch |-> loader.waiting[i].epoch, ok |-> ok]]
    /\ UNCHANGED <<tables, shared, client, consumer, turn, auth, authChanges, clients>>

ClientConnects(n) ==
    /\ Idle /\ clients[n].state = "connecting"
    /\ clients' = [clients EXCEPT ![n].state = "connected"]
    /\ UNCHANGED <<tables, shared, client, consumer, loader, micro, turn, auth, authChanges, faults>>

\* The connection drops and Centrifuge reconnects by itself.
ClientDrops(n) ==
    /\ Idle /\ clients[n].state = "connected" /\ Fault("drop")
    /\ clients' = [clients EXCEPT ![n].state = "connecting"]
    /\ shared' = Offline(shared, {n})
    /\ UNCHANGED <<tables, client, consumer, loader, micro, turn, auth, authChanges>>

\* "disconnected" for good.
ClientEnds(n) ==
    /\ Idle /\ client[clients[n].kind] = n /\ clients[n].state # "disconnected" /\ Fault("terminal")
    /\ Terminate({s \in Tracked(sharedSubs) \cup Tracked(pendingTeardowns) : shared[s].client = n},
                 {clients[n].kind})
    /\ UNCHANGED <<consumer, loader, micro, auth, authChanges>>

\* getToken of the private client fails; a client replaced meanwhile tells nobody.
ConnectionTokenFails(n) ==
    /\ Idle /\ client["private"] = n /\ clients[n].state = "connecting"
    /\ \/ Fault("token") /\ turn' = Doing(<<[do |-> "tokenError", done |-> {}]>>)
       \/ /\ Fault("tokenRefused")
          /\ turn' = Doing(<<[do |-> "tokenError", done |-> {}], Then([do |-> "refuseClient", n |-> n])>>)
    /\ UNCHANGED <<tables, shared, client, consumer, loader, micro, auth, authChanges, clients>>

IsLive(s) == shared[s].sub # "none" /\ clients[shared[s].client].state = "connected"

\* getToken of a private subscription fails, maybe after a silent disconnect().
SubscriptionTokenFails(s) ==
    /\ Idle /\ Kind(s) = "private" /\ shared[s].sub = "subscribing"
    /\ clients[shared[s].client].state # "connecting"
    /\ \/ Fault("token") /\ turn' = Doing(<<Deliver("error", s)>>)
       \/ /\ Fault("tokenRefused")
          /\ turn' = Doing(<<Deliver("error", s), Then([do |-> "refuseSub", s |-> s])>>)
    /\ UNCHANGED <<tables, shared, client, consumer, loader, micro, auth, authChanges, clients>>

ChannelSubscribed(s) ==
    /\ Idle /\ IsLive(s) /\ shared[s].sub = "subscribing"
    /\ shared' = [shared EXCEPT ![s].sub = "subscribed", ![s].subEpoch = @ + 1]
    /\ turn' = Doing(<<[Deliver("open", s) EXCEPT !.epoch = @ + 1]>>)
    /\ UNCHANGED <<tables, client, consumer, loader, micro, auth, authChanges, clients, faults>>

\* The server ends a subscription for good.
ChannelEnds(s) ==
    /\ Idle /\ IsLive(s) /\ shared[s].sub = "subscribed" /\ Fault("ended")
    /\ Terminate({s}, IdleKinds({s}))
    /\ UNCHANGED <<consumer, loader, micro, auth, authChanges>>

\* Something is published; an error event of the channel is passed on likewise.
Published(s) ==
    /\ Idle /\ IsLive(s) /\ shared[s].sub = "subscribed"
    /\ turn' = Doing(<<Deliver("publication", s)>>)
    /\ UNCHANGED <<tables, shared, client, consumer, loader, micro, auth, authChanges, clients, faults>>

\* The application signs in or out.
AuthChanges ==
    /\ Idle /\ authChanges < MaxAuthChanges
    /\ auth' = ~auth /\ authChanges' = authChanges + 1
    /\ UNCHANGED <<tables, shared, client, consumer, loader, micro, turn, clients, faults>>

-----------------------------------------------------------------------------

Init ==
    /\ sharedSubs = [ch \in Channels |-> NoShared]
    /\ pendingTeardowns = [ch \in Channels |-> NoShared]
    /\ shared = [s \in Shareds |-> NewShared(NoChannel)]
    /\ client = [k \in Kinds |-> 0]
    /\ consumer = [c \in Consumers |-> [s |-> NoShared, closed |-> FALSE, epoch |-> -1]]
    /\ loader \in [state : {"unloaded", "loaded"}, waiting : {<<>>}]
    /\ micro = <<>> /\ turn = Rest
    /\ auth \in BOOLEAN
    /\ clients = <<>>
    /\ faults = 0 /\ authChanges = 0

App == \/ \E c \in Consumers : Dispose(c) \/ \E ch \in Channels : Subscribe(c, ch)
       \/ Disconnect \/ DisconnectPrivate

Events == \/ LoaderSettles \/ AuthChanges
          \/ \E n \in DOMAIN clients : ClientConnects(n) \/ ClientDrops(n) \/ ClientEnds(n)
                                       \/ ConnectionTokenFails(n)
          \/ \E s \in Shareds : \/ SubscriptionTokenFails(s) \/ ChannelSubscribed(s)
                                 \/ ChannelEnds(s) \/ Published(s)

Next == App \/ Proceed \/ RunMicrotask \/ Events

Spec == Init /\ [][Next]_vars

\* What has begun is finished, and the event loop keeps none of these waiting
\* while it delivers publications.
Fairness == /\ WF_vars(Proceed) /\ WF_vars(RunMicrotask)
            /\ SF_vars(LoaderSettles)
            /\ \A n \in 1 .. Cardinality(Shareds) :
                  SF_vars(n \in DOMAIN clients /\ ClientConnects(n))
            /\ \A s \in Shareds : SF_vars(ChannelSubscribed(s))

FairSpec == Spec /\ Fairness
==============================================================================
