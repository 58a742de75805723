-------------------------- MODULE RealtimeClientProofs --------------------------
(* Proofs about RealtimeClient, for any channels, consumers and faults.    *)
EXTENDS RealtimeClientProperties, SequenceTheorems, FiniteSetTheorems, TLAPS

-----------------------------------------------------------------------------
(* Types of the helpers.                                                   *)

ClientRecords == [kind : Kinds, state : {"connecting", "connected", "disconnected"}]

LEMMA KindTypes == \A ch : KindOf(ch) \in Kinds
  BY DEF KindOf, Kinds

LEMMA AppendTypes ==
    ASSUME NEW S, NEW q \in Seq(S), NEW x \in S
    PROVE  Append(q, x) \in Seq(S) /\ Len(Append(q, x)) = Len(q) + 1
  OBVIOUS

LEMMA TailTypes ==
    ASSUME NEW S, NEW q \in Seq(S), q # <<>>
    PROVE  Tail(q) \in Seq(S) /\ Head(q) \in S
  OBVIOUS

LEMMA WithoutTypes ==
    ASSUME NEW t \in [Channels -> Shareds \cup {NoShared}], NEW S
    PROVE  Without(t, S) \in [Channels -> Shareds \cup {NoShared}]
  BY DEF Without

LEMMA TornDownTypes ==
    ASSUME NEW sh \in [Shareds -> Objects], NEW S
    PROVE  TornDown(sh, S) \in [Shareds -> Objects]
<1>1. ASSUME NEW s \in Shareds
      PROVE  [sh[s] EXCEPT !.sub = "none", !.client = 0, !.epoch = sh[s].epoch + 1] \in Objects
             /\ sh[s] \in Objects
  <2>1. sh[s] \in Objects
    OBVIOUS
  <2>2. sh[s].epoch + 1 \in Nat
    BY <2>1 DEF Objects
  <2>3. QED
    BY <2>1, <2>2 DEF Objects
<1>2. QED
  BY <1>1 DEF TornDown

LEMMA OfflineTypes ==
    ASSUME NEW sh \in [Shareds -> Objects], NEW dead
    PROVE  Offline(sh, dead) \in [Shareds -> Objects]
<1>1. ASSUME NEW s \in Shareds
      PROVE  [sh[s] EXCEPT !.sub = "subscribing"] \in Objects /\ sh[s] \in Objects
  BY DEF Objects
<1>2. QED
  BY <1>1 DEF Offline

LEMMA RetireTypes ==
    ASSUME TypeOK, NEW kinds, NEW sh \in [Shareds -> Objects], Retire(kinds, sh)
    PROVE  /\ client' \in [Kinds -> Nat] /\ shared' \in [Shareds -> Objects]
           /\ clients' \in Seq(ClientRecords) /\ Len(clients') = Len(clients)
<1>1. client \in [Kinds -> Nat] /\ clients \in Seq(ClientRecords)
  BY DEF TypeOK, ClientRecords
<1>2. client' \in [Kinds -> Nat]
  BY <1>1 DEF Retire
<1>3. shared' \in [Shareds -> Objects]
  BY OfflineTypes DEF Retire
<1>4. ASSUME NEW n \in DOMAIN clients
      PROVE  [clients[n] EXCEPT !.state = "disconnected"] \in ClientRecords /\ clients[n] \in ClientRecords
  <2>1. clients[n] \in ClientRecords
    BY <1>1
  <2>2. QED
    BY <2>1 DEF ClientRecords
<1>5. clients' \in Seq(ClientRecords) /\ Len(clients') = Len(clients)
  <2> DEFINE out(n) == IF n \in {client[k] : k \in kinds} \ {0}
                       THEN [clients[n] EXCEPT !.state = "disconnected"] ELSE clients[n]
  <2>1. clients' = [n \in 1 .. Len(clients) |-> out(n)] /\ Len(clients) \in Nat
    BY <1>1 DEF Retire
  <2>2. \A n \in 1 .. Len(clients) : out(n) \in ClientRecords
    BY <1>1, <1>4
  <2> HIDE DEF out
  <2>3. QED
    BY <2>1, <2>2
<1>6. QED
  BY <1>2, <1>3, <1>5

LEMMA AttachNowTypes ==
    ASSUME TypeOK, NEW sh \in [Shareds -> Objects], NEW s \in Shareds, NEW cl \in Seq(ClientRecords),
           AttachNow(sh, s, cl)
    PROVE  /\ client' \in [Kinds -> Nat] /\ shared' \in [Shareds -> Objects]
           /\ clients' \in Seq(ClientRecords)
<1> DEFINE k == KindOf(sh[s].channel)
           n == IF client[k] # 0 THEN client[k] ELSE Len(clients) + 1
<1>1. client \in [Kinds -> Nat] /\ clients \in Seq(ClientRecords) /\ k \in Kinds
  BY KindTypes DEF TypeOK, ClientRecords
<1>2. n \in Nat
  BY <1>1
<1>3. client' = [client EXCEPT ![k] = n]
      /\ shared' = [sh EXCEPT ![s] = [sh[s] EXCEPT !.sub = "subscribing", !.client = n]]
      /\ clients' = IF client[k] = 0 THEN Append(cl, [kind |-> k, state |-> "connecting"]) ELSE cl
  BY DEF AttachNow
<1> HIDE DEF n, k
<1>4. [sh[s] EXCEPT !.sub = "subscribing", !.client = n] \in Objects
  BY <1>2 DEF Objects
<1>5. [kind |-> k, state |-> "connecting"] \in ClientRecords
  BY <1>1 DEF ClientRecords
<1>6. QED
  BY <1>1, <1>2, <1>3, <1>4, <1>5

LEMMA SharedTypes ==
    ASSUME NEW sh \in [Shareds -> Objects], NEW s \in Shareds, NEW c \in Consumers
    PROVE  /\ Joined(sh, s, c) \in [Shareds -> Objects]
           /\ Restarted(sh, s) \in [Shareds -> Objects]
           /\ [sh EXCEPT ![s].sub = IF @ = "unsubscribed" THEN "subscribing" ELSE @] \in [Shareds -> Objects]
           /\ [sh EXCEPT ![s].epoch = @ + 1, ![s].consumers = @ + 1, ![s].handlers = @ \cup {c}]
                 \in [Shareds -> Objects]
<1>1. /\ sh[s] \in Objects /\ sh[s].consumers + 1 \in Nat /\ sh[s].handlers \cup {c} \in SUBSET Consumers
      /\ sh[s].epoch + 1 \in Nat
  <2>1. sh[s] \in Objects
    OBVIOUS
  <2>2. QED
    BY <2>1 DEF Objects
<1>2. [sh[s] EXCEPT !.consumers = sh[s].consumers + 1, !.handlers = sh[s].handlers \cup {c}] \in Objects
  BY <1>1 DEF Objects
<1>3. [sh[s] EXCEPT !.sub = "subscribing"] \in Objects /\ [sh[s] EXCEPT !.sub = sh[s].sub] \in Objects
  BY <1>1 DEF Objects
<1>4. [sh[s] EXCEPT !.epoch = sh[s].epoch + 1, !.consumers = sh[s].consumers + 1,
                    !.handlers = sh[s].handlers \cup {c}] \in Objects
  BY <1>1 DEF Objects
<1>5. QED
  BY <1>2, <1>3, <1>4 DEF Joined, Restarted

LEMMA ReconnectedTypes ==
    ASSUME TypeOK, NEW n \in Nat, NEW k
    PROVE  Reconnected(n, k) \in Seq(ClientRecords)
<1>1. clients \in Seq(ClientRecords)
  BY DEF TypeOK, ClientRecords
<1>2. ASSUME n \in DOMAIN clients
      PROVE  [clients EXCEPT ![n].state = "connecting"] \in Seq(ClientRecords)
  <2>1. clients[n] \in ClientRecords
    BY <1>1, <1>2
  <2>2. [clients[n] EXCEPT !.state = "connecting"] \in ClientRecords
    BY <2>1 DEF ClientRecords
  <2>3. QED
    BY <1>1, <1>2, <2>2
<1>3. n \notin DOMAIN clients => [clients EXCEPT ![n].state = "connecting"] = clients
  BY <1>1
<1>4. QED
  BY <1>1, <1>2, <1>3 DEF Reconnected

\* What is left as a microtask, or to a loader, of a subscribe.
LEMMA LaterTypes ==
    ASSUME TypeOK, NEW job \in Jobs, Later(job)
    PROVE  micro' \in Seq(Jobs)
  BY AppendTypes DEF Later, TypeOK

LEMMA ShareTypes ==
    ASSUME TypeOK, NEW c \in Consumers, NEW s \in Shareds, NEW sh \in [Shareds -> Objects],
           Share(c, s, sh)
    PROVE  /\ client' \in [Kinds -> Nat] /\ shared' \in [Shareds -> Objects]
           /\ clients' \in Seq(ClientRecords) /\ micro' \in Seq(Jobs) /\ loader' \in Loaders
<1>1. shared[s] \in Objects /\ micro \in Seq(Jobs) /\ client' = client /\ loader' = loader
  BY DEF Share, TypeOK
<1>2. shared[s].client \in Nat /\ shared[s].subEpoch \in Nat
  BY <1>1 DEF Objects
<1>3. shared' \in [Shareds -> Objects]
  BY SharedTypes DEF Share
<1>4. clients' \in Seq(ClientRecords)
  BY <1>2, ReconnectedTypes DEF Share
<1>5. [do |-> "late", c |-> c, s |-> s, epoch |-> shared[s].subEpoch] \in Jobs
  BY <1>2 DEF Jobs
<1>6. micro' \in Seq(Jobs)
  BY <1>1, <1>5, LaterTypes DEF Share
<1>7. QED
  BY <1>1, <1>3, <1>4, <1>6 DEF TypeOK

LEMMA AttachTypes ==
    ASSUME TypeOK, NEW c \in Consumers, NEW s \in Shareds, NEW sh \in [Shareds -> Objects],
           Attach(c, s, sh)
    PROVE  /\ client' \in [Kinds -> Nat] /\ shared' \in [Shareds -> Objects]
           /\ clients' \in Seq(ClientRecords) /\ micro' \in Seq(Jobs) /\ loader' \in Loaders
<1> DEFINE joined == [sh EXCEPT ![s].epoch = @ + 1, ![s].consumers = @ + 1, ![s].handlers = @ \cup {c}]
           k == KindOf(sh[s].channel)
<1>1. joined \in [Shareds -> Objects]
  BY SharedTypes
<1>2. CASE loader.state = "loaded"
  <2>1. AttachNow(joined, s, Reconnected(client[k], k)) /\ micro' = micro /\ loader' = loader
    BY <1>2 DEF Attach
  <2>2. client[k] \in Nat
    BY KindTypes DEF TypeOK
  <2> HIDE DEF joined, k
  <2>3. Reconnected(client[k], k) \in Seq(ClientRecords)
    BY <2>2, ReconnectedTypes
  <2>4. QED
    BY <1>1, <2>1, <2>3, AttachNowTypes DEF TypeOK
<1>3. CASE loader.state # "loaded"
  <2>1. /\ shared' = joined /\ UNCHANGED <<client, clients, micro>>
        /\ loader' = [state |-> "loading",
                      waiting |-> Append(loader.waiting, [s |-> s, epoch |-> joined[s].epoch])]
    BY <1>3 DEF Attach
  <2>2. joined[s] \in Objects
    BY <1>1
  <2> HIDE DEF joined
  <2>3. [s |-> s, epoch |-> joined[s].epoch] \in [s : Shareds, epoch : Nat]
    BY <2>2 DEF Objects
  <2>4. loader.waiting \in Seq([s : Shareds, epoch : Nat])
    BY DEF TypeOK, Loaders
  <2>5. Append(loader.waiting, [s |-> s, epoch |-> joined[s].epoch]) \in Seq([s : Shareds, epoch : Nat])
    BY <2>3, <2>4, AppendTypes
  <2>6. loader' \in Loaders
    BY <2>1, <2>5 DEF Loaders
  <2>7. QED
    BY <1>1, <2>1, <2>6 DEF TypeOK, ClientRecords
<1>4. QED
  BY <1>2, <1>3

LEMMA RefuseTypes ==
    ASSUME TypeOK, NEW c \in Consumers, Refuse(c)
    PROVE  /\ client' \in [Kinds -> Nat] /\ shared' \in [Shareds -> Objects]
           /\ clients' \in Seq(ClientRecords) /\ micro' \in Seq(Jobs) /\ loader' \in Loaders
           /\ consumer' \in [Consumers -> Closures]
<1>1. consumer[c] \in Closures
  BY DEF TypeOK
<1>2. [consumer[c] EXCEPT !.closed = TRUE] \in Closures
  BY <1>1 DEF Closures
<1>3. [do |-> "report", c |-> c] \in Jobs
  BY DEF Jobs
<1>4. micro' \in Seq(Jobs)
  BY <1>3, LaterTypes DEF Refuse
<1>5. consumer' = [consumer EXCEPT ![c] = [consumer[c] EXCEPT !.closed = TRUE]]
  BY DEF Refuse
<1>6. QED
  BY <1>2, <1>4, <1>5 DEF Refuse, TypeOK, ClientRecords

-----------------------------------------------------------------------------
(* Types of the calls.                                                     *)

LEMMA HoldsTypes ==
    ASSUME TypeOK, NEW c \in Consumers, NEW s \in Shareds, Holds(c, s)
    PROVE  consumer' \in [Consumers -> Closures]
<1>1. consumer[c] \in Closures
  BY DEF TypeOK
<1>2. [consumer[c] EXCEPT !.s = s] \in Closures
  BY <1>1 DEF Closures
<1>3. QED
  BY <1>2 DEF Holds, TypeOK

LEMMA NewSharedTypes ==
    ASSUME NEW ch \in Channels \cup {NoChannel}
    PROVE  NewShared(ch) \in Objects
  BY DEF NewShared, Objects

LEMMA SubscribeTypes ==
    ASSUME TypeOK, NEW c \in Consumers, NEW ch \in Channels, Subscribe(c, ch)
    PROVE  TypeOK'
<1>1. /\ sharedSubs \in [Channels -> Shareds \cup {NoShared}]
      /\ pendingTeardowns \in [Channels -> Shareds \cup {NoShared}]
      /\ shared \in [Shareds -> Objects]
  BY DEF TypeOK
<1>2. UNCHANGED <<turn, auth, authChanges, faults>>
  BY DEF Subscribe
<1>3. SUFFICES /\ sharedSubs' \in [Channels -> Shareds \cup {NoShared}]
               /\ pendingTeardowns' \in [Channels -> Shareds \cup {NoShared}]
               /\ client' \in [Kinds -> Nat] /\ shared' \in [Shareds -> Objects]
               /\ clients' \in Seq(ClientRecords) /\ micro' \in Seq(Jobs) /\ loader' \in Loaders
               /\ consumer' \in [Consumers -> Closures]
  BY <1>2 DEF TypeOK, ClientRecords
<1>4. CASE SubscribeExisting(c, ch)
  <2>1. sharedSubs[ch] \in Shareds /\ UNCHANGED tables
    BY <1>1, <1>4 DEF SubscribeExisting
  <2>2. Share(c, sharedSubs[ch], shared) /\ Holds(c, sharedSubs[ch])
    BY <1>4 DEF SubscribeExisting
  <2>3. QED
    BY <1>1, <2>1, <2>2, ShareTypes, HoldsTypes DEF tables
<1>5. CASE Revive(c, ch)
  <2> DEFINE s == pendingTeardowns[ch]
  <2>1. s \in Shareds
    BY <1>1, <1>5 DEF Revive
  <2>2. /\ sharedSubs' = [sharedSubs EXCEPT ![ch] = s]
        /\ pendingTeardowns' = [pendingTeardowns EXCEPT ![ch] = NoShared]
    BY <1>5 DEF Revive
  <2>3. /\ sharedSubs' \in [Channels -> Shareds \cup {NoShared}]
        /\ pendingTeardowns' \in [Channels -> Shareds \cup {NoShared}]
    BY <1>1, <2>1, <2>2
  <2>4. \/ Share(c, s, Resumed(s)) /\ Holds(c, s)
        \/ Refuse(c)
        \/ Attach(c, s, shared) /\ Holds(c, s)
    BY <1>5 DEF Revive
  <2> HIDE DEF s
  <2>5. Resumed(s) \in [Shareds -> Objects]
    BY <1>1, <2>1, SharedTypes DEF Resumed
  <2>6. QED
    BY <1>1, <2>1, <2>3, <2>4, <2>5, ShareTypes, AttachTypes, RefuseTypes, HoldsTypes
<1>6. CASE SubscribeNew(c, ch)
  <2>1. pendingTeardowns' = pendingTeardowns
    BY <1>6 DEF SubscribeNew
  <2>2. CASE Refuse(c) /\ UNCHANGED sharedSubs
    BY <1>1, <2>1, <2>2, RefuseTypes
  <2>3. ASSUME NEW s \in Shareds, sharedSubs' = [sharedSubs EXCEPT ![ch] = s],
               Attach(c, s, [shared EXCEPT ![s] = NewShared(ch)]), Holds(c, s)
        PROVE  /\ sharedSubs' \in [Channels -> Shareds \cup {NoShared}]
               /\ client' \in [Kinds -> Nat] /\ shared' \in [Shareds -> Objects]
               /\ clients' \in Seq(ClientRecords) /\ micro' \in Seq(Jobs) /\ loader' \in Loaders
               /\ consumer' \in [Consumers -> Closures]
    <3>1. [shared EXCEPT ![s] = NewShared(ch)] \in [Shareds -> Objects]
      BY <1>1, NewSharedTypes
    <3>2. QED
      BY <1>1, <2>3, <3>1, AttachTypes, HoldsTypes
  <2>4. QED
    BY <1>1, <1>6, <2>1, <2>2, <2>3 DEF SubscribeNew
<1>7. QED
  BY <1>4, <1>5, <1>6 DEF Subscribe

LEMMA UnmetTypes ==
    ASSUME NEW step \in Steps, NEW s
    PROVE  Unmet(step, s) \in Steps
<1>1. CASE step.do = "tokenError"
  <2>1. step \in [do : {"tokenError"}, done : SUBSET Shareds]
    BY <1>1 DEF Steps
  <2>2. [step EXCEPT !.done = step.done \ {s}] \in [do : {"tokenError"}, done : SUBSET Shareds]
    BY <2>1
  <2>3. QED
    BY <1>1, <2>2 DEF Steps, Unmet
<1>2. CASE step.do # "tokenError"
  BY <1>2 DEF Unmet
<1>3. QED
  BY <1>1, <1>2

TurnTypes == [steps : Seq(Steps), in : Consumers \cup {NoConsumer}]

LEMMA MetAgainTypes ==
    ASSUME TypeOK, NEW s
    PROVE  MetAgain(s) \in TurnTypes
<1>1. turn \in [steps : Seq(Steps), in : Consumers \cup {NoConsumer}]
  BY DEF TypeOK
<1>2. turn.steps \in Seq(Steps) /\ Len(turn.steps) \in Nat /\ DOMAIN turn.steps = 1 .. Len(turn.steps)
  BY <1>1
<1>3. ASSUME NEW i \in 1 .. Len(turn.steps) PROVE Unmet(turn.steps[i], s) \in Steps
  BY <1>2, UnmetTypes
<1>4. MetAgain(s) = [turn EXCEPT !.steps = [i \in 1 .. Len(turn.steps) |-> Unmet(turn.steps[i], s)]]
  BY <1>2 DEF MetAgain
<1>5. [i \in 1 .. Len(turn.steps) |-> Unmet(turn.steps[i], s)] \in Seq(Steps)
  BY <1>2, <1>3
<1>6. QED
  BY <1>1, <1>4, <1>5 DEF TurnTypes

LEMMA DisposeTypes ==
    ASSUME TypeOK, NEW c \in Consumers, Dispose(c), shared[consumer[c].s].consumers > 0
    PROVE  TypeOK'
<1> DEFINE s == consumer[c].s
           last == shared[s].consumers <= 1 /\ IsTracked(s)
<1>1. /\ consumer[c] \in Closures /\ consumer \in [Consumers -> Closures]
      /\ shared \in [Shareds -> Objects]
      /\ sharedSubs \in [Channels -> Shareds \cup {NoShared}]
      /\ pendingTeardowns \in [Channels -> Shareds \cup {NoShared}]
  BY DEF TypeOK
<1>2. s \in Shareds
  BY <1>1 DEF Dispose, Disposable, Closures
<1>3. shared[s] \in Objects
  BY <1>1, <1>2
<1>4. /\ shared' = [shared EXCEPT ![s] = [shared[s] EXCEPT !.consumers = shared[s].consumers - 1,
                                                          !.handlers = shared[s].handlers \ {c}]]
      /\ consumer' = [consumer EXCEPT ![c] = [consumer[c] EXCEPT !.closed = TRUE]]
      /\ UNCHANGED <<client, loader, auth, authChanges, clients, faults>>
  BY DEF Dispose
<1>5. shared' \in [Shareds -> Objects]
  <2>1. shared[s].consumers - 1 \in Nat /\ shared[s].handlers \ {c} \in SUBSET Consumers
    BY <1>3 DEF Objects
  <2>2. [shared[s] EXCEPT !.consumers = shared[s].consumers - 1,
                          !.handlers = shared[s].handlers \ {c}] \in Objects
    BY <1>3, <2>1 DEF Objects
  <2>3. QED
    BY <1>1, <1>4, <2>2
<1>6. consumer' \in [Consumers -> Closures]
  <2>1. [consumer[c] EXCEPT !.closed = TRUE] \in Closures
    BY <1>1 DEF Closures
  <2>2. QED
    BY <1>1, <1>4, <2>1
<1>7. SUFFICES /\ sharedSubs' \in [Channels -> Shareds \cup {NoShared}]
               /\ pendingTeardowns' \in [Channels -> Shareds \cup {NoShared}]
               /\ micro' \in Seq(Jobs) /\ turn' \in TurnTypes
  BY <1>4, <1>5, <1>6 DEF TypeOK, TurnTypes
<1>8. CASE last
  <2>1. /\ sharedSubs' = Without(sharedSubs, {s})
        /\ pendingTeardowns' = [pendingTeardowns EXCEPT ![shared[s].channel] = s]
        /\ Later([do |-> "teardown", s |-> s])
        /\ turn' = MetAgain(s)
    BY <1>8 DEF Dispose
  <2>2. [do |-> "teardown", s |-> s] \in Jobs
    BY <1>2 DEF Jobs
  <2> HIDE DEF s
  <2>3. QED
    BY <1>1, <1>2, <2>1, <2>2, WithoutTypes, LaterTypes, MetAgainTypes
<1>9. CASE ~last
  <2>1. UNCHANGED <<tables, micro, turn>>
    BY <1>9 DEF Dispose
  <2>2. QED
    BY <2>1 DEF TypeOK, TurnTypes, tables
<1>10. QED
  BY <1>8, <1>9

LEMMA RetiringTypes ==
    ASSUME TypeOK, NEW S, NEW T, NEW kinds, NEW sh \in [Shareds -> Objects],
           sharedSubs' = Without(sharedSubs, S), pendingTeardowns' = Without(pendingTeardowns, T),
           Retire(kinds, sh)
    PROVE  /\ sharedSubs' \in [Channels -> Shareds \cup {NoShared}]
           /\ pendingTeardowns' \in [Channels -> Shareds \cup {NoShared}]
           /\ client' \in [Kinds -> Nat] /\ shared' \in [Shareds -> Objects]
           /\ clients' \in Seq(ClientRecords)
<1>1. /\ sharedSubs \in [Channels -> Shareds \cup {NoShared}]
      /\ pendingTeardowns \in [Channels -> Shareds \cup {NoShared}]
  BY DEF TypeOK
<1>2. QED
  BY <1>1, WithoutTypes, RetireTypes

LEMMA DisconnectTypes ==
    ASSUME TypeOK, Disconnect \/ DisconnectPrivate
    PROVE  TypeOK'
<1>1. shared \in [Shareds -> Objects]
  BY DEF TypeOK
<1>2. SUFFICES /\ sharedSubs' \in [Channels -> Shareds \cup {NoShared}]
               /\ pendingTeardowns' \in [Channels -> Shareds \cup {NoShared}]
               /\ client' \in [Kinds -> Nat] /\ shared' \in [Shareds -> Objects]
               /\ clients' \in Seq(ClientRecords)
  <2>1. UNCHANGED <<consumer, loader, micro, turn, auth, authChanges, faults>>
    BY DEF Disconnect, DisconnectPrivate
  <2>2. QED
    BY <1>2, <2>1 DEF TypeOK, ClientRecords
<1>3. CASE Disconnect
  BY <1>1, <1>3, RetiringTypes DEF Disconnect
<1>4. CASE DisconnectPrivate
  <2> DEFINE S == {s \in Tracked(sharedSubs) \cup Tracked(pendingTeardowns) : Kind(s) = "private"}
  <2>1. /\ sharedSubs' = Without(sharedSubs, S) /\ pendingTeardowns' = Without(pendingTeardowns, S)
        /\ Retire({"private"}, TornDown(shared, S))
    BY <1>4 DEF DisconnectPrivate
  <2> HIDE DEF S
  <2>2. TornDown(shared, S) \in [Shareds -> Objects]
    BY <1>1, TornDownTypes
  <2>3. QED
    BY <2>1, <2>2, RetiringTypes
<1>5. QED
  BY <1>3, <1>4

-----------------------------------------------------------------------------
(* Types of a turn, of microtasks and of events.                           *)

LEMMA TurnsType ==
    ASSUME TypeOK
    PROVE  turn \in TurnTypes /\ turn.steps \in Seq(Steps)
  BY DEF TypeOK, TurnTypes

LEMMA DoingTypes ==
    /\ Rest \in TurnTypes
    /\ \A x \in Steps : Doing(<<x>>) \in TurnTypes
    /\ \A x, y \in Steps : Doing(<<x, y>>) \in TurnTypes
  BY DEF Rest, Doing, TurnTypes

LEMMA DeliverTypes ==
    ASSUME TypeOK, NEW what \in News, NEW s \in Shareds
    PROVE  /\ Deliver(what, s) \in Steps
           /\ [Deliver(what, s) EXCEPT !.epoch = shared[s].subEpoch + 1] \in Steps
           /\ shared[s].subEpoch \in Nat /\ shared[s] \in Objects
           /\ Deliver(what, s).epoch = shared[s].subEpoch
<1>1. shared[s] \in Objects
  BY DEF TypeOK
<1>2. shared[s].subEpoch \in Nat
  BY <1>1 DEF Objects
<1>3. QED
  BY <1>1, <1>2 DEF Deliver, Steps

LEMMA CallTypes == \A what \in News, who \in SUBSET Consumers : Call(what, who) \in Steps
  BY DEF Call, Steps

LEMMA ReplacedTypes ==
    ASSUME TypeOK, turn.steps # <<>>, NEW steps \in Seq(Steps), NEW in \in Consumers \cup {NoConsumer},
           Replaced(steps, in)
    PROVE  turn' \in TurnTypes
<1>1. Tail(turn.steps) \in Seq(Steps)
  BY TurnsType
<1>2. steps \o Tail(turn.steps) \in Seq(Steps)
  BY <1>1
<1>3. QED
  BY <1>2 DEF Replaced, TurnTypes

LEMMA ProceedTypes ==
    ASSUME TypeOK, Proceed
    PROVE  TypeOK'
<1> DEFINE step == Head(turn.steps)
<1>1. step \in Steps /\ turn.steps # <<>> /\ consumer \in [Consumers -> Closures]
  BY TurnsType DEF Proceed, TypeOK
<1>2. SUFFICES turn' \in TurnTypes /\ consumer' \in [Consumers -> Closures] /\ micro' \in Seq(Jobs)
  <2>1. UNCHANGED <<tables, shared, client, loader, auth, authChanges, clients, faults>>
    BY DEF Proceed
  <2>2. QED
    BY <1>2, <2>1 DEF TypeOK, TurnTypes, tables
<1>3. \/ CallLive(step) \/ CallCollected(step) \/ NextEnd(step)
      \/ NextTokenError(step) \/ StepDone(step)
  BY DEF Proceed
<1> HIDE DEF step
<1>4. CASE CallLive(step)
  <2>1. step \in [do : {"deliver"}, what : News, s : Shareds, epoch : Nat, done : SUBSET Consumers]
        /\ step.s \in Shareds
    BY <1>1, <1>4 DEF CallLive, Steps
  <2>2. PICK c \in Callable(step) :
           /\ Replaced(<<[step EXCEPT !.done = step.done \cup {c}]>>, c)
           /\ consumer' = Heard(c, step)
    BY <1>4 DEF CallLive
  <2>3. c \in Consumers
    BY <2>1, <2>2 DEF Callable, TypeOK, Objects
  <2>4. [step EXCEPT !.done = step.done \cup {c}] \in Steps
    BY <2>1, <2>3 DEF Steps
  <2>5. turn' \in TurnTypes
    <3>1. <<[step EXCEPT !.done = step.done \cup {c}]>> \in Seq(Steps)
      BY <2>4
    <3>2. QED
      BY <1>1, <2>2, <2>3, <3>1, ReplacedTypes
  <2>6. consumer' \in [Consumers -> Closures]
    <3>1. consumer[c] \in Closures
      BY <1>1, <2>3
    <3>2. [consumer[c] EXCEPT !.epoch = step.epoch] \in Closures
      BY <2>1, <3>1 DEF Closures
    <3>3. QED
      BY <1>1, <2>2, <2>3, <3>2 DEF Heard
  <2>7. QED
    BY <1>4, <2>5, <2>6 DEF CallLive, TypeOK
<1>5. CASE CallCollected(step)
  <2>1. step \in [do : {"call"}, what : News, who : SUBSET Consumers]
    BY <1>1, <1>5 DEF CallCollected, Steps
  <2>2. PICK c \in step.who : Replaced(<<[step EXCEPT !.who = step.who \ {c}]>>, c)
    BY <1>5 DEF CallCollected
  <2>3. c \in Consumers /\ [step EXCEPT !.who = step.who \ {c}] \in Steps
    BY <2>1, <2>2 DEF Steps
  <2>4. <<[step EXCEPT !.who = step.who \ {c}]>> \in Seq(Steps)
    BY <2>3
  <2>5. turn' \in TurnTypes
    BY <1>1, <2>2, <2>3, <2>4, ReplacedTypes
  <2>6. QED
    BY <1>5, <2>5 DEF CallCollected, TypeOK
<1>6. CASE NextEnd(step)
  <2>1. step \in [do : {"end"}, left : SUBSET SUBSET Consumers]
    BY <1>1, <1>6 DEF NextEnd, Steps
  <2>2. PICK who \in step.left :
           Replaced(<<Call("error", who), Call("close", who), [step EXCEPT !.left = step.left \ {who}]>>,
                    NoConsumer)
    BY <1>6 DEF NextEnd
  <2>3. who \in SUBSET Consumers /\ [step EXCEPT !.left = step.left \ {who}] \in Steps
    BY <2>1, <2>2 DEF Steps
  <2>4. Call("error", who) \in Steps /\ Call("close", who) \in Steps
    BY <2>3, CallTypes DEF News
  <2>5. <<Call("error", who), Call("close", who), [step EXCEPT !.left = step.left \ {who}]>> \in Seq(Steps)
    BY <2>3, <2>4
  <2>6. QED
    BY <1>1, <1>6, <2>2, <2>5, ReplacedTypes DEF NextEnd, TypeOK
<1>7. CASE NextTokenError(step)
  <2>1. step \in [do : {"tokenError"}, done : SUBSET Shareds]
    BY <1>1, <1>7 DEF NextTokenError, Steps
  <2>2. PICK s \in ToReport(step) :
           Replaced(<<Deliver("error", s), [step EXCEPT !.done = step.done \cup {s}]>>, NoConsumer)
    BY <1>7 DEF NextTokenError
  <2>3. s \in Shareds
    BY <2>2 DEF ToReport, Tracked, TypeOK
  <2>4. Deliver("error", s) \in Steps /\ [step EXCEPT !.done = step.done \cup {s}] \in Steps
    BY <2>1, <2>3, DeliverTypes DEF Steps, News
  <2>5. <<Deliver("error", s), [step EXCEPT !.done = step.done \cup {s}]>> \in Seq(Steps)
    BY <2>4
  <2>6. QED
    BY <1>1, <1>7, <2>2, <2>5, ReplacedTypes DEF NextTokenError, TypeOK
<1>8. CASE StepDone(step)
  <2>1. turn' \in TurnTypes
    <3>1. <<>> \in Seq(Steps) /\ Replaced(<<>>, NoConsumer)
      BY <1>8 DEF StepDone
    <3>2. QED
      BY <1>1, <3>1, ReplacedTypes
  <2>2. micro' \in Seq(Jobs)
    <3>1. CASE UNCHANGED micro
      BY <3>1 DEF TypeOK
    <3>2. CASE step.do = "then" /\ Later(step.job)
      <4>1. step \in [do : {"then"}, job : Refusals]
        BY <1>1, <3>2 DEF Steps
      <4>2. step.job \in Jobs
        BY <4>1 DEF Jobs
      <4>3. QED
        BY <3>2, <4>2, LaterTypes
    <3>3. QED
      BY <1>8, <3>1, <3>2 DEF StepDone
  <2>3. QED
    BY <1>8, <2>1, <2>2 DEF StepDone, TypeOK
<1>9. QED
  BY <1>3, <1>4, <1>5, <1>6, <1>7, <1>8

LEMMA MicrotaskTypes ==
    ASSUME TypeOK, RunMicrotask
    PROVE  TypeOK'
<1> DEFINE job == Head(micro)
<1>1. job \in Jobs /\ micro' \in Seq(Jobs) /\ shared \in [Shareds -> Objects]
      /\ clients \in Seq(ClientRecords) /\ consumer \in [Consumers -> Closures]
  BY DEF RunMicrotask, TypeOK, ClientRecords
<1>2. UNCHANGED <<loader, auth, authChanges, faults>>
  BY DEF RunMicrotask
<1>3. \/ AttachWhenLoaded(job) \/ TellLate(job) \/ TeardownDue(job)
      \/ Report(job) \/ StopClient(job) \/ StopSubscription(job)
  BY DEF RunMicrotask
<1> HIDE DEF job
<1>4. SUFFICES /\ sharedSubs' \in [Channels -> Shareds \cup {NoShared}]
               /\ pendingTeardowns' \in [Channels -> Shareds \cup {NoShared}]
               /\ client' \in [Kinds -> Nat] /\ shared' \in [Shareds -> Objects]
               /\ clients' \in Seq(ClientRecords)
               /\ consumer' \in [Consumers -> Closures] /\ turn' \in TurnTypes
  BY <1>1, <1>2, <1>4 DEF TypeOK, TurnTypes, ClientRecords
<1>5. CASE AttachWhenLoaded(job)
  <2>1. job \in [do : {"attach"}, s : Shareds, epoch : Nat, ok : BOOLEAN] /\ job.s \in Shareds
    BY <1>1, <1>5 DEF AttachWhenLoaded, Jobs, Refusals
  <2>2. CASE /\ sharedSubs' = Without(sharedSubs, {job.s})
             /\ turn' = Doing(<<Deliver("error", job.s)>>)
             /\ UNCHANGED <<pendingTeardowns, shared, client, consumer, clients>>
    <3>1. turn' \in TurnTypes
      BY <2>1, <2>2, DoingTypes, DeliverTypes DEF News
    <3>2. sharedSubs' \in [Channels -> Shareds \cup {NoShared}]
      BY <2>2, WithoutTypes DEF TypeOK
    <3>3. QED
      BY <2>2, <3>1, <3>2 DEF TypeOK, ClientRecords
  <2>3. CASE AttachNow(shared, job.s, clients) /\ turn' = Rest /\ UNCHANGED <<tables, consumer>>
    <3>1. turn' \in TurnTypes
      BY <2>3, DoingTypes
    <3>2. /\ client' \in [Kinds -> Nat] /\ shared' \in [Shareds -> Objects]
          /\ clients' \in Seq(ClientRecords)
      BY <1>1, <2>1, <2>3, AttachNowTypes
    <3>3. QED
      BY <2>3, <3>1, <3>2 DEF TypeOK, tables
  <2>4. CASE turn' = Rest /\ Untouched
    BY <2>4, DoingTypes DEF Untouched, TypeOK, tables, ClientRecords
  <2>5. QED
    BY <1>5, <2>2, <2>3, <2>4 DEF AttachWhenLoaded
<1>6. CASE TellLate(job)
  <2>1. job \in [do : {"late"}, c : Consumers, s : Shareds, epoch : Nat]
    BY <1>1, <1>6 DEF TellLate, Jobs, Refusals
  <2>2. job.c \in Consumers /\ consumer[job.c] \in Closures /\ job.epoch \in Nat
    BY <1>1, <2>1
  <2>3. [consumer[job.c] EXCEPT !.epoch = job.epoch] \in Closures
    BY <2>2 DEF Closures
  <2>4. consumer' \in [Consumers -> Closures]
    BY <1>1, <1>6, <2>2, <2>3 DEF TellLate
  <2>5. Call("open", {}) \in Steps
    BY CallTypes DEF News
  <2>6. turn' \in TurnTypes
    <3>1. <<Call("open", {})>> \in Seq(Steps)
      BY <2>5
    <3>2. [steps |-> <<Call("open", {})>>, in |-> job.c] \in TurnTypes
      BY <2>2, <3>1 DEF TurnTypes
    <3>3. QED
      BY <1>6, <3>2, DoingTypes DEF TellLate
  <2>7. UNCHANGED <<tables, shared, client, clients>>
    BY <1>6 DEF TellLate
  <2>8. QED
    BY <2>4, <2>6, <2>7 DEF TypeOK, tables, ClientRecords
<1>7. CASE TeardownDue(job)
  <2>1. turn' \in TurnTypes
    BY <1>7, DoingTypes DEF TeardownDue
  <2>2. CASE IsDue(job.s)
    <3> DEFINE rest == (Tracked(sharedSubs) \cup Tracked(pendingTeardowns)) \ {job.s}
               kinds == IF rest = {} THEN Kinds ELSE IdleKinds({job.s})
    <3>1. /\ pendingTeardowns' = Without(pendingTeardowns, {job.s})
          /\ Retire(kinds, TornDown(shared, {job.s})) /\ UNCHANGED <<sharedSubs, consumer>>
      BY <1>7, <2>2 DEF TeardownDue
    <3> HIDE DEF kinds
    <3>2. TornDown(shared, {job.s}) \in [Shareds -> Objects]
      BY <1>1, TornDownTypes
    <3>3. /\ client' \in [Kinds -> Nat] /\ shared' \in [Shareds -> Objects]
          /\ clients' \in Seq(ClientRecords)
      BY <3>1, <3>2, RetireTypes
    <3>4. /\ pendingTeardowns' \in [Channels -> Shareds \cup {NoShared}]
      BY <3>1, WithoutTypes DEF TypeOK
    <3>5. QED
      BY <2>1, <3>1, <3>3, <3>4 DEF TypeOK
  <2>3. CASE ~IsDue(job.s)
    BY <1>7, <2>1, <2>3 DEF TeardownDue, Untouched, TypeOK, tables, ClientRecords
  <2>4. QED
    BY <2>2, <2>3
<1>8. CASE Report(job)
  <2>1. job \in [do : {"report"}, c : Consumers] /\ job.c \in Consumers
    BY <1>1, <1>8 DEF Report, Jobs, Refusals
  <2>2. Call("error", {}) \in Steps
    BY CallTypes DEF News
  <2>3. turn' \in TurnTypes
    BY <1>8, <2>1, <2>2 DEF Report, TurnTypes
  <2>4. QED
    BY <1>8, <2>3 DEF Report, Untouched, TypeOK, tables, ClientRecords
<1>9. CASE StopClient(job)
  <2>1. job.n \in Nat
    BY <1>1, <1>9 DEF StopClient, Jobs, Refusals
  <2>2. clients' \in Seq(ClientRecords)
    <3> DEFINE after == [clients[job.n] EXCEPT !.state = IF clients[job.n].state = "connecting"
                                                         THEN "disconnected" ELSE clients[job.n].state]
    <3>1. clients' = [clients EXCEPT ![job.n] = after]
      BY <1>9 DEF StopClient
    <3> HIDE DEF after
    <3>2. CASE job.n \in DOMAIN clients
      <4>1. clients[job.n] \in ClientRecords
        BY <1>1, <3>2
      <4>2. after \in ClientRecords
        BY <4>1 DEF ClientRecords, after
      <4>3. QED
        BY <1>1, <3>1, <3>2, <4>2
    <3>3. CASE job.n \notin DOMAIN clients
      <4>1. \A x : [clients EXCEPT ![job.n] = x] = clients
        BY <1>1, <3>3
      <4>2. clients' = clients
        BY <3>1, <4>1
      <4>3. QED
        BY <1>1, <4>2
    <3>4. QED
      BY <3>2, <3>3
  <2>3. turn' \in TurnTypes /\ UNCHANGED <<tables, shared, client, consumer>>
    BY <1>9, DoingTypes DEF StopClient
  <2>4. QED
    BY <2>2, <2>3 DEF TypeOK, tables
<1>10. CASE StopSubscription(job)
  <2>1. job.s \in Shareds
    BY <1>1, <1>10 DEF StopSubscription, Jobs, Refusals
  <2>2. turn' \in TurnTypes
    BY <1>10, <2>1, DoingTypes, DeliverTypes DEF StopSubscription, News
  <2>3. shared' \in [Shareds -> Objects]
    <3>1. shared[job.s] \in Objects
      BY <1>1, <2>1
    <3>2. [shared[job.s] EXCEPT !.sub = "unsubscribed"] \in Objects
      BY <3>1 DEF Objects
    <3>3. QED
      BY <1>1, <1>10, <3>2 DEF StopSubscription
  <2>4. UNCHANGED <<tables, client, consumer, clients>>
    BY <1>10 DEF StopSubscription
  <2>5. QED
    BY <2>2, <2>3, <2>4 DEF TypeOK, tables, ClientRecords
<1>11. QED
  BY <1>3, <1>5, <1>6, <1>7, <1>8, <1>9, <1>10

LEMMA FaultTypes == ASSUME TypeOK, NEW kind, Fault(kind) PROVE faults' \in Nat
  BY DEF Fault, TypeOK

LEMMA RefusalTypes ==
    /\ \A n \in Nat \ {0} : Then([do |-> "refuseClient", n |-> n]) \in Steps
    /\ \A s \in Shareds : Then([do |-> "refuseSub", s |-> s]) \in Steps
  BY DEF Then, Steps, Refusals

LEMMA LoaderTypes ==
    ASSUME TypeOK, LoaderSettles
    PROVE  TypeOK'
<1>1. loader.waiting \in Seq([s : Shareds, epoch : Nat])
  BY DEF TypeOK, Loaders
<1>2. PICK ok \in BOOLEAN :
         /\ IF ok THEN UNCHANGED faults ELSE Fault("loadFails")
         /\ loader' = [state |-> IF ok THEN "loaded" ELSE "unloaded", waiting |-> <<>>]
         /\ micro' = [i \in DOMAIN loader.waiting |->
                         [do |-> "attach", s |-> loader.waiting[i].s,
                          epoch |-> loader.waiting[i].epoch, ok |-> ok]]
  BY DEF LoaderSettles
<1>3. loader' \in Loaders
  BY <1>2 DEF Loaders
<1>4. micro' \in Seq(Jobs)
  <2>1. Len(loader.waiting) \in Nat /\ DOMAIN loader.waiting = 1 .. Len(loader.waiting)
    BY <1>1
  <2>2. ASSUME NEW i \in 1 .. Len(loader.waiting)
        PROVE  [do |-> "attach", s |-> loader.waiting[i].s,
                epoch |-> loader.waiting[i].epoch, ok |-> ok] \in Jobs
    <3>1. loader.waiting[i] \in [s : Shareds, epoch : Nat]
      BY <1>1, ElementOfSeq
    <3>2. loader.waiting[i].s \in Shareds /\ loader.waiting[i].epoch \in Nat
      BY <3>1
    <3>3. QED
      BY <3>2 DEF Jobs
  <2>3. QED
    BY <1>2, <2>1, <2>2
<1>5. faults' \in Nat
  BY <1>2, FaultTypes DEF TypeOK
<1>6. QED
  BY <1>3, <1>4, <1>5 DEF LoaderSettles, TypeOK, tables

LEMMA ClientEventTypes ==
    ASSUME TypeOK, NEW n \in DOMAIN clients, ClientConnects(n) \/ ClientDrops(n) \/ ConnectionTokenFails(n)
    PROVE  TypeOK'
<1>1. clients \in Seq(ClientRecords) /\ clients[n] \in ClientRecords /\ n \in Nat \ {0}
      /\ shared \in [Shareds -> Objects]
  <2>1. clients \in Seq(ClientRecords) /\ shared \in [Shareds -> Objects]
    BY DEF TypeOK, ClientRecords
  <2>2. QED
    BY <2>1
<1>2. ASSUME NEW state \in {"connecting", "connected"}
      PROVE  [clients EXCEPT ![n].state = state] \in Seq(ClientRecords)
  <2>1. [clients[n] EXCEPT !.state = state] \in ClientRecords
    BY <1>1 DEF ClientRecords
  <2>2. QED
    BY <1>1, <2>1
<1>3. CASE ClientConnects(n)
  <2>1. clients' \in Seq(ClientRecords)
    BY <1>2, <1>3 DEF ClientConnects
  <2>2. QED
    BY <1>3, <2>1 DEF ClientConnects, TypeOK, ClientRecords, tables
<1>4. CASE ClientDrops(n)
  <2>1. clients' \in Seq(ClientRecords)
    BY <1>2, <1>4 DEF ClientDrops
  <2>2. shared' \in [Shareds -> Objects] /\ faults' \in Nat
    BY <1>1, <1>4, OfflineTypes, FaultTypes DEF ClientDrops
  <2>3. QED
    BY <1>4, <2>1, <2>2 DEF ClientDrops, TypeOK, ClientRecords, tables
<1>5. CASE ConnectionTokenFails(n)
  <2>1. [do |-> "tokenError", done |-> {}] \in Steps /\ Then([do |-> "refuseClient", n |-> n]) \in Steps
    BY <1>1, RefusalTypes DEF Steps
  <2>2. turn' \in TurnTypes /\ faults' \in Nat
    BY <1>5, <2>1, DoingTypes, FaultTypes DEF ConnectionTokenFails
  <2>3. QED
    BY <1>5, <2>2 DEF ConnectionTokenFails, TypeOK, TurnTypes, tables
<1>6. QED
  BY <1>3, <1>4, <1>5

LEMMA TerminateTypes ==
    ASSUME TypeOK, NEW S \in SUBSET Shareds, NEW kinds, Terminate(S, kinds)
    PROVE  /\ sharedSubs' \in [Channels -> Shareds \cup {NoShared}]
           /\ pendingTeardowns' \in [Channels -> Shareds \cup {NoShared}]
           /\ client' \in [Kinds -> Nat] /\ shared' \in [Shareds -> Objects]
           /\ clients' \in Seq(ClientRecords) /\ turn' \in TurnTypes
<1>1. shared \in [Shareds -> Objects] /\ TornDown(shared, S) \in [Shareds -> Objects]
  BY TornDownTypes DEF TypeOK
<1> DEFINE sh == [s \in Shareds |-> IF s \in S THEN [TornDown(shared, S)[s] EXCEPT !.handlers = {}]
                                    ELSE shared[s]]
<1>2. sh \in [Shareds -> Objects]
  <2>1. ASSUME NEW s \in Shareds
        PROVE  [TornDown(shared, S)[s] EXCEPT !.handlers = {}] \in Objects
    <3>1. TornDown(shared, S)[s] \in Objects
      BY <1>1
    <3>2. QED
      BY <3>1 DEF Objects
  <2>2. QED
    BY <1>1, <2>1
<1>3. /\ sharedSubs' = Without(sharedSubs, S) /\ pendingTeardowns' = Without(pendingTeardowns, S)
      /\ Retire(kinds, sh)
      /\ turn' = Doing(<<[do |-> "end", left |-> {shared[s].handlers : s \in S} \ {{}}]>>)
  BY DEF Terminate
<1> HIDE DEF sh
<1>4. {shared[s].handlers : s \in S} \ {{}} \in SUBSET SUBSET Consumers
  <2>1. ASSUME NEW s \in S PROVE shared[s].handlers \in SUBSET Consumers
    <3>1. shared[s] \in Objects
      BY <1>1
    <3>2. QED
      BY <3>1 DEF Objects
  <2>2. QED
    BY <2>1
<1>5. [do |-> "end", left |-> {shared[s].handlers : s \in S} \ {{}}] \in Steps
  BY <1>4 DEF Steps
<1>6. QED
  BY <1>2, <1>3, <1>5, RetiringTypes, DoingTypes

LEMMA EndTypes ==
    ASSUME TypeOK, \/ \E n \in DOMAIN clients : ClientEnds(n)
                   \/ \E s \in Shareds : ChannelEnds(s)
    PROVE  TypeOK'
<1>1. /\ UNCHANGED <<consumer, loader, micro, auth, authChanges>> /\ faults' \in Nat
  BY FaultTypes DEF ClientEnds, ChannelEnds
<1>2. ASSUME NEW S \in SUBSET Shareds, NEW kinds, Terminate(S, kinds) PROVE TypeOK'
  BY <1>1, <1>2, TerminateTypes DEF TypeOK, TurnTypes, ClientRecords
<1>3. ASSUME NEW n \in DOMAIN clients, ClientEnds(n) PROVE TypeOK'
  <2> DEFINE S == {s \in Tracked(sharedSubs) \cup Tracked(pendingTeardowns) : shared[s].client = n}
  <2>1. S \in SUBSET Shareds
    BY DEF Tracked, TypeOK
  <2>2. Terminate(S, {clients[n].kind})
    BY <1>3 DEF ClientEnds
  <2> HIDE DEF S
  <2>3. QED
    BY <1>2, <2>1, <2>2
<1>4. ASSUME NEW s \in Shareds, ChannelEnds(s) PROVE TypeOK'
  BY <1>2, <1>4 DEF ChannelEnds
<1>5. QED
  BY <1>3, <1>4

LEMMA ChannelEventTypes ==
    ASSUME TypeOK, NEW s \in Shareds,
           SubscriptionTokenFails(s) \/ ChannelSubscribed(s) \/ Published(s)
    PROVE  TypeOK'
<1>1. shared \in [Shareds -> Objects] /\ shared[s] \in Objects /\ shared[s].subEpoch + 1 \in Nat
  <2>1. shared[s] \in Objects /\ shared[s].subEpoch \in Nat
    BY DeliverTypes DEF News
  <2>2. QED
    BY <2>1 DEF TypeOK
<1>2. CASE SubscriptionTokenFails(s)
  <2>1. Deliver("error", s) \in Steps /\ Then([do |-> "refuseSub", s |-> s]) \in Steps
    BY DeliverTypes, RefusalTypes DEF News
  <2>2. turn' \in TurnTypes /\ faults' \in Nat
    BY <1>2, <2>1, DoingTypes, FaultTypes DEF SubscriptionTokenFails
  <2>3. QED
    BY <1>2, <2>2 DEF SubscriptionTokenFails, TypeOK, TurnTypes, tables
<1>3. CASE ChannelSubscribed(s)
  <2>1. [Deliver("open", s) EXCEPT !.epoch = shared[s].subEpoch + 1] \in Steps
        /\ Deliver("open", s).epoch = shared[s].subEpoch
    BY DeliverTypes DEF News
  <2>2. turn' \in TurnTypes
    BY <1>3, <2>1, DoingTypes DEF ChannelSubscribed
  <2>3. [shared[s] EXCEPT !.sub = "subscribed", !.subEpoch = shared[s].subEpoch + 1] \in Objects
    BY <1>1 DEF Objects
  <2>4. shared' \in [Shareds -> Objects]
    BY <1>1, <1>3, <2>3 DEF ChannelSubscribed
  <2>5. QED
    BY <1>3, <2>2, <2>4 DEF ChannelSubscribed, TypeOK, TurnTypes, tables
<1>4. CASE Published(s)
  <2>1. turn' \in TurnTypes
    BY <1>4, DeliverTypes, DoingTypes DEF Published, News
  <2>2. QED
    BY <1>4, <2>1 DEF Published, TypeOK, TurnTypes, tables
<1>5. QED
  BY <1>2, <1>3, <1>4

-----------------------------------------------------------------------------
(* The inductive invariant.                                                *)

Holding(s) == {c \in Consumers : consumer[c].s = s /\ ~consumer[c].closed}

\* Every consumer that holds a subscription and has not left it is counted, so that
\* the count is never negative.
CountInv == \A s \in Shareds :
    /\ shared[s].consumers = Cardinality(Holding(s))
    /\ \A c \in Consumers : consumer[c].s = s => shared[s].epoch > 0 /\ shared[s].channel \in Channels

\* A channel is in one of the two tables at most, with a subscription of its own.
TablesInv == \A ch \in Channels :
    /\ sharedSubs[ch] = NoShared \/ pendingTeardowns[ch] = NoShared
    /\ \A s \in Shareds : sharedSubs[ch] = s \/ pendingTeardowns[ch] = s =>
                             shared[s].channel = ch /\ shared[s].epoch > 0

Tabled(s) == sharedSubs[shared[s].channel] = s \/ pendingTeardowns[shared[s].channel] = s

\* What is subscribed on the current client of its kind is in a table.
ClientsInv ==
    /\ \A k \in Kinds : client[k] <= Len(clients)
    /\ \A s \in Shareds : shared[s].sub # "none" =>
          /\ shared[s].channel \in Channels
          /\ 0 < shared[s].client /\ shared[s].client <= Len(clients)
          /\ shared[s].client = client[Kind(s)] => Tabled(s)
    /\ OneSubscription

\* Of the attachments that wait for Centrifuge one at most is the last one begun of
\* its subscription, which then is not attached.
Begun(sh, e) ==
    /\ 0 < e.epoch /\ e.epoch <= sh[e.s].epoch /\ sh[e.s].channel \in Channels
    /\ e.epoch = sh[e.s].epoch => sh[e.s].sub = "none"
Same(e, f) == e.s = f.s /\ e.epoch = f.epoch
IsEntry(job) == job.do = "attach"
EntriesInv ==
    /\ \A i \in DOMAIN loader.waiting : Begun(shared, loader.waiting[i])
    /\ \A i \in DOMAIN micro : IsEntry(micro[i]) => Begun(shared, micro[i])
    /\ \A i, j \in DOMAIN loader.waiting : i # j => ~Same(loader.waiting[i], loader.waiting[j])
    /\ \A i, j \in DOMAIN micro : i # j /\ IsEntry(micro[i]) /\ IsEntry(micro[j])
                                     => ~Same(micro[i], micro[j])
    /\ \A i \in DOMAIN loader.waiting, j \in DOMAIN micro :
          IsEntry(micro[j]) => ~Same(loader.waiting[i], micro[j])

AttachInv == TypeOK /\ CountInv /\ TablesInv /\ ClientsInv /\ EntriesInv

LEMMA InitAttach == Init => AttachInv
<1> SUFFICES ASSUME Init PROVE AttachInv
  OBVIOUS
<1>1. /\ sharedSubs = [ch \in Channels |-> NoShared] /\ pendingTeardowns = [ch \in Channels |-> NoShared]
      /\ shared = [s \in Shareds |-> NewShared(NoChannel)]
      /\ client = [k \in Kinds |-> 0] /\ clients = <<>> /\ micro = <<>> /\ turn = Rest
      /\ consumer = [c \in Consumers |-> [s |-> NoShared, closed |-> FALSE, epoch |-> -1]]
      /\ loader \in [state : {"unloaded", "loaded"}, waiting : {<<>>}] /\ loader.waiting = <<>>
      /\ auth \in BOOLEAN /\ faults = 0 /\ authChanges = 0
  BY DEF Init
<1>2. NoShared \notin Shareds
  BY RealtimeAssumption
<1>3. TypeOK
  <2>1. NewShared(NoChannel) \in Objects
    BY NewSharedTypes
  <2>2. [s |-> NoShared, closed |-> FALSE, epoch |-> -1] \in Closures
    BY DEF Closures
  <2>3. turn \in TurnTypes /\ loader \in Loaders
    <3>1. <<>> \in Seq([s : Shareds, epoch : Nat])
      OBVIOUS
    <3>2. QED
      BY <1>1, <3>1, DoingTypes DEF Loaders
  <2>4. QED
    BY <1>1, <2>1, <2>2, <2>3 DEF TypeOK, TurnTypes
<1>4. CountInv
  <2>1. ASSUME NEW s \in Shareds PROVE Holding(s) = {}
    BY <1>1, <1>2 DEF Holding
  <2>2. Cardinality({}) = 0
    BY FS_EmptySet
  <2>3. QED
    BY <1>1, <1>2, <2>1, <2>2 DEF CountInv, NewShared
<1>5. TablesInv
  BY <1>1, <1>2 DEF TablesInv
<1>6. ClientsInv
  BY <1>1 DEF ClientsInv, OneSubscription, NewShared
<1>7. EntriesInv
  BY <1>1 DEF EntriesInv
<1>8. QED
  BY <1>3, <1>4, <1>5, <1>6, <1>7 DEF AttachInv

-----------------------------------------------------------------------------
(* Steps that attach nothing.                                              *)

\* A subscription goes on, or is torn down.
GoesOn(o, p) == /\ p.channel = o.channel /\ p.client = o.client /\ p.epoch = o.epoch
                /\ p.consumers = o.consumers /\ (p.sub = "none" <=> o.sub = "none")
Ends(o, p)   == /\ p.channel = o.channel /\ p.epoch = o.epoch + 1
                /\ p.consumers = o.consumers /\ p.sub = "none"

\* What most steps do: subscriptions end, tables and clients are left, and whatever
\* leaves its table is torn down or loses its client.
Calm ==
    /\ \A s \in Shareds : GoesOn(shared[s], shared'[s]) \/ Ends(shared[s], shared'[s])
    /\ \A ch \in Channels : /\ sharedSubs'[ch] \in {sharedSubs[ch], NoShared}
                            /\ pendingTeardowns'[ch] \in {pendingTeardowns[ch], NoShared}
    /\ \A k \in Kinds : client'[k] \in {client[k], 0}
    /\ \A s \in Shareds : /\ shared[s].channel \in Channels /\ shared[s].sub # "none"
                          /\ shared[s].client = client[Kind(s)] /\ Tabled(s)
                          => \/ Tabled(s)' \/ shared'[s].sub = "none" \/ client'[Kind(s)] = 0
    /\ Len(clients') = Len(clients)
    /\ \A c \in Consumers : consumer'[c].s = consumer[c].s /\ consumer'[c].closed = consumer[c].closed
    /\ loader' = loader

CalmMicro == \/ micro' = micro
             \/ micro # <<>> /\ micro' = Tail(micro)
             \/ \E job \in Jobs : ~IsEntry(job) /\ micro' = Append(micro, job)

LEMMA SharedFields ==
    ASSUME TypeOK, NEW s \in Shareds
    PROVE  /\ shared[s] \in Objects /\ shared[s].channel \in Channels \cup {NoChannel}
           /\ shared[s].epoch \in Nat /\ shared[s].client \in Nat /\ shared[s].consumers \in Nat
           /\ shared[s].sub \in {"none", "subscribing", "subscribed", "unsubscribed"}
           /\ Kind(s) \in Kinds /\ client[Kind(s)] \in Nat
<1>1. shared[s] \in Objects
  BY DEF TypeOK
<1>2. Kind(s) \in Kinds
  BY KindTypes DEF Kind
<1>3. QED
  BY <1>1, <1>2 DEF Objects, TypeOK

LEMMA CalmCount ==
    ASSUME TypeOK, CountInv, Calm
    PROVE  CountInv'
<1>1. ASSUME NEW s \in Shareds
      PROVE  /\ shared'[s].consumers = Cardinality(Holding(s)')
             /\ \A c \in Consumers : consumer'[c].s = s => shared'[s].epoch > 0
                                                          /\ shared'[s].channel \in Channels
  <2>1. Holding(s)' = Holding(s)
    BY DEF Holding, Calm
  <2>2. shared'[s].consumers = shared[s].consumers /\ shared'[s].epoch >= shared[s].epoch
        /\ shared[s].epoch \in Nat /\ shared'[s].channel = shared[s].channel
    BY SharedFields DEF Calm, GoesOn, Ends
  <2>3. shared'[s].consumers = Cardinality(Holding(s)')
    BY <2>1, <2>2 DEF CountInv
  <2>4. ASSUME NEW c \in Consumers, consumer'[c].s = s
        PROVE  shared'[s].epoch > 0 /\ shared'[s].channel \in Channels
    <3>1. consumer[c].s = s
      BY <2>4 DEF Calm
    <3>2. shared[s].epoch > 0 /\ shared[s].channel \in Channels
      BY <3>1 DEF CountInv
    <3>3. shared'[s].epoch \in Nat
      BY <2>2 DEF Calm, GoesOn, Ends
    <3>4. QED
      BY <2>2, <3>2, <3>3
  <2>5. QED
    BY <2>3, <2>4
<1>2. QED
  BY <1>1 DEF CountInv

LEMMA CalmTables ==
    ASSUME TypeOK, TablesInv, Calm
    PROVE  TablesInv'
<1>1. NoShared \notin Shareds
  BY RealtimeAssumption
<1>2. ASSUME NEW ch \in Channels
      PROVE  sharedSubs'[ch] = NoShared \/ pendingTeardowns'[ch] = NoShared
  BY DEF TablesInv, Calm
<1>3. ASSUME NEW ch \in Channels, NEW s \in Shareds, sharedSubs'[ch] = s \/ pendingTeardowns'[ch] = s
      PROVE  shared'[s].channel = ch /\ shared'[s].epoch > 0
  <2>1. sharedSubs[ch] = s \/ pendingTeardowns[ch] = s
    BY <1>1, <1>3 DEF Calm
  <2>2. shared[s].channel = ch /\ shared[s].epoch > 0 /\ shared[s].epoch \in Nat
    BY <2>1, SharedFields DEF TablesInv
  <2>3. QED
    BY <2>2 DEF Calm, GoesOn, Ends
<1>4. QED
  BY <1>2, <1>3 DEF TablesInv

LEMMA CalmClients ==
    ASSUME TypeOK, ClientsInv, Calm
    PROVE  ClientsInv'
<1>1. ASSUME NEW k \in Kinds PROVE client'[k] <= Len(clients')
  <2>1. client[k] \in Nat /\ client[k] <= Len(clients) /\ Len(clients) \in Nat
    BY DEF ClientsInv, TypeOK
  <2>2. QED
    BY <2>1 DEF Calm
<1>2. ASSUME NEW s \in Shareds, shared'[s].sub # "none"
      PROVE  /\ shared[s].sub # "none" /\ shared'[s].channel = shared[s].channel
             /\ shared'[s].client = shared[s].client
  BY <1>2 DEF Calm, GoesOn, Ends
<1>3. ASSUME NEW s \in Shareds, shared'[s].sub # "none"
      PROVE  /\ shared'[s].channel \in Channels
             /\ 0 < shared'[s].client /\ shared'[s].client <= Len(clients')
             /\ shared'[s].client = client'[Kind(s)'] => Tabled(s)'
  <2>1. /\ shared[s].sub # "none" /\ shared'[s].channel = shared[s].channel
        /\ shared'[s].client = shared[s].client
    BY <1>2, <1>3
  <2>2. /\ shared[s].channel \in Channels
        /\ 0 < shared[s].client /\ shared[s].client <= Len(clients)
        /\ shared[s].client = client[Kind(s)] => Tabled(s)
    BY <2>1 DEF ClientsInv
  <2>3. Kind(s)' = Kind(s) /\ Kind(s) \in Kinds
    BY <2>1, SharedFields DEF Kind
  <2>4. ASSUME shared'[s].client = client'[Kind(s)] PROVE Tabled(s)'
    <3>1. client'[Kind(s)] = client[Kind(s)] /\ client'[Kind(s)] # 0
      BY <2>1, <2>2, <2>3, <2>4, SharedFields DEF Calm
    <3>2. QED
      BY <1>3, <2>1, <2>2, <2>4, <3>1 DEF Calm
  <2>5. QED
    BY <2>1, <2>2, <2>3, <2>4 DEF Calm
<1>4. OneSubscription'
  BY <1>2 DEF OneSubscription, ClientsInv
<1>5. QED
  BY <1>1, <1>3, <1>4 DEF ClientsInv

\* A subscription is attached anew, or not attached by what was begun before.
Ages(o, p) == /\ p.epoch \in Nat /\ (o.epoch > 0 => p.channel = o.channel)
              /\ p.epoch > o.epoch \/ (p.epoch = o.epoch /\ (o.sub = "none" => p.sub = "none"))

LEMMA AgedBegun ==
    ASSUME TypeOK, NEW e, e.s \in Shareds, e.epoch \in Nat, Ages(shared[e.s], shared'[e.s]), Begun(shared, e)
    PROVE  Begun(shared', e)
<1>1. shared[e.s].epoch \in Nat
  BY SharedFields
<1>2. QED
  BY <1>1 DEF Begun, Ages

LEMMA EntryFields ==
    ASSUME TypeOK
    PROVE  /\ \A i \in DOMAIN loader.waiting : /\ loader.waiting[i].s \in Shareds
                                               /\ loader.waiting[i].epoch \in Nat
           /\ \A i \in DOMAIN micro : IsEntry(micro[i]) => /\ micro[i].s \in Shareds
                                                           /\ micro[i].epoch \in Nat
<1>1. ASSUME NEW i \in DOMAIN loader.waiting
      PROVE  loader.waiting[i].s \in Shareds /\ loader.waiting[i].epoch \in Nat
  <2>1. loader.waiting \in Seq([s : Shareds, epoch : Nat]) /\ i \in 1 .. Len(loader.waiting)
    <3>1. loader.waiting \in Seq([s : Shareds, epoch : Nat])
      BY DEF TypeOK, Loaders
    <3>2. QED
      BY <3>1
  <2>2. loader.waiting[i] \in [s : Shareds, epoch : Nat]
    BY <2>1, ElementOfSeq
  <2>3. QED
    BY <2>2
<1>2. ASSUME NEW i \in DOMAIN micro, IsEntry(micro[i])
      PROVE  micro[i].s \in Shareds /\ micro[i].epoch \in Nat
  <2>1. micro[i] \in Jobs
    BY DEF TypeOK
  <2>2. QED
    BY <1>2, <2>1 DEF IsEntry, Jobs, Refusals
<1>3. QED
  BY <1>1, <1>2

LEMMA AgedEntries ==
    ASSUME TypeOK, EntriesInv, \A s \in Shareds : Ages(shared[s], shared'[s]), CalmMicro, loader' = loader
    PROVE  EntriesInv'
<1>1. micro \in Seq(Jobs) /\ loader' = loader
  BY DEF TypeOK
<1>2. ASSUME NEW i \in DOMAIN loader.waiting PROVE Begun(shared', loader.waiting[i])
  BY EntryFields, AgedBegun DEF EntriesInv
\* Every attachment among the microtasks was there, in the same order.
<1>3. PICK d \in {0, 1} : \A i \in DOMAIN micro' : IsEntry(micro'[i]) =>
         i + d \in DOMAIN micro /\ micro'[i] = micro[i + d]
  <2>1. CASE micro' = micro
    <3>1. \A i \in DOMAIN micro' : i + 0 \in DOMAIN micro /\ micro'[i] = micro[i + 0]
      BY <1>1, <2>1
    <3>2. QED
      BY <3>1
  <2>2. CASE micro # <<>> /\ micro' = Tail(micro)
    <3>1. \A i \in DOMAIN micro' : i + 1 \in DOMAIN micro /\ micro'[i] = micro[i + 1]
      BY <1>1, <2>2
    <3>2. QED
      BY <3>1
  <2>3. CASE \E job \in Jobs : ~IsEntry(job) /\ micro' = Append(micro, job)
    <3>1. \A i \in DOMAIN micro' : IsEntry(micro'[i]) => i + 0 \in DOMAIN micro /\ micro'[i] = micro[i + 0]
      BY <1>1, <2>3
    <3>2. QED
      BY <3>1
  <2>4. QED
    BY <2>1, <2>2, <2>3 DEF CalmMicro
<1>4. \A i \in DOMAIN micro' : i \in Nat
  BY <1>1 DEF CalmMicro
<1>5. ASSUME NEW i \in DOMAIN micro', IsEntry(micro'[i])
      PROVE  IsEntry(micro[i + d]) /\ Begun(shared', micro'[i])
  <2>1. micro'[i] = micro[i + d] /\ i + d \in DOMAIN micro
    BY <1>3, <1>5
  <2>2. IsEntry(micro[i + d])
    BY <1>5, <2>1 DEF IsEntry
  <2>3. Begun(shared', micro[i + d])
    BY <2>1, <2>2, EntryFields, AgedBegun DEF EntriesInv
  <2>4. QED
    BY <2>1, <2>2, <2>3
<1>6. ASSUME NEW i \in DOMAIN micro', NEW j \in DOMAIN micro', i # j,
             IsEntry(micro'[i]), IsEntry(micro'[j])
      PROVE  ~Same(micro'[i], micro'[j])
  <2>1. /\ micro'[i] = micro[i + d] /\ i + d \in DOMAIN micro /\ IsEntry(micro[i + d])
        /\ micro'[j] = micro[j + d] /\ j + d \in DOMAIN micro /\ IsEntry(micro[j + d])
    BY <1>3, <1>5, <1>6
  <2>2. i + d # j + d
    BY <1>4, <1>6
  <2>3. ~Same(micro[i + d], micro[j + d])
    BY <2>1, <2>2 DEF EntriesInv
  <2>4. QED
    BY <2>1, <2>3
<1>7. ASSUME NEW i \in DOMAIN loader.waiting, NEW j \in DOMAIN micro', IsEntry(micro'[j])
      PROVE  ~Same(loader.waiting[i], micro'[j])
  <2>1. micro'[j] = micro[j + d] /\ j + d \in DOMAIN micro /\ IsEntry(micro[j + d])
    BY <1>3, <1>5, <1>7
  <2>2. ~Same(loader.waiting[i], micro[j + d])
    BY <2>1 DEF EntriesInv
  <2>3. QED
    BY <2>1, <2>2
<1>8. QED
  <2>1. \A i, j \in DOMAIN loader.waiting : i # j => ~Same(loader.waiting[i], loader.waiting[j])
    BY DEF EntriesInv
  <2>2. QED
    BY <1>1, <1>2, <1>5, <1>6, <1>7, <2>1 DEF EntriesInv, Begun, Same, IsEntry

LEMMA CalmEntries ==
    ASSUME TypeOK, EntriesInv, Calm, CalmMicro
    PROVE  EntriesInv'
<1>1. ASSUME NEW s \in Shareds PROVE Ages(shared[s], shared'[s])
  BY SharedFields DEF Calm, GoesOn, Ends, Ages
<1>2. loader' = loader
  BY DEF Calm
<1>3. QED
  BY <1>1, <1>2, AgedEntries

LEMMA CalmAttach ==
    ASSUME AttachInv, Calm, CalmMicro
    PROVE  CountInv' /\ TablesInv' /\ ClientsInv' /\ EntriesInv'
  BY CalmCount, CalmTables, CalmClients, CalmEntries DEF AttachInv

LEMMA OfflineGoesOn ==
    ASSUME NEW sh \in [Shareds -> Objects], NEW dead, NEW s \in Shareds
    PROVE  GoesOn(sh[s], Offline(sh, dead)[s])
<1>1. sh[s] \in Objects
  OBVIOUS
<1>2. GoesOn(sh[s], sh[s])
  BY DEF GoesOn
<1>3. sh[s].sub = "subscribed" => GoesOn(sh[s], [sh[s] EXCEPT !.sub = "subscribing"])
  BY <1>1 DEF GoesOn, Objects
<1>4. QED
  BY <1>2, <1>3 DEF Offline

LEMMA TornDownEnds ==
    ASSUME NEW sh \in [Shareds -> Objects], NEW S, NEW s \in Shareds
    PROVE  IF s \in S THEN Ends(sh[s], TornDown(sh, S)[s]) ELSE TornDown(sh, S)[s] = sh[s]
<1>1. sh[s] \in Objects
  OBVIOUS
<1>2. Ends(sh[s], [sh[s] EXCEPT !.sub = "none", !.client = 0, !.epoch = sh[s].epoch + 1])
  BY <1>1 DEF Ends, Objects
<1>3. QED
  BY <1>2 DEF TornDown

LEMMA RetireEffect ==
    ASSUME TypeOK, NEW kinds, NEW sh \in [Shareds -> Objects], Retire(kinds, sh)
    PROVE  /\ \A s \in Shareds : GoesOn(sh[s], shared'[s])
           /\ \A k \in Kinds : client'[k] = IF k \in kinds THEN 0 ELSE client[k]
           /\ Len(clients') = Len(clients)
  BY RetireTypes, OfflineGoesOn DEF Retire

LEMMA RetiringCalm ==
    ASSUME TypeOK, NEW S \in SUBSET Shareds, NEW kinds, NEW sh \in [Shareds -> Objects],
           \A s \in Shareds : GoesOn(shared[s], sh[s]) \/ Ends(shared[s], sh[s]),
           \A s \in S : Ends(shared[s], sh[s]) \/ Kind(s) \in kinds,
           sharedSubs' = sharedSubs \/ sharedSubs' = Without(sharedSubs, S),
           pendingTeardowns' = pendingTeardowns \/ pendingTeardowns' = Without(pendingTeardowns, S),
           Retire(kinds, sh), consumer' = consumer, loader' = loader
    PROVE  Calm
<1>1. /\ \A s \in Shareds : GoesOn(sh[s], shared'[s])
      /\ \A k \in Kinds : client'[k] = IF k \in kinds THEN 0 ELSE client[k]
      /\ Len(clients') = Len(clients)
  BY RetireEffect
<1>2. ASSUME NEW s \in Shareds PROVE GoesOn(shared[s], shared'[s]) \/ Ends(shared[s], shared'[s])
  <2>1. GoesOn(sh[s], shared'[s])
    BY <1>1
  <2>2. QED
    BY <2>1 DEF GoesOn, Ends
<1>3. ASSUME NEW ch \in Channels
      PROVE  /\ sharedSubs'[ch] \in {sharedSubs[ch], NoShared}
             /\ pendingTeardowns'[ch] \in {pendingTeardowns[ch], NoShared}
             /\ sharedSubs'[ch] # sharedSubs[ch] => sharedSubs[ch] \in S
             /\ pendingTeardowns'[ch] # pendingTeardowns[ch] => pendingTeardowns[ch] \in S
  BY DEF Without
<1>4. ASSUME NEW s \in Shareds, shared[s].channel \in Channels, Tabled(s)
      PROVE  Tabled(s)' \/ shared'[s].sub = "none" \/ client'[Kind(s)] = 0
  <2>1. shared'[s].channel = shared[s].channel
    BY <1>2 DEF GoesOn, Ends
  <2>2. CASE s \notin S
    BY <1>3, <1>4, <2>1, <2>2 DEF Tabled
  <2>3. CASE s \in S
    <3>1. CASE Ends(shared[s], sh[s])
      BY <1>1, <3>1 DEF Ends, GoesOn
    <3>2. CASE Kind(s) \in kinds
      BY <1>1, <3>2, SharedFields
    <3>3. QED
      BY <2>3, <3>1, <3>2
  <2>4. QED
    BY <2>2, <2>3
<1>5. QED
  BY <1>1, <1>2, <1>3, <1>4 DEF Calm

LEMMA QuietCalm ==
    ASSUME TypeOK, UNCHANGED <<tables, client, loader>>,
           \A s \in Shareds : GoesOn(shared[s], shared'[s]),
           Len(clients') = Len(clients),
           \A c \in Consumers : consumer'[c].s = consumer[c].s /\ consumer'[c].closed = consumer[c].closed
    PROVE  Calm
<1>1. ASSUME NEW s \in Shareds PROVE Tabled(s)' = Tabled(s)
  BY DEF Tabled, GoesOn, tables
<1>2. QED
  BY <1>1 DEF Calm, tables

LEMMA SameGoesOn == \A o : GoesOn(o, o)
  BY DEF GoesOn

LEMMA CalmDisconnect ==
    ASSUME TypeOK, Disconnect \/ DisconnectPrivate
    PROVE  Calm /\ CalmMicro
<1>1. shared \in [Shareds -> Objects] /\ UNCHANGED <<consumer, loader, micro>>
  BY DEF TypeOK, Disconnect, DisconnectPrivate
<1>2. CASE Disconnect
  <2>1. \A s \in Shareds : Kind(s) \in Kinds
    BY SharedFields
  <2>2. Shareds \in SUBSET Shareds
    OBVIOUS
  <2>3. QED
    BY <1>1, <1>2, <2>1, <2>2, SameGoesOn, RetiringCalm DEF Disconnect, CalmMicro
<1>3. CASE DisconnectPrivate
  <2> DEFINE S == {s \in Tracked(sharedSubs) \cup Tracked(pendingTeardowns) : Kind(s) = "private"}
  <2>1. /\ sharedSubs' = Without(sharedSubs, S) /\ pendingTeardowns' = Without(pendingTeardowns, S)
        /\ Retire({"private"}, TornDown(shared, S))
    BY <1>3 DEF DisconnectPrivate
  <2>2. S \in SUBSET Shareds
    BY DEF Tracked, TypeOK
  <2> HIDE DEF S
  <2>3. TornDown(shared, S) \in [Shareds -> Objects]
    BY <1>1, TornDownTypes
  <2>4. \A s \in Shareds : IF s \in S THEN Ends(shared[s], TornDown(shared, S)[s])
                           ELSE TornDown(shared, S)[s] = shared[s]
    BY <1>1, TornDownEnds
  <2>5. \A s \in Shareds : \/ GoesOn(shared[s], TornDown(shared, S)[s])
                           \/ Ends(shared[s], TornDown(shared, S)[s])
    BY <2>4, SameGoesOn
  <2>6. \A s \in S : Ends(shared[s], TornDown(shared, S)[s])
    BY <2>2, <2>4
  <2>7. Calm
    BY <1>1, <2>1, <2>2, <2>3, <2>5, <2>6, RetiringCalm
  <2>8. QED
    BY <1>1, <2>7 DEF CalmMicro
<1>4. QED
  BY <1>2, <1>3

LEMMA CalmProceed ==
    ASSUME TypeOK, Proceed
    PROVE  Calm /\ CalmMicro
<1> DEFINE step == Head(turn.steps)
<1>1. step \in Steps /\ UNCHANGED <<tables, shared, client, loader, clients>>
  BY TurnsType DEF Proceed
<1>2. \/ CallLive(step) \/ CallCollected(step) \/ NextEnd(step)
      \/ NextTokenError(step) \/ StepDone(step)
  BY DEF Proceed
<1> HIDE DEF step
<1>3. \A c \in Consumers : consumer'[c].s = consumer[c].s /\ consumer'[c].closed = consumer[c].closed
  <2>1. CASE UNCHANGED consumer
    BY <2>1
  <2>2. CASE CallLive(step)
    <3>1. PICK c : consumer' = Heard(c, step)
      BY <2>2 DEF CallLive
    <3>2. consumer \in [Consumers -> Closures]
      BY DEF TypeOK
    <3>3. ASSUME NEW d \in Consumers
          PROVE  consumer'[d].s = consumer[d].s /\ consumer'[d].closed = consumer[d].closed
      <4>1. consumer[d] \in Closures
        BY <3>2
      <4>2. consumer'[d] = consumer[d] \/ consumer'[d] = [consumer[d] EXCEPT !.epoch = step.epoch]
        BY <3>1, <3>2 DEF Heard
      <4>3. QED
        BY <4>1, <4>2 DEF Closures
    <3>4. QED
      BY <3>3
  <2>3. QED
    BY <1>2, <2>1, <2>2 DEF CallCollected, NextEnd, NextTokenError, StepDone
<1>4. CalmMicro
  <2>1. CASE UNCHANGED micro
    BY <2>1 DEF CalmMicro
  <2>2. CASE step.do = "then" /\ Later(step.job)
    <3>1. step \in [do : {"then"}, job : Refusals]
      BY <1>1, <2>2 DEF Steps
    <3>2. step.job \in Jobs /\ ~IsEntry(step.job)
      BY <3>1 DEF Jobs, Refusals, IsEntry
    <3>3. QED
      BY <2>2, <3>2 DEF CalmMicro, Later
  <2>3. QED
    BY <1>2, <2>1, <2>2 DEF CallLive, CallCollected, NextEnd, NextTokenError, StepDone
<1>5. Calm
  BY <1>1, <1>3, SameGoesOn, QuietCalm
<1>6. QED
  BY <1>4, <1>5

Attaches(job) == /\ AttachNow(shared, job.s, clients) /\ UNCHANGED <<tables, consumer>>
                 /\ IsAwaited(job.s, job.epoch) /\ shared[job.s].sub = "none"

\* The microtasks but for the one that attaches.
LEMMA CalmMicrotask ==
    ASSUME AttachInv, NEW job, job = Head(micro), micro # <<>>, micro' = Tail(micro), loader' = loader,
           \/ /\ AttachWhenLoaded(job)
              /\ ~Attaches(job)
           \/ TellLate(job) \/ TeardownDue(job)
           \/ Report(job) \/ StopClient(job) \/ StopSubscription(job)
    PROVE  Calm /\ CalmMicro
<1>1. TypeOK /\ CalmMicro /\ shared \in [Shareds -> Objects] /\ job \in Jobs
      /\ clients \in Seq(ClientRecords) /\ consumer \in [Consumers -> Closures]
      /\ micro \in Seq(Jobs)
  BY DEF CalmMicro, AttachInv, TypeOK, ClientRecords
<1>2. CASE UNCHANGED <<tables, shared, client, clients, consumer>>
  BY <1>1, <1>2, SameGoesOn, QuietCalm
<1>3. CASE AttachWhenLoaded(job) /\ ~Attaches(job)
  <2>1. CASE Untouched
    BY <1>2, <2>1 DEF Untouched
  <2>2. CASE /\ shared[job.s].epoch = job.epoch
             /\ sharedSubs' = Without(sharedSubs, {job.s})
             /\ UNCHANGED <<pendingTeardowns, shared, client, consumer, clients>>
    <3>1. /\ 1 \in DOMAIN micro /\ IsEntry(micro[1]) /\ job = micro[1] /\ job.s \in Shareds
      BY <1>1, <1>3, EntryFields DEF AttachWhenLoaded, IsEntry
    <3>2. shared[job.s].sub = "none"
      BY <2>2, <3>1 DEF AttachInv, EntriesInv, Begun
    <3>3. ASSUME NEW ch \in Channels
          PROVE  /\ sharedSubs'[ch] \in {sharedSubs[ch], NoShared}
                 /\ sharedSubs'[ch] # sharedSubs[ch] => sharedSubs[ch] = job.s
      BY <2>2 DEF Without
    <3>4. ASSUME NEW s \in Shareds, shared[s].channel \in Channels, shared[s].sub # "none", Tabled(s)
          PROVE  Tabled(s)'
      BY <2>2, <3>2, <3>3, <3>4 DEF Tabled
    <3>5. QED
      BY <1>1, <2>2, <3>3, <3>4, SameGoesOn DEF Calm
  <2>3. QED
    BY <1>3, <2>1, <2>2 DEF AttachWhenLoaded, Attaches
<1>4. CASE TellLate(job)
  <2>1. ASSUME NEW d \in Consumers
        PROVE  consumer'[d].s = consumer[d].s /\ consumer'[d].closed = consumer[d].closed
    <3>1. consumer[d] \in Closures
      BY <1>1
    <3>2. consumer'[d] = consumer[d] \/ consumer'[d] = [consumer[d] EXCEPT !.epoch = job.epoch]
      BY <1>1, <1>4 DEF TellLate
    <3>3. QED
      BY <3>1, <3>2 DEF Closures
  <2>2. UNCHANGED <<tables, shared, client, clients>>
    BY <1>4 DEF TellLate
  <2>3. QED
    BY <1>1, <2>1, <2>2, SameGoesOn, QuietCalm
<1>5. CASE TeardownDue(job)
  <2>1. job.s \in Shareds
    BY <1>1, <1>5 DEF TeardownDue, Jobs, Refusals
  <2>2. CASE IsDue(job.s)
    <3> DEFINE rest == (Tracked(sharedSubs) \cup Tracked(pendingTeardowns)) \ {job.s}
               kinds == IF rest = {} THEN Kinds ELSE IdleKinds({job.s})
    <3>1. /\ pendingTeardowns' = Without(pendingTeardowns, {job.s})
          /\ Retire(kinds, TornDown(shared, {job.s})) /\ UNCHANGED <<sharedSubs, consumer>>
      BY <1>5, <2>2 DEF TeardownDue
    <3> HIDE DEF kinds
    <3>2. TornDown(shared, {job.s}) \in [Shareds -> Objects]
      BY <1>1, TornDownTypes
    <3>3. \A s \in Shareds : IF s \in {job.s} THEN Ends(shared[s], TornDown(shared, {job.s})[s])
                             ELSE TornDown(shared, {job.s})[s] = shared[s]
      BY <1>1, TornDownEnds
    <3>4. \A s \in Shareds : \/ GoesOn(shared[s], TornDown(shared, {job.s})[s])
                             \/ Ends(shared[s], TornDown(shared, {job.s})[s])
      BY <3>3, SameGoesOn
    <3>5. \A s \in {job.s} : Ends(shared[s], TornDown(shared, {job.s})[s])
      BY <2>1, <3>3
    <3>6. Calm
      <4>1. {job.s} \in SUBSET Shareds /\ sharedSubs' = sharedSubs /\ consumer' = consumer
        BY <2>1, <3>1
      <4>2. \A s \in {job.s} : \/ Ends(shared[s], TornDown(shared, {job.s})[s])
                               \/ Kind(s) \in kinds
        BY <3>5
      <4> DEFINE S == {job.s}
                 sh == TornDown(shared, S)
      <4>3. /\ S \in SUBSET Shareds /\ sh \in [Shareds -> Objects]
            /\ \A s \in Shareds : GoesOn(shared[s], sh[s]) \/ Ends(shared[s], sh[s])
            /\ \A s \in S : Ends(shared[s], sh[s]) \/ Kind(s) \in kinds
            /\ pendingTeardowns' = Without(pendingTeardowns, S) /\ Retire(kinds, sh)
        BY <3>1, <3>2, <3>4, <4>1, <4>2
      <4> HIDE DEF S, sh
      <4>4. QED
        BY <1>1, <4>1, <4>3, RetiringCalm
    <3>7. QED
      BY <1>1, <3>6
  <2>3. CASE ~IsDue(job.s)
    BY <1>2, <1>5, <2>3 DEF TeardownDue, Untouched
  <2>4. QED
    BY <2>2, <2>3
<1>6. CASE Report(job)
  BY <1>2, <1>6 DEF Report, Untouched
<1>7. CASE StopClient(job)
  <2>1. Len(clients') = Len(clients) /\ UNCHANGED <<tables, shared, client, consumer>>
    BY <1>1, <1>7 DEF StopClient
  <2>2. QED
    BY <1>1, <2>1, SameGoesOn, QuietCalm
<1>8. CASE StopSubscription(job)
  <2>1. ASSUME NEW s \in Shareds PROVE GoesOn(shared[s], shared'[s])
    <3>1. shared[s] \in Objects
      BY <1>1
    <3>2. shared'[s] = shared[s] \/ (/\ shared[s].sub = "subscribing"
                                     /\ shared'[s] = [shared[s] EXCEPT !.sub = "unsubscribed"])
      BY <1>1, <1>8 DEF StopSubscription
    <3>3. QED
      BY <3>1, <3>2, SameGoesOn DEF GoesOn, Objects
  <2>2. UNCHANGED <<tables, client, consumer, clients>>
    BY <1>8 DEF StopSubscription
  <2>3. QED
    BY <1>1, <2>1, <2>2, QuietCalm
<1>9. QED
  BY <1>3, <1>4, <1>5, <1>6, <1>7, <1>8

LEMMA CalmTerminate ==
    ASSUME TypeOK, NEW S \in SUBSET Shareds, NEW kinds, Terminate(S, kinds), UNCHANGED <<consumer, loader>>
    PROVE  Calm
<1> DEFINE sh == [s \in Shareds |-> IF s \in S THEN [TornDown(shared, S)[s] EXCEPT !.handlers = {}]
                                    ELSE shared[s]]
<1>1. shared \in [Shareds -> Objects] /\ TornDown(shared, S) \in [Shareds -> Objects]
  BY TornDownTypes DEF TypeOK
<1>2. ASSUME NEW s \in Shareds
      PROVE  /\ sh[s] \in Objects
             /\ IF s \in S THEN Ends(shared[s], sh[s]) ELSE sh[s] = shared[s]
  <2>1. TornDown(shared, S)[s] \in Objects /\ shared[s] \in Objects
    BY <1>1
  <2>2. s \in S => Ends(shared[s], TornDown(shared, S)[s])
    BY <1>1, TornDownEnds
  <2>3. [TornDown(shared, S)[s] EXCEPT !.handlers = {}] \in Objects
    BY <2>1 DEF Objects
  <2>4. s \in S => Ends(shared[s], [TornDown(shared, S)[s] EXCEPT !.handlers = {}])
    BY <2>1, <2>2 DEF Ends, Objects
  <2>5. QED
    BY <2>1, <2>3, <2>4
<1>3. sh \in [Shareds -> Objects]
  BY <1>2
<1>4. /\ sharedSubs' = Without(sharedSubs, S) /\ pendingTeardowns' = Without(pendingTeardowns, S)
      /\ Retire(kinds, sh)
  BY DEF Terminate
<1>5. /\ \A s \in Shareds : GoesOn(shared[s], sh[s]) \/ Ends(shared[s], sh[s])
      /\ \A s \in S : Ends(shared[s], sh[s]) \/ Kind(s) \in kinds
  BY <1>2, SameGoesOn
<1> HIDE DEF sh
<1>6. QED
  BY <1>3, <1>4, <1>5, RetiringCalm

LEMMA CalmEvents ==
    ASSUME TypeOK,
           \/ AuthChanges
           \/ \E n \in DOMAIN clients : ClientConnects(n) \/ ClientDrops(n) \/ ClientEnds(n)
                                        \/ ConnectionTokenFails(n)
           \/ \E s \in Shareds : \/ SubscriptionTokenFails(s) \/ ChannelSubscribed(s)
                                  \/ ChannelEnds(s) \/ Published(s)
    PROVE  Calm /\ CalmMicro
<1>1. shared \in [Shareds -> Objects] /\ clients \in Seq(ClientRecords)
  BY DEF TypeOK, ClientRecords
<1>2. CalmMicro /\ UNCHANGED <<loader, micro>>
  BY DEF CalmMicro, AuthChanges, ClientConnects, ClientDrops, ClientEnds, ConnectionTokenFails,
         SubscriptionTokenFails, ChannelSubscribed, ChannelEnds, Published
<1>3. CASE UNCHANGED <<tables, client, consumer, shared>> /\ Len(clients') = Len(clients)
  BY <1>2, <1>3, SameGoesOn, QuietCalm
<1>4. CASE AuthChanges
  BY <1>3, <1>4 DEF AuthChanges
<1>5. ASSUME NEW n \in DOMAIN clients, ClientConnects(n) PROVE Calm
  <2>1. Len(clients') = Len(clients)
    BY <1>1, <1>5 DEF ClientConnects
  <2>2. QED
    BY <1>3, <1>5, <2>1 DEF ClientConnects
<1>6. ASSUME NEW n \in DOMAIN clients, ClientDrops(n) PROVE Calm
  <2>1. Len(clients') = Len(clients)
    BY <1>1, <1>6 DEF ClientDrops
  <2>2. \A s \in Shareds : GoesOn(shared[s], shared'[s])
    BY <1>1, <1>6, OfflineGoesOn DEF ClientDrops
  <2>3. UNCHANGED <<tables, client, consumer>>
    BY <1>6 DEF ClientDrops
  <2>4. QED
    BY <1>2, <2>1, <2>2, <2>3, QuietCalm
<1>7. ASSUME NEW n \in DOMAIN clients, ClientEnds(n) PROVE Calm
  <2> DEFINE S == {s \in Tracked(sharedSubs) \cup Tracked(pendingTeardowns) : shared[s].client = n}
  <2>1. S \in SUBSET Shareds
    BY DEF Tracked, TypeOK
  <2>2. Terminate(S, {clients[n].kind}) /\ UNCHANGED <<consumer, loader>>
    BY <1>7 DEF ClientEnds
  <2> HIDE DEF S
  <2>3. QED
    BY <2>1, <2>2, CalmTerminate
<1>8. ASSUME NEW n \in DOMAIN clients, ConnectionTokenFails(n) PROVE Calm
  BY <1>3, <1>8 DEF ConnectionTokenFails
<1>9. ASSUME NEW s \in Shareds, SubscriptionTokenFails(s) \/ Published(s) PROVE Calm
  BY <1>3, <1>9 DEF SubscriptionTokenFails, Published
<1>10. ASSUME NEW s \in Shareds, ChannelSubscribed(s) PROVE Calm
  <2>1. ASSUME NEW t \in Shareds PROVE GoesOn(shared[t], shared'[t])
    <3>1. shared[t] \in Objects
      BY <1>1
    <3>2. \/ shared'[t] = shared[t]
          \/ /\ shared[t].sub = "subscribing"
             /\ shared'[t] = [shared[t] EXCEPT !.sub = "subscribed", !.subEpoch = shared[t].subEpoch + 1]
      BY <1>1, <1>10 DEF ChannelSubscribed
    <3>3. QED
      BY <3>1, <3>2, SameGoesOn DEF GoesOn, Objects
  <2>2. UNCHANGED <<tables, client, consumer, clients>>
    BY <1>10 DEF ChannelSubscribed
  <2>3. QED
    BY <1>2, <2>1, <2>2, QuietCalm
<1>11. ASSUME NEW s \in Shareds, ChannelEnds(s) PROVE Calm
  <2>1. {s} \in SUBSET Shareds /\ Terminate({s}, IdleKinds({s})) /\ UNCHANGED <<consumer, loader>>
    BY <1>11 DEF ChannelEnds
  <2>2. QED
    BY <2>1, CalmTerminate
<1>12. QED
  BY <1>2, <1>4, <1>5, <1>6, <1>7, <1>8, <1>9, <1>10, <1>11
-----------------------------------------------------------------------------
(* Steps that attach, join and leave.                                      *)

Keeps(o, p) == p.channel = o.channel /\ p.client = o.client /\ (p.sub = "none" <=> o.sub = "none")

LEMMA KeptClients ==
    ASSUME TypeOK, ClientsInv, client' = client, Len(clients') = Len(clients),
           \A s \in Shareds : Keeps(shared[s], shared'[s]) \/ shared'[s].sub = "none",
           \A s \in Shareds : shared[s].channel \in Channels /\ shared'[s].sub # "none" /\ Tabled(s)
                              => Tabled(s)'
    PROVE  ClientsInv'
<1>1. ASSUME NEW s \in Shareds, shared'[s].sub # "none"
      PROVE  /\ shared[s].sub # "none" /\ shared'[s].channel = shared[s].channel
             /\ shared'[s].client = shared[s].client /\ Kind(s)' = Kind(s)
  BY <1>1 DEF Keeps, Kind
<1>2. OneSubscription'
  BY <1>1 DEF OneSubscription, ClientsInv
<1>3. ASSUME NEW s \in Shareds, shared'[s].sub # "none"
      PROVE  /\ shared'[s].channel \in Channels
             /\ 0 < shared'[s].client /\ shared'[s].client <= Len(clients')
             /\ shared'[s].client = client'[Kind(s)'] => Tabled(s)'
  BY <1>1, <1>3 DEF ClientsInv
<1>4. QED
  BY <1>2, <1>3 DEF ClientsInv

\* The one attached is in the table, and no other of its channel is.
LEMMA AttachedClients ==
    ASSUME TypeOK, ClientsInv, TablesInv', NEW s \in Shareds, NEW sh \in [Shareds -> Objects],
           NEW cl \in Seq(ClientRecords), Len(cl) = Len(clients), AttachNow(sh, s, cl),
           sh[s].channel \in Channels, sharedSubs'[sh[s].channel] = s,
           \A t \in Shareds \ {s} : sh[t] = shared[t],
           \A t \in Shareds \ {s} : shared[t].channel \in Channels /\ Tabled(t) => Tabled(t)'
    PROVE  ClientsInv'
<1> DEFINE k == KindOf(sh[s].channel)
           n == IF client[k] # 0 THEN client[k] ELSE Len(clients) + 1
<1>1. /\ client \in [Kinds -> Nat] /\ clients \in Seq(ClientRecords) /\ k \in Kinds
      /\ Len(clients) \in Nat /\ client[k] \in Nat
  BY KindTypes DEF TypeOK, ClientRecords
<1>2. /\ client' = [client EXCEPT ![k] = n]
      /\ shared' = [sh EXCEPT ![s] = [sh[s] EXCEPT !.sub = "subscribing", !.client = n]]
      /\ clients' = IF client[k] = 0 THEN Append(cl, [kind |-> k, state |-> "connecting"]) ELSE cl
  BY DEF AttachNow
<1>3. n \in Nat /\ 0 < n /\ (client[k] # 0 => n = client[k]) /\ (client[k] = 0 => n = Len(clients) + 1)
  BY <1>1
<1>4. [kind |-> k, state |-> "connecting"] \in ClientRecords
  BY <1>1 DEF ClientRecords
<1>5. shared'[s].channel = sh[s].channel /\ shared'[s].client = n /\ Kind(s)' = k /\ shared'[s].sub # "none"
  <2>1. sh[s] \in Objects
    OBVIOUS
  <2> HIDE DEF n
  <2>2. QED
    BY <1>2, <2>1 DEF Objects, Kind
<1> HIDE DEF k, n
<1>6. ASSUME NEW t \in Shareds, t # s
      PROVE  shared'[t] = shared[t] /\ Kind(t)' = Kind(t) /\ shared[t].client \in Nat
  BY <1>2, <1>6, SharedFields DEF Kind
<1>7. /\ Len(clients') = IF client[k] = 0 THEN Len(clients) + 1 ELSE Len(clients)
      /\ \A j \in Kinds : client'[j] = IF j = k THEN n ELSE client[j]
  BY <1>1, <1>2, <1>4, AppendTypes
<1>8. n <= Len(clients') /\ Len(clients) <= Len(clients')
  BY <1>1, <1>3, <1>7 DEF ClientsInv
<1>9. ASSUME NEW j \in Kinds PROVE client'[j] <= Len(clients')
  BY <1>1, <1>7, <1>8 DEF ClientsInv
\* What else is subscribed on the client attached to is in a table.
<1>10. ASSUME NEW t \in Shareds, t # s, shared[t].sub # "none", shared[t].client = client'[Kind(t)]
       PROVE  Tabled(t)'
  <2>1. /\ shared[t].channel \in Channels /\ shared[t].client <= Len(clients)
        /\ shared[t].client = client[Kind(t)] => Tabled(t)
    BY <1>10 DEF ClientsInv
  <2>2. client[Kind(t)] = client'[Kind(t)]
    BY <1>1, <1>3, <1>6, <1>7, <1>10, <2>1, SharedFields
  <2>3. QED
    BY <1>10, <2>1, <2>2
<1>11. ASSUME NEW t \in Shareds, shared'[t].sub # "none"
       PROVE  /\ shared'[t].channel \in Channels
              /\ 0 < shared'[t].client /\ shared'[t].client <= Len(clients')
              /\ shared'[t].client = client'[Kind(t)'] => Tabled(t)'
  <2>1. CASE t = s
    BY <1>3, <1>5, <1>8, <2>1 DEF Tabled
  <2>2. CASE t # s
    BY <1>1, <1>6, <1>7, <1>8, <1>10, <1>11, <2>2 DEF ClientsInv
  <2>3. QED
    BY <2>1, <2>2
<1>12. ASSUME NEW t \in Shareds, t # s, shared'[t].channel = shared'[s].channel, shared'[t].sub # "none"
       PROVE  shared'[t].client # n
  <2>1. SUFFICES ASSUME shared'[t].client = n PROVE FALSE
    OBVIOUS
  <2>2. Kind(t) = k /\ shared[t].client = client'[Kind(t)]
    BY <1>1, <1>5, <1>6, <1>7, <1>12, <2>1 DEF Kind
  <2>3. Tabled(t)'
    BY <1>6, <1>10, <1>12, <2>2
  <2>4. NoShared \notin Shareds
    BY RealtimeAssumption
  <2>5. QED
    BY <1>5, <1>12, <2>3, <2>4 DEF Tabled, TablesInv
<1>13. OneSubscription'
  BY <1>5, <1>6, <1>12 DEF OneSubscription, ClientsInv
<1>14. QED
  BY <1>9, <1>11, <1>13 DEF ClientsInv

\* A channel enters #sharedSubs, or stays there, with s.
LEMMA JoinedTables ==
    ASSUME TypeOK, TablesInv, NEW ch \in Channels, NEW s \in Shareds,
           sharedSubs' = [sharedSubs EXCEPT ![ch] = s],
           pendingTeardowns' = [pendingTeardowns EXCEPT ![ch] = NoShared],
           \A t \in Shareds \ {s} : shared'[t] = shared[t],
           shared'[s].channel = ch, shared'[s].epoch > 0,
           shared[s].channel = ch \/ shared[s].epoch = 0
    PROVE  TablesInv' /\ \A t \in Shareds \ {s} : /\ shared[t].channel \in Channels /\ shared'[t].sub # "none"
                                                  /\ sharedSubs[ch] # t /\ pendingTeardowns[ch] # t /\ Tabled(t)
                                                  => Tabled(t)'
<1>1. NoShared \notin Shareds
  BY RealtimeAssumption
<1>2. ASSUME NEW d \in Channels, d # ch
      PROVE  /\ sharedSubs'[d] = sharedSubs[d] /\ pendingTeardowns'[d] = pendingTeardowns[d]
             /\ sharedSubs[d] # s /\ pendingTeardowns[d] # s
  BY <1>2, SharedFields DEF TablesInv, TypeOK
<1>3. sharedSubs'[ch] = s /\ pendingTeardowns'[ch] = NoShared
  BY DEF TypeOK
<1>4. ASSUME NEW d \in Channels
      PROVE  /\ sharedSubs'[d] = NoShared \/ pendingTeardowns'[d] = NoShared
             /\ \A t \in Shareds : sharedSubs'[d] = t \/ pendingTeardowns'[d] = t =>
                                      shared'[t].channel = d /\ shared'[t].epoch > 0
  BY <1>1, <1>2, <1>3 DEF TablesInv
<1>5. TablesInv'
  BY <1>4 DEF TablesInv
<1>6. ASSUME NEW t \in Shareds, t # s, shared[t].channel \in Channels,
             sharedSubs[ch] # t, pendingTeardowns[ch] # t, Tabled(t)
      PROVE  Tabled(t)'
  BY <1>2, <1>6 DEF Tabled
<1>7. QED
  BY <1>5, <1>6

LEMMA JoinedCount ==
    ASSUME TypeOK, CountInv, NEW c \in Consumers, NEW s \in Shareds,
           consumer[c].s = NoShared, ~consumer[c].closed, Holds(c, s),
           shared'[s].consumers = shared[s].consumers + 1, shared'[s].epoch > 0,
           shared'[s].channel \in Channels,
           \A t \in Shareds \ {s} : shared'[t] = shared[t]
    PROVE  CountInv'
<1>1. NoShared \notin Shareds /\ IsFiniteSet(Consumers) /\ consumer \in [Consumers -> Closures]
  BY RealtimeAssumption DEF TypeOK
<1>2. consumer'[c].s = s /\ ~consumer'[c].closed /\ \A d \in Consumers \ {c} : consumer'[d] = consumer[d]
  <2>1. consumer[c] \in Closures
    BY <1>1
  <2>2. QED
    BY <1>1, <2>1 DEF Holds, Closures
<1>3. Holding(s)' = Holding(s) \cup {c} /\ c \notin Holding(s)
  BY <1>1, <1>2 DEF Holding
<1>4. IsFiniteSet(Holding(s))
  BY <1>1, FS_Subset DEF Holding
<1>5. Cardinality(Holding(s)') = Cardinality(Holding(s)) + 1
  BY <1>3, <1>4, FS_AddElement
<1>6. ASSUME NEW t \in Shareds, t # s
      PROVE  /\ shared'[t].consumers = Cardinality(Holding(t)')
             /\ \A d \in Consumers : consumer'[d].s = t => shared'[t].epoch > 0
                                                          /\ shared'[t].channel \in Channels
  <2>1. Holding(t)' = Holding(t)
    BY <1>1, <1>2, <1>6 DEF Holding
  <2>2. shared'[t] = shared[t]
    BY <1>6
  <2>3. QED
    BY <1>2, <1>6, <2>1, <2>2 DEF CountInv
<1>7. shared'[s].consumers = Cardinality(Holding(s)')
  BY <1>5 DEF CountInv
<1>8. QED
  BY <1>6, <1>7 DEF CountInv
LEMMA LaterCalm ==
    ASSUME NEW job \in Jobs, ~IsEntry(job), Later(job)
    PROVE  CalmMicro
  BY DEF Later, CalmMicro

LEMMA StepDispose ==
    ASSUME AttachInv, NEW c \in Consumers, Dispose(c)
    PROVE  AttachInv'
<1>1. /\ TypeOK /\ consumer \in [Consumers -> Closures] /\ consumer[c] \in Closures
      /\ shared \in [Shareds -> Objects] /\ NoShared \notin Shareds /\ IsFiniteSet(Consumers)
  BY RealtimeAssumption DEF AttachInv, TypeOK
<1>2. PICK s \in Shareds : s = consumer[c].s /\ ~consumer[c].closed
  BY <1>1 DEF Dispose, Disposable, Closures
<1> DEFINE last == shared[s].consumers <= 1 /\ IsTracked(s)
<1>3. /\ shared' = [shared EXCEPT ![s] = [shared[s] EXCEPT !.consumers = shared[s].consumers - 1,
                                                          !.handlers = shared[s].handlers \ {c}]]
      /\ consumer' = [consumer EXCEPT ![c] = [consumer[c] EXCEPT !.closed = TRUE]]
      /\ UNCHANGED <<client, loader, clients>>
  BY <1>2 DEF Dispose
<1>4. c \in Holding(s) /\ IsFiniteSet(Holding(s)) /\ shared[s].consumers = Cardinality(Holding(s))
      /\ shared[s].epoch > 0 /\ shared[s].channel \in Channels
  BY <1>1, <1>2, FS_Subset DEF Holding, AttachInv, CountInv
<1>5. shared[s].consumers > 0
  BY <1>4, FS_CardinalityType, FS_EmptySet
<1>6. TypeOK'
  BY <1>1, <1>5, <1>2, DisposeTypes
<1>7. ASSUME NEW t \in Shareds
      PROVE  /\ Keeps(shared[t], shared'[t]) /\ Ages(shared[t], shared'[t])
             /\ shared'[t].epoch = shared[t].epoch
             /\ shared'[t].consumers = IF t = s THEN shared[t].consumers - 1 ELSE shared[t].consumers
  <2>1. shared[t] \in Objects
    BY <1>1
  <2>2. shared[t].epoch \in Nat
    BY <2>1 DEF Objects
  <2>3. CASE t # s
    BY <1>3, <2>2, <2>3 DEF Keeps, Ages
  <2>4. CASE t = s
    <3>1. shared'[t] = [shared[t] EXCEPT !.consumers = shared[t].consumers - 1,
                                         !.handlers = shared[t].handlers \ {c}]
      BY <1>1, <1>3, <2>4
    <3>2. QED
      BY <2>1, <2>2, <2>4, <3>1 DEF Keeps, Ages, Objects
  <2>5. QED
    BY <2>3, <2>4
<1>8. /\ consumer'[c].s = s /\ consumer'[c].closed
      /\ \A d \in Consumers \ {c} : consumer'[d] = consumer[d]
  BY <1>1, <1>2, <1>3 DEF Closures
<1>9. CountInv'
  <2>1. ASSUME NEW t \in Shareds, t # s PROVE Holding(t)' = Holding(t)
    BY <1>2, <1>8, <2>1 DEF Holding
  <2>2. Holding(s)' = Holding(s) \ {c}
    BY <1>2, <1>8 DEF Holding
  <2>3. Cardinality(Holding(s)') = Cardinality(Holding(s)) - 1
    BY <1>4, <2>2, FS_RemoveElement
  <2>4. ASSUME NEW t \in Shareds
        PROVE  /\ shared'[t].consumers = Cardinality(Holding(t)')
               /\ \A d \in Consumers : consumer'[d].s = t => shared'[t].epoch > 0 /\ shared'[t].channel \in Channels
    <3>1. /\ shared[t].consumers = Cardinality(Holding(t))
          /\ \A d \in Consumers : consumer[d].s = t => shared[t].epoch > 0 /\ shared[t].channel \in Channels
      BY DEF AttachInv, CountInv
    <3>2. shared'[t].consumers = Cardinality(Holding(t)')
      BY <1>4, <1>7, <2>1, <2>3, <3>1
    <3>3. \A d \in Consumers : consumer'[d].s = t => consumer[d].s = t
      BY <1>2, <1>8
    <3>4. shared'[t].channel = shared[t].channel /\ shared'[t].epoch = shared[t].epoch
      BY <1>7 DEF Keeps
    <3>5. QED
      BY <3>1, <3>2, <3>3, <3>4
  <2>5. QED
    BY <2>4 DEF CountInv
<1>10. CASE last
  <2>1. /\ sharedSubs' = Without(sharedSubs, {s})
        /\ pendingTeardowns' = [pendingTeardowns EXCEPT ![shared[s].channel] = s]
        /\ Later([do |-> "teardown", s |-> s]) /\ IsTracked(s)
    BY <1>2, <1>10 DEF Dispose
  <2>2. shared[s].channel \in Channels
    BY <1>4
  <2>3. CalmMicro
    <3>1. [do |-> "teardown", s |-> s] \in Jobs /\ ~IsEntry([do |-> "teardown", s |-> s])
      BY <1>2 DEF Jobs, IsEntry
    <3>2. QED
      BY <2>1, <3>1, LaterCalm
  <2>4. ASSUME NEW d \in Channels
        PROVE  /\ sharedSubs'[d] = IF sharedSubs[d] = s THEN NoShared ELSE sharedSubs[d]
               /\ pendingTeardowns'[d] = IF d = shared[s].channel THEN s ELSE pendingTeardowns[d]
    BY <1>1, <2>1 DEF Without, TypeOK
  <2>5. pendingTeardowns[shared[s].channel] = NoShared /\ sharedSubs[shared[s].channel] = s
    BY <1>1, <1>2, <2>1, <2>2 DEF AttachInv, TablesInv, IsTracked
  <2>6. TablesInv'
    <3>1. ASSUME NEW d \in Channels, NEW t \in Shareds, sharedSubs'[d] = t \/ pendingTeardowns'[d] = t
          PROVE  shared'[t].channel = d /\ shared'[t].epoch > 0
      <4>1. sharedSubs[d] = t \/ pendingTeardowns[d] = t \/ (t = s /\ d = shared[s].channel)
        BY <1>1, <2>4, <3>1
      <4>2. shared[t].channel = d /\ shared[t].epoch > 0
        BY <1>4, <4>1 DEF AttachInv, TablesInv
      <4>3. QED
        BY <1>7, <4>2 DEF Keeps
    <3>2. ASSUME NEW d \in Channels PROVE sharedSubs'[d] = NoShared \/ pendingTeardowns'[d] = NoShared
      BY <2>4, <2>5 DEF AttachInv, TablesInv
    <3>3. QED
      BY <3>1, <3>2 DEF TablesInv
  <2>7. ASSUME NEW t \in Shareds, shared[t].channel \in Channels, Tabled(t)
        PROVE  Tabled(t)'
    BY <1>1, <1>2, <1>7, <2>4, <2>5, <2>7 DEF Tabled, Keeps
  <2>8. ClientsInv'
    BY <1>3, <1>7, <2>7, KeptClients DEF AttachInv
  <2>9. EntriesInv'
    BY <1>3, <1>7, <2>3, AgedEntries DEF AttachInv
  <2>10. QED
    BY <1>6, <1>9, <2>6, <2>8, <2>9 DEF AttachInv
<1>11. CASE ~last
  <2>1. UNCHANGED <<sharedSubs, pendingTeardowns, micro>>
    BY <1>2, <1>11 DEF Dispose, tables
  <2>2. TablesInv'
    BY <1>7, <2>1 DEF AttachInv, TablesInv, Keeps
  <2>3. ASSUME NEW t \in Shareds PROVE Tabled(t)' = Tabled(t)
    BY <1>7, <2>1 DEF Tabled, Keeps
  <2>4. ClientsInv'
    BY <1>3, <1>7, <2>3, KeptClients DEF AttachInv
  <2>5. EntriesInv'
    BY <1>3, <1>7, <2>1, AgedEntries DEF AttachInv, CalmMicro
  <2>6. QED
    BY <1>6, <1>9, <2>2, <2>4, <2>5 DEF AttachInv
<1>12. QED
  BY <1>10, <1>11
\* The microtask that attaches.
LEMMA StepAttachLoaded ==
    ASSUME AttachInv, RunMicrotask, AttachWhenLoaded(Head(micro)), Attaches(Head(micro))
    PROVE  AttachInv'
<1>1. PICK job : job = Head(micro)
  OBVIOUS
<1>2. /\ TypeOK /\ shared \in [Shareds -> Objects] /\ clients \in Seq(ClientRecords)
      /\ micro \in Seq(Jobs) /\ micro # <<>> /\ micro' = Tail(micro) /\ loader' = loader
      /\ 1 \in DOMAIN micro /\ micro[1] = job /\ IsEntry(job)
  BY <1>1 DEF AttachInv, TypeOK, ClientRecords, RunMicrotask, AttachWhenLoaded, IsEntry
<1>3. PICK s \in Shareds : s = job.s
  BY <1>2, EntryFields
<1>4. /\ shared[s].epoch = job.epoch /\ shared[s].sub = "none" /\ shared[s].channel \in Channels
      /\ sharedSubs[shared[s].channel] = s
  BY <1>1, <1>2, <1>3 DEF AttachInv, EntriesInv, Begun, Attaches, IsAwaited, IsTracked
<1>5. AttachNow(shared, s, clients) /\ UNCHANGED <<sharedSubs, pendingTeardowns, consumer>>
  BY <1>1, <1>3 DEF Attaches, tables
<1>6. TypeOK'
  BY <1>2, MicrotaskTypes
<1>7. ASSUME NEW t \in Shareds
      PROVE  /\ shared'[t].channel = shared[t].channel /\ shared'[t].epoch = shared[t].epoch
             /\ shared'[t].consumers = shared[t].consumers
             /\ t # s => shared'[t] = shared[t]
  <2>1. shared[t] \in Objects
    BY <1>2
  <2>2. PICK n : shared' = [shared EXCEPT ![s] = [shared[s] EXCEPT !.sub = "subscribing", !.client = n]]
    BY <1>5 DEF AttachNow
  <2>3. QED
    BY <1>2, <2>1, <2>2 DEF Objects
<1>8. CountInv'
  <2>1. \A t \in Shareds : Holding(t)' = Holding(t)
    BY <1>5 DEF Holding
  <2>2. QED
    BY <1>5, <1>7, <2>1 DEF AttachInv, CountInv
<1>9. TablesInv'
  BY <1>5, <1>7 DEF AttachInv, TablesInv
<1>10. ClientsInv'
  <2>1. \A t \in Shareds : Tabled(t)' = Tabled(t)
    BY <1>5, <1>7 DEF Tabled
  <2>2. sharedSubs'[shared[s].channel] = s
    BY <1>4, <1>5
  <2>3. QED
    BY <1>2, <1>4, <1>5, <1>9, <2>1, <2>2, AttachedClients DEF AttachInv
<1>11. EntriesInv'
  <2>1. ASSUME NEW e, e.s \in Shareds, e.epoch \in Nat, Begun(shared, e), ~Same(e, job)
        PROVE  Begun(shared', e)
    BY <1>3, <1>4, <1>7, <2>1 DEF Begun, Same
  <2>2. ASSUME NEW i \in DOMAIN loader.waiting PROVE Begun(shared', loader.waiting[i])
    BY <1>2, <2>1, EntryFields DEF AttachInv, EntriesInv
  <2>3. \A i \in DOMAIN micro' : i \in Nat /\ i > 0 /\ i + 1 \in DOMAIN micro /\ micro'[i] = micro[i + 1]
    BY <1>2
  <2>4. ASSUME NEW i \in DOMAIN micro', IsEntry(micro'[i]) PROVE Begun(shared', micro'[i])
    <3>1. i + 1 \in DOMAIN micro /\ i + 1 # 1 /\ micro'[i] = micro[i + 1]
      BY <2>3
    <3>2. ~Same(micro[i + 1], micro[1]) /\ Begun(shared, micro[i + 1])
      BY <1>2, <2>4, <3>1 DEF AttachInv, EntriesInv
    <3>3. micro[i + 1].s \in Shareds /\ micro[i + 1].epoch \in Nat
      BY <1>2, <2>4, <3>1, EntryFields
    <3>4. QED
      BY <1>2, <2>1, <3>1, <3>2, <3>3
  <2>5. ASSUME NEW i \in DOMAIN micro', NEW j \in DOMAIN micro', i # j,
               IsEntry(micro'[i]), IsEntry(micro'[j])
        PROVE  ~Same(micro'[i], micro'[j])
    <3>1. /\ micro'[i] = micro[i + 1] /\ i + 1 \in DOMAIN micro
          /\ micro'[j] = micro[j + 1] /\ j + 1 \in DOMAIN micro /\ i + 1 # j + 1
      BY <2>3, <2>5
    <3>2. QED
      BY <2>5, <3>1 DEF AttachInv, EntriesInv
  <2>6. ASSUME NEW i \in DOMAIN loader.waiting, NEW j \in DOMAIN micro', IsEntry(micro'[j])
        PROVE  ~Same(loader.waiting[i], micro'[j])
    BY <2>3, <2>6 DEF AttachInv, EntriesInv
  <2>7. QED
    BY <1>2, <2>2, <2>4, <2>5, <2>6 DEF AttachInv, EntriesInv, Begun, Same, IsEntry
<1>12. QED
  BY <1>6, <1>8, <1>9, <1>10, <1>11 DEF AttachInv

\* A loader that settles hands its attachments, in order, to the microtasks.
LEMMA StepLoader ==
    ASSUME AttachInv, LoaderSettles
    PROVE  AttachInv'
<1>1. TypeOK /\ micro = <<>> /\ UNCHANGED <<sharedSubs, pendingTeardowns, shared, client, consumer, clients>>
  BY DEF AttachInv, LoaderSettles, Idle, tables
<1>2. PICK ok \in BOOLEAN :
         /\ loader'.waiting = <<>>
         /\ micro' = [i \in DOMAIN loader.waiting |->
                         [do |-> "attach", s |-> loader.waiting[i].s,
                          epoch |-> loader.waiting[i].epoch, ok |-> ok]]
  BY DEF LoaderSettles
<1>3. TypeOK'
  BY <1>1, LoaderTypes
<1>4. CountInv'
  BY <1>1 DEF AttachInv, CountInv, Holding
<1>5. TablesInv' /\ ClientsInv'
  BY <1>1 DEF AttachInv, TablesInv, ClientsInv, OneSubscription, Tabled, Kind
<1>6. EntriesInv'
  <2>1. DOMAIN micro' = DOMAIN loader.waiting
        /\ \A i \in DOMAIN micro' : Same(micro'[i], loader.waiting[i])
    BY <1>2 DEF Same
  <2>2. \A i \in DOMAIN micro' : Begun(shared', micro'[i])
    BY <1>1, <2>1 DEF AttachInv, EntriesInv, Begun, Same
  <2>3. \A i, j \in DOMAIN micro' : i # j => ~Same(micro'[i], micro'[j])
    BY <2>1 DEF AttachInv, EntriesInv, Same
  <2>4. DOMAIN loader'.waiting = {}
    BY <1>2
  <2>5. QED
    BY <2>2, <2>3, <2>4 DEF EntriesInv, Begun, Same
<1>7. QED
  BY <1>3, <1>4, <1>5, <1>6 DEF AttachInv
-----------------------------------------------------------------------------
(* subscribe().                                                            *)

\* What the tables look like when a subscribe looks up channel ch, and after it
\* has found or made s.
Finds(ch, s) ==
    /\ \/ /\ sharedSubs[ch] = s \/ pendingTeardowns[ch] = s
          /\ shared[s].channel = ch /\ shared[s].epoch > 0
       \/ sharedSubs[ch] = NoShared /\ pendingTeardowns[ch] = NoShared /\ shared[s].epoch = 0
    /\ sharedSubs[ch] \in {NoShared, s} /\ pendingTeardowns[ch] \in {NoShared, s}
Enters(ch, s) ==
    /\ sharedSubs' = [sharedSubs EXCEPT ![ch] = s]
    /\ pendingTeardowns' = [pendingTeardowns EXCEPT ![ch] = NoShared]

LEMMA EntersTables ==
    ASSUME TypeOK, TablesInv, NEW ch \in Channels, NEW s \in Shareds, Finds(ch, s), Enters(ch, s),
           \A t \in Shareds \ {s} : shared'[t] = shared[t],
           shared'[s].channel = ch, shared'[s].epoch > 0
    PROVE  /\ TablesInv'
           /\ sharedSubs'[ch] = s
           /\ \A t \in Shareds : shared[t].channel \in Channels /\ shared'[t].sub # "none" /\ Tabled(t)
                                 => Tabled(t)'
<1>1. NoShared \notin Shareds
  BY RealtimeAssumption
<1>2. sharedSubs'[ch] = s
  BY DEF Enters, TypeOK
<1>3. shared[s].channel = ch \/ shared[s].epoch = 0
  BY DEF Finds
<1>4. sharedSubs' = [sharedSubs EXCEPT ![ch] = s]
      /\ pendingTeardowns' = [pendingTeardowns EXCEPT ![ch] = NoShared]
  BY DEF Enters
<1>5. TablesInv' /\ \A t \in Shareds \ {s} : /\ shared[t].channel \in Channels /\ shared'[t].sub # "none"
                                             /\ sharedSubs[ch] # t /\ pendingTeardowns[ch] # t /\ Tabled(t)
                                             => Tabled(t)'
  BY <1>3, <1>4, JoinedTables
<1>6. ASSUME NEW t \in Shareds, shared[t].channel \in Channels, shared'[t].sub # "none", Tabled(t)
      PROVE  Tabled(t)'
  <2>1. CASE t = s
    BY <1>2, <2>1 DEF Tabled
  <2>2. CASE t # s
    BY <1>1, <1>5, <1>6, <2>2 DEF Finds
  <2>3. QED
    BY <2>1, <2>2
<1>7. QED
  BY <1>2, <1>5, <1>6

\* A consumer refused has nothing.
LEMMA RefuseKeeps ==
    ASSUME AttachInv, NEW c \in Consumers, consumer[c].s = NoShared, Refuse(c)
    PROVE  /\ CountInv' /\ EntriesInv' /\ UNCHANGED <<shared, client, clients>>
           /\ \A s \in Shareds : Keeps(shared[s], shared'[s])
<1>1. /\ TypeOK /\ NoShared \notin Shareds /\ consumer[c] \in Closures
      /\ consumer \in [Consumers -> Closures]
  BY RealtimeAssumption DEF AttachInv, TypeOK
<1>2. /\ UNCHANGED <<shared, client, clients, loader>>
      /\ consumer' = [consumer EXCEPT ![c] = [consumer[c] EXCEPT !.closed = TRUE]]
      /\ Later([do |-> "report", c |-> c])
  BY DEF Refuse
<1>3. \A d \in Consumers : consumer'[d].s = consumer[d].s /\ (d # c => consumer'[d] = consumer[d])
  BY <1>1, <1>2 DEF Closures
<1>4. ASSUME NEW s \in Shareds PROVE Holding(s)' = Holding(s)
  BY <1>1, <1>3 DEF Holding
<1>5. CountInv'
  BY <1>2, <1>3, <1>4 DEF AttachInv, CountInv
<1>6. EntriesInv'
  <2>1. [do |-> "report", c |-> c] \in Jobs /\ ~IsEntry([do |-> "report", c |-> c])
    BY DEF Jobs, IsEntry
  <2>2. \A s \in Shareds : Ages(shared[s], shared'[s])
    BY <1>1, <1>2, SharedFields DEF Ages
  <2>3. QED
    BY <1>1, <1>2, <2>1, <2>2, LaterCalm, AgedEntries DEF AttachInv
<1>7. QED
  BY <1>2, <1>5, <1>6 DEF Keeps

LEMMA ShareEffect ==
    ASSUME TypeOK, NEW c \in Consumers, NEW s \in Shareds, NEW sh \in {shared, Resumed(s)}, Share(c, s, sh)
    PROVE  /\ \A t \in Shareds \ {s} : shared'[t] = shared[t]
           /\ Keeps(shared[s], shared'[s]) /\ shared'[s].epoch = shared[s].epoch
           /\ shared'[s].consumers = shared[s].consumers + 1
           /\ CalmMicro /\ UNCHANGED <<client, loader>> /\ Len(clients') = Len(clients)
<1>1. shared \in [Shareds -> Objects] /\ shared[s] \in Objects /\ clients \in Seq(ClientRecords)
      /\ shared[s].client \in Nat /\ shared[s].subEpoch \in Nat
  BY SharedFields DEF TypeOK, ClientRecords, Objects
<1>2. /\ sh \in [Shareds -> Objects] /\ sh[s] \in Objects
      /\ \A t \in Shareds \ {s} : sh[t] = shared[t]
      /\ Keeps(shared[s], sh[s]) /\ sh[s].epoch = shared[s].epoch /\ sh[s].consumers = shared[s].consumers
  <2>1. Resumed(s) \in [Shareds -> Objects]
    BY <1>1, SharedTypes DEF Resumed
  <2>2. CASE sh = shared
    BY <1>1, <2>2 DEF Keeps
  <2>3. CASE sh = Resumed(s)
    <3>1. Resumed(s) = [shared EXCEPT ![s] = [shared[s] EXCEPT
                          !.sub = IF shared[s].sub = "unsubscribed" THEN "subscribing" ELSE shared[s].sub]]
      BY DEF Resumed
    <3>2. /\ sh[s] = [shared[s] EXCEPT
                      !.sub = IF shared[s].sub = "unsubscribed" THEN "subscribing" ELSE shared[s].sub]
          /\ sh[s] \in Objects /\ \A t \in Shareds \ {s} : sh[t] = shared[t]
      BY <1>1, <2>1, <2>3, <3>1
    <3>3. /\ sh[s].channel = shared[s].channel /\ sh[s].client = shared[s].client
          /\ sh[s].epoch = shared[s].epoch /\ sh[s].consumers = shared[s].consumers
          /\ (sh[s].sub = "none" <=> shared[s].sub = "none")
      BY <1>1, <3>2 DEF Objects
    <3>4. QED
      BY <2>1, <2>3, <3>2, <3>3 DEF Keeps
  <2>4. QED
    BY <2>2, <2>3
<1>3. shared' = Restarted(Joined(sh, s, c), s)
  BY DEF Share
<1>4. PICK j : j = Joined(sh, s, c)
  OBVIOUS
<1>5. /\ j \in [Shareds -> Objects] /\ j[s] \in Objects
      /\ \A t \in Shareds \ {s} : j[t] = sh[t]
  <2>1. j \in [Shareds -> Objects]
    BY <1>2, <1>4, SharedTypes
  <2>2. QED
    BY <1>2, <1>4, <2>1 DEF Joined
<1>6. j[s].channel = sh[s].channel /\ j[s].client = sh[s].client /\ j[s].epoch = sh[s].epoch
      /\ j[s].sub = sh[s].sub /\ j[s].consumers = sh[s].consumers + 1
  BY <1>2, <1>4 DEF Joined, Objects
<1>7. \/ shared' = j
      \/ j[s].sub = "unsubscribed" /\ shared' = [j EXCEPT ![s] = [j[s] EXCEPT !.sub = "subscribing"]]
  BY <1>3, <1>4 DEF Restarted
<1>8. /\ \A t \in Shareds \ {s} : shared'[t] = shared[t]
      /\ Keeps(shared[s], shared'[s]) /\ shared'[s].epoch = shared[s].epoch
      /\ shared'[s].consumers = shared[s].consumers + 1
  <2>1. CASE shared' = j
    BY <1>2, <1>5, <1>6, <2>1 DEF Keeps
  <2>2. CASE /\ j[s].sub = "unsubscribed"
             /\ shared' = [j EXCEPT ![s] = [j[s] EXCEPT !.sub = "subscribing"]]
    <3>1. shared'[s] = [j[s] EXCEPT !.sub = "subscribing"] /\ \A t \in Shareds \ {s} : shared'[t] = j[t]
      BY <1>5, <2>2
    <3>2. /\ shared'[s].channel = j[s].channel /\ shared'[s].client = j[s].client
          /\ shared'[s].epoch = j[s].epoch /\ shared'[s].consumers = j[s].consumers
          /\ shared'[s].sub = "subscribing"
      BY <1>5, <3>1 DEF Objects
    <3>3. QED
      BY <1>2, <1>5, <1>6, <2>2, <3>1, <3>2 DEF Keeps
  <2>3. QED
    BY <1>7, <2>1, <2>2
<1>9. CalmMicro
  <2>1. [do |-> "late", c |-> c, s |-> s, epoch |-> shared[s].subEpoch] \in Jobs
        /\ ~IsEntry([do |-> "late", c |-> c, s |-> s, epoch |-> shared[s].subEpoch])
    BY <1>1 DEF Jobs, IsEntry
  <2>2. QED
    BY <2>1, LaterCalm DEF Share, CalmMicro
<1>10. Len(clients') = Len(clients) /\ UNCHANGED <<client, loader>>
  <2>1. clients' = Reconnected(shared[s].client, Kind(s)) /\ UNCHANGED <<client, loader>>
    BY DEF Share
  <2>2. Len(Reconnected(shared[s].client, Kind(s))) = Len(clients)
    BY <1>1 DEF Reconnected
  <2>3. QED
    BY <2>1, <2>2
<1>11. QED
  BY <1>8, <1>9, <1>10

\* A subscribe that joins what is attached.
LEMMA StepShare ==
    ASSUME AttachInv, NEW c \in Consumers, NEW ch \in Channels, NEW s \in Shareds,
           NEW sh \in {shared, Resumed(s)}, Share(c, s, sh), Holds(c, s),
           consumer[c].s = NoShared, ~consumer[c].closed,
           Finds(ch, s), Enters(ch, s), shared[s].epoch > 0
    PROVE  CountInv' /\ TablesInv' /\ ClientsInv' /\ EntriesInv'
<1>1. TypeOK /\ shared[s].channel = ch
  BY DEF AttachInv, Finds
<1>2. /\ \A t \in Shareds \ {s} : shared'[t] = shared[t]
      /\ Keeps(shared[s], shared'[s]) /\ shared'[s].epoch = shared[s].epoch
      /\ shared'[s].consumers = shared[s].consumers + 1
      /\ CalmMicro /\ UNCHANGED <<client, loader>> /\ Len(clients') = Len(clients)
  BY <1>1, ShareEffect
<1>3. shared'[s].channel = ch /\ shared'[s].epoch > 0
  BY <1>1, <1>2 DEF Keeps
<1>4. CountInv'
  BY <1>1, <1>2, <1>3, JoinedCount DEF AttachInv
<1>5. /\ TablesInv'
      /\ \A t \in Shareds : shared[t].channel \in Channels /\ shared'[t].sub # "none" /\ Tabled(t)
                            => Tabled(t)'
  BY <1>1, <1>2, <1>3, EntersTables DEF AttachInv
<1>6. \A t \in Shareds : Keeps(shared[t], shared'[t]) /\ Ages(shared[t], shared'[t])
  <2>1. ASSUME NEW t \in Shareds PROVE Keeps(shared[t], shared'[t]) /\ Ages(shared[t], shared'[t])
    BY <1>1, <1>2, SharedFields DEF Keeps, Ages
  <2>2. QED
    BY <2>1
<1>7. ClientsInv'
  BY <1>1, <1>2, <1>5, <1>6, KeptClients DEF AttachInv
<1>8. EntriesInv'
  BY <1>1, <1>2, <1>6, AgedEntries DEF AttachInv
<1>9. QED
  BY <1>4, <1>5, <1>7, <1>8
\* A subscribe that attaches, now or when Centrifuge is loaded.
LEMMA StepAttaching ==
    ASSUME AttachInv, NEW c \in Consumers, NEW ch \in Channels, NEW s \in Shareds,
           NEW sh \in [Shareds -> Objects], \A t \in Shareds \ {s} : sh[t] = shared[t],
           sh[s].sub = "none", sh[s].channel = ch, sh[s].epoch = shared[s].epoch,
           sh[s].consumers = shared[s].consumers,
           Attach(c, s, sh), Holds(c, s), consumer[c].s = NoShared, ~consumer[c].closed,
           Finds(ch, s), Enters(ch, s)
    PROVE  CountInv' /\ TablesInv' /\ ClientsInv' /\ EntriesInv'
<1>1. TypeOK /\ sh[s] \in Objects /\ shared[s] \in Objects /\ clients \in Seq(ClientRecords)
      /\ shared[s].epoch \in Nat /\ shared[s].consumers \in Nat
      /\ (shared[s].epoch > 0 => shared[s].channel = ch)
  BY SharedFields DEF AttachInv, TypeOK, ClientRecords, Finds
<1>2. PICK joined : joined = [sh EXCEPT ![s].epoch = @ + 1, ![s].consumers = @ + 1,
                                        ![s].handlers = @ \cup {c}]
  OBVIOUS
<1>3. joined \in [Shareds -> Objects] /\ joined[s] \in Objects
  <2>1. joined \in [Shareds -> Objects]
    BY <1>2, SharedTypes
  <2>2. QED
    BY <2>1
<1>4. /\ joined[s].channel = ch /\ joined[s].sub = "none" /\ joined[s].epoch = shared[s].epoch + 1
      /\ joined[s].consumers = shared[s].consumers + 1
      /\ \A t \in Shareds \ {s} : joined[t] = shared[t]
  BY <1>1, <1>2 DEF Objects
<1>5. CASE loader.state = "loaded"
  <2> DEFINE k == KindOf(sh[s].channel)
  <2>1. /\ AttachNow(joined, s, Reconnected(client[k], k))
        /\ UNCHANGED <<micro, loader>>
    BY <1>2, <1>5 DEF Attach
  <2>2. Reconnected(client[k], k) \in Seq(ClientRecords) /\ Len(Reconnected(client[k], k)) = Len(clients)
    <3>1. client[k] \in Nat
      BY <1>1, KindTypes DEF TypeOK
    <3> HIDE DEF k
    <3>2. Reconnected(client[k], k) \in Seq(ClientRecords)
      BY <1>1, <3>1, ReconnectedTypes
    <3>3. Len(Reconnected(client[k], k)) = Len(clients)
      BY <1>1 DEF Reconnected
    <3>4. QED
      BY <3>2, <3>3
  <2> HIDE DEF k
  <2>3. PICK n : shared' = [joined EXCEPT ![s] = [joined[s] EXCEPT !.sub = "subscribing", !.client = n]]
    BY <2>1 DEF AttachNow
  <2>4. /\ shared'[s].channel = ch /\ shared'[s].epoch = shared[s].epoch + 1
        /\ shared'[s].consumers = shared[s].consumers + 1
        /\ \A t \in Shareds \ {s} : shared'[t] = shared[t]
    <3>1. shared'[s] = [joined[s] EXCEPT !.sub = "subscribing", !.client = n]
          /\ \A t \in Shareds \ {s} : shared'[t] = joined[t]
      BY <1>3, <2>3
    <3>2. QED
      BY <1>3, <1>4, <3>1 DEF Objects
  <2>5. shared'[s].epoch > 0 /\ shared'[s].epoch \in Nat
    BY <1>1, <2>4
  <2>6. CountInv'
    BY <1>1, <2>4, <2>5, JoinedCount DEF AttachInv
  <2>7. /\ TablesInv' /\ sharedSubs'[ch] = s
        /\ \A t \in Shareds : shared[t].channel \in Channels /\ shared'[t].sub # "none" /\ Tabled(t)
                              => Tabled(t)'
    BY <1>1, <2>4, <2>5, EntersTables DEF AttachInv
  <2>8. ASSUME NEW t \in Shareds \ {s}, shared[t].channel \in Channels, Tabled(t) PROVE Tabled(t)'
    BY <1>1, <2>4, <2>8, RealtimeAssumption DEF Finds, Enters, Tabled, TypeOK
  <2>9. ClientsInv'
    BY <1>1, <1>3, <1>4, <2>1, <2>2, <2>7, <2>8, AttachedClients DEF AttachInv
  <2>10. \A t \in Shareds : Ages(shared[t], shared'[t])
    <3>1. ASSUME NEW t \in Shareds PROVE Ages(shared[t], shared'[t])
      BY <1>1, <2>4, <2>5, SharedFields DEF Ages
    <3>2. QED
      BY <3>1
  <2>11. EntriesInv'
    BY <1>1, <2>1, <2>10, AgedEntries DEF AttachInv, CalmMicro
  <2>12. QED
    BY <2>6, <2>7, <2>9, <2>11
<1>6. CASE loader.state # "loaded"
  <2>1. PICK entry : entry = [s |-> s, epoch |-> joined[s].epoch]
    OBVIOUS
  <2>2. /\ shared' = joined /\ UNCHANGED <<client, clients, micro>>
        /\ loader'.waiting = Append(loader.waiting, entry)
    BY <1>2, <1>6, <2>1 DEF Attach
  <2>3. shared'[s].epoch > 0 /\ shared'[s].epoch \in Nat
    BY <1>1, <1>4, <2>2
  <2>4. CountInv'
    BY <1>1, <1>4, <2>2, <2>3, JoinedCount DEF AttachInv
  <2>5. /\ TablesInv' /\ sharedSubs'[ch] = s
        /\ \A t \in Shareds : shared[t].channel \in Channels /\ shared'[t].sub # "none" /\ Tabled(t)
                              => Tabled(t)'
    BY <1>1, <1>4, <2>2, <2>3, EntersTables DEF AttachInv
  <2>6. ClientsInv'
    <3>1. \A t \in Shareds : Keeps(shared[t], shared'[t]) \/ shared'[t].sub = "none"
      BY <1>4, <2>2 DEF Keeps
    <3>2. QED
      BY <1>1, <2>2, <2>5, <3>1, KeptClients DEF AttachInv
  <2>7. \A t \in Shareds : Ages(shared[t], shared'[t])
    <3>1. ASSUME NEW t \in Shareds PROVE Ages(shared[t], shared'[t])
      BY <1>1, <1>4, <2>2, <2>3, SharedFields DEF Ages
    <3>2. QED
      BY <3>1
\* The new attachment is later than all others of its subscription.
  <2>8. ASSUME NEW e, e.s \in Shareds, e.epoch \in Nat, Begun(shared, e)
        PROVE  Begun(shared', e) /\ ~Same(e, entry)
    <3>1. Begun(shared', e)
      BY <1>1, <2>7, <2>8, AgedBegun
    <3>2. e.s = s => e.epoch # entry.epoch
      BY <1>1, <1>4, <2>1, <2>8 DEF Begun
    <3>3. QED
      BY <2>1, <3>1, <3>2 DEF Same
  <2>9. loader.waiting \in Seq([s : Shareds, epoch : Nat]) /\ entry \in [s : Shareds, epoch : Nat]
        /\ Begun(shared', entry)
    <3>1. loader.waiting \in Seq([s : Shareds, epoch : Nat])
      BY <1>1 DEF TypeOK, Loaders
    <3>2. QED
      BY <1>4, <2>1, <2>2, <2>3, <3>1 DEF Begun
  <2>10. /\ DOMAIN loader.waiting = 1 .. Len(loader.waiting) /\ Len(loader.waiting) \in Nat
         /\ DOMAIN loader'.waiting = 1 .. Len(loader.waiting) + 1
         /\ loader'.waiting[Len(loader.waiting) + 1] = entry
         /\ \A i \in DOMAIN loader.waiting : loader'.waiting[i] = loader.waiting[i]
    BY <2>2, <2>9
  <2>11. /\ \A i \in DOMAIN loader.waiting : /\ Begun(shared', loader.waiting[i])
                                             /\ ~Same(loader.waiting[i], entry)
         /\ \A i \in DOMAIN micro : IsEntry(micro[i]) => /\ Begun(shared', micro[i])
                                                         /\ ~Same(micro[i], entry)
    BY <1>1, <2>8, EntryFields DEF AttachInv, EntriesInv
  <2>12. \A i \in DOMAIN loader'.waiting : i \in DOMAIN loader.waiting \/ i = Len(loader.waiting) + 1
    BY <2>10
  <2>13. \A i \in DOMAIN loader'.waiting : Begun(shared', loader'.waiting[i])
    BY <2>9, <2>10, <2>11, <2>12
  <2>14. ASSUME NEW i \in DOMAIN loader'.waiting, NEW j \in DOMAIN loader'.waiting, i # j
         PROVE  ~Same(loader'.waiting[i], loader'.waiting[j])
    <3>1. CASE i \in DOMAIN loader.waiting /\ j \in DOMAIN loader.waiting
      BY <2>10, <2>14, <3>1 DEF AttachInv, EntriesInv
    <3>2. CASE i \in DOMAIN loader.waiting /\ j = Len(loader.waiting) + 1
      BY <2>10, <2>11, <3>2
    <3>3. CASE i = Len(loader.waiting) + 1 /\ j \in DOMAIN loader.waiting
      BY <2>10, <2>11, <3>3 DEF Same
    <3>4. QED
      BY <2>12, <2>14, <3>1, <3>2, <3>3
  <2>15. ASSUME NEW i \in DOMAIN loader'.waiting, NEW j \in DOMAIN micro, IsEntry(micro[j])
         PROVE  ~Same(loader'.waiting[i], micro[j])
    <3>1. CASE i \in DOMAIN loader.waiting
      BY <2>10, <2>15, <3>1 DEF AttachInv, EntriesInv
    <3>2. CASE i = Len(loader.waiting) + 1
      BY <2>10, <2>11, <2>15, <3>2 DEF Same
    <3>3. QED
      BY <2>12, <3>1, <3>2
  <2>16. EntriesInv'
    <3>1. /\ \A i \in DOMAIN micro : IsEntry(micro[i]) => Begun(shared', micro[i])
          /\ \A i, j \in DOMAIN micro : i # j /\ IsEntry(micro[i]) /\ IsEntry(micro[j])
                                           => ~Same(micro[i], micro[j])
          /\ micro' = micro
      BY <2>2, <2>11 DEF AttachInv, EntriesInv
    <3>2. QED
      BY <2>13, <2>14, <2>15, <3>1 DEF EntriesInv, Begun, Same, IsEntry
  <2>17. QED
    BY <2>4, <2>5, <2>6, <2>16
<1>7. QED
  BY <1>5, <1>6
LEMMA StepSubscribe ==
    ASSUME AttachInv, NEW c \in Consumers, NEW ch \in Channels, Subscribe(c, ch)
    PROVE  AttachInv'
<1>1. /\ TypeOK /\ NoShared \notin Shareds /\ shared \in [Shareds -> Objects]
      /\ sharedSubs \in [Channels -> Shareds \cup {NoShared}]
      /\ pendingTeardowns \in [Channels -> Shareds \cup {NoShared}]
      /\ consumer[c].s = NoShared /\ ~consumer[c].closed
  BY RealtimeAssumption DEF AttachInv, TypeOK, Subscribe
<1>2. TypeOK'
  BY <1>1, SubscribeTypes
<1>3. SUFFICES CountInv' /\ TablesInv' /\ ClientsInv' /\ EntriesInv'
  BY <1>2 DEF AttachInv
<1>4. CASE SubscribeExisting(c, ch)
  <2>1. PICK s \in Shareds : s = sharedSubs[ch]
    BY <1>1, <1>4 DEF SubscribeExisting
  <2>2. Share(c, s, shared) /\ Holds(c, s) /\ UNCHANGED <<sharedSubs, pendingTeardowns>>
    BY <1>4, <2>1 DEF SubscribeExisting, tables
  <2>3. Finds(ch, s) /\ shared[s].epoch > 0 /\ pendingTeardowns[ch] = NoShared
    BY <1>1, <2>1 DEF AttachInv, TablesInv, Finds
  <2>4. Enters(ch, s)
    BY <1>1, <2>1, <2>2, <2>3 DEF Enters
  <2>5. QED
    BY <1>1, <2>2, <2>3, <2>4, StepShare
<1>5. CASE Revive(c, ch)
  <2>1. PICK s \in Shareds : s = pendingTeardowns[ch] /\ sharedSubs[ch] = NoShared
    BY <1>1, <1>5 DEF Revive
  <2>2. Enters(ch, s)
    BY <1>5, <2>1 DEF Revive, Enters
  <2>3. Finds(ch, s) /\ shared[s].epoch > 0 /\ shared[s].channel = ch
    BY <1>1, <2>1 DEF AttachInv, TablesInv, Finds
  <2>4. CASE Share(c, s, Resumed(s)) /\ Holds(c, s)
    BY <1>1, <2>2, <2>3, <2>4, StepShare
  <2>5. CASE Refuse(c)
    <3>1. /\ CountInv' /\ EntriesInv' /\ UNCHANGED <<shared, client, clients>>
          /\ \A t \in Shareds : Keeps(shared[t], shared'[t])
      BY <1>1, <2>5, RefuseKeeps
    <3>2. /\ TablesInv'
          /\ \A t \in Shareds : shared[t].channel \in Channels /\ shared'[t].sub # "none" /\ Tabled(t)
                                => Tabled(t)'
      BY <1>1, <2>2, <2>3, <3>1, EntersTables DEF AttachInv
    <3>3. ClientsInv'
      BY <1>1, <3>1, <3>2, KeptClients DEF AttachInv
    <3>4. QED
      BY <3>1, <3>2, <3>3
  <2>6. CASE shared[s].sub = "none" /\ Attach(c, s, shared) /\ Holds(c, s)
    BY <1>1, <2>2, <2>3, <2>6, StepAttaching
  <2>7. QED
    BY <1>5, <2>1, <2>4, <2>5, <2>6 DEF Revive
<1>6. CASE SubscribeNew(c, ch)
  <2>1. sharedSubs[ch] = NoShared /\ pendingTeardowns[ch] = NoShared /\ pendingTeardowns' = pendingTeardowns
    BY <1>6 DEF SubscribeNew
  <2>2. CASE Refuse(c) /\ UNCHANGED sharedSubs
    <3>1. /\ CountInv' /\ EntriesInv' /\ UNCHANGED <<shared, client, clients>>
          /\ \A t \in Shareds : Keeps(shared[t], shared'[t])
      BY <1>1, <2>2, RefuseKeeps
    <3>2. TablesInv' /\ \A t \in Shareds : Tabled(t)' = Tabled(t)
      BY <2>1, <2>2, <3>1 DEF AttachInv, TablesInv, Tabled
    <3>3. ClientsInv'
      BY <1>1, <3>1, <3>2, KeptClients DEF AttachInv
    <3>4. QED
      BY <3>1, <3>2, <3>3
  <2>3. ASSUME NEW s \in Shareds, shared[s].epoch = 0, sharedSubs' = [sharedSubs EXCEPT ![ch] = s],
               Attach(c, s, [shared EXCEPT ![s] = NewShared(ch)]), Holds(c, s)
        PROVE  CountInv' /\ TablesInv' /\ ClientsInv' /\ EntriesInv'
    <3>1. PICK sh : sh = [shared EXCEPT ![s] = NewShared(ch)]
      OBVIOUS
    <3>2. sh \in [Shareds -> Objects] /\ sh[s] = NewShared(ch) /\ \A t \in Shareds \ {s} : sh[t] = shared[t]
      BY <1>1, <3>1, NewSharedTypes
    <3>3. shared[s].consumers = 0
      <4>1. \A d \in Consumers : consumer[d].s # s
        BY <2>3 DEF AttachInv, CountInv
      <4>2. QED
        BY <4>1, FS_EmptySet DEF Holding, AttachInv, CountInv
    <3>4. Finds(ch, s) /\ Enters(ch, s)
      BY <1>1, <2>1, <2>3 DEF Finds, Enters
    <3>5. sh[s].sub = "none" /\ sh[s].channel = ch /\ sh[s].epoch = 0 /\ sh[s].consumers = 0
      BY <3>2 DEF NewShared
    <3>6. QED
      BY <1>1, <2>3, <3>1, <3>2, <3>3, <3>4, <3>5, StepAttaching
  <2>4. QED
    BY <1>6, <2>2, <2>3 DEF SubscribeNew
<1>7. QED
  BY <1>4, <1>5, <1>6 DEF Subscribe

-----------------------------------------------------------------------------

LEMMA StepCalm ==
    ASSUME AttachInv, TypeOK', Calm /\ CalmMicro
    PROVE  AttachInv'
  BY CalmAttach DEF AttachInv

LEMMA StepMicrotask ==
    ASSUME AttachInv, RunMicrotask
    PROVE  AttachInv'
<1>1. PICK job : job = Head(micro)
  OBVIOUS
<1>2. /\ TypeOK' /\ micro # <<>> /\ micro' = Tail(micro) /\ loader' = loader
      /\ \/ AttachWhenLoaded(job) \/ TellLate(job) \/ TeardownDue(job)
         \/ Report(job) \/ StopClient(job) \/ StopSubscription(job)
  BY <1>1, MicrotaskTypes DEF AttachInv, RunMicrotask
<1>3. CASE AttachWhenLoaded(job) /\ Attaches(job)
  BY <1>1, <1>3, StepAttachLoaded
<1>4. CASE ~(AttachWhenLoaded(job) /\ Attaches(job))
  <2>1. \/ AttachWhenLoaded(job) /\ ~Attaches(job)
        \/ TellLate(job) \/ TeardownDue(job)
        \/ Report(job) \/ StopClient(job) \/ StopSubscription(job)
    BY <1>2, <1>4
  <2>2. Calm /\ CalmMicro
    BY <1>1, <1>2, <2>1, CalmMicrotask
  <2>3. QED
    BY <1>2, <2>2, StepCalm
<1>5. QED
  BY <1>3, <1>4

LEMMA StepAttach == AttachInv /\ [Next]_vars => AttachInv'
<1> SUFFICES ASSUME AttachInv, [Next]_vars PROVE AttachInv'
  OBVIOUS
<1>1. TypeOK
  BY DEF AttachInv
<1>2. CASE Next
  <2>1. ASSUME NEW c \in Consumers, Dispose(c) PROVE AttachInv'
    BY <2>1, StepDispose
  <2>2. ASSUME NEW c \in Consumers, NEW ch \in Channels, Subscribe(c, ch) PROVE AttachInv'
    BY <2>2, StepSubscribe
  <2>3. CASE Disconnect \/ DisconnectPrivate
    BY <1>1, <2>3, DisconnectTypes, CalmDisconnect, StepCalm
  <2>4. CASE Proceed
    BY <1>1, <2>4, ProceedTypes, CalmProceed, StepCalm
  <2>5. CASE RunMicrotask
    BY <2>5, StepMicrotask
  <2>6. CASE LoaderSettles
    BY <2>6, StepLoader
  <2>7. CASE \/ AuthChanges
             \/ \E n \in DOMAIN clients : ClientConnects(n) \/ ClientDrops(n) \/ ClientEnds(n)
                                          \/ ConnectionTokenFails(n)
             \/ \E s \in Shareds : \/ SubscriptionTokenFails(s) \/ ChannelSubscribed(s)
                                    \/ ChannelEnds(s) \/ Published(s)
    <3>1. Calm /\ CalmMicro
      BY <1>1, <2>7, CalmEvents
    <3>2. TypeOK'
      <4>1. CASE AuthChanges
        BY <1>1, <4>1 DEF AuthChanges, TypeOK, tables
      <4>2. QED
        BY <1>1, <2>7, <4>1, ClientEventTypes, EndTypes, ChannelEventTypes
    <3>3. QED
      BY <3>1, <3>2, StepCalm
  <2>8. QED
    BY <1>2, <2>1, <2>2, <2>3, <2>4, <2>5, <2>6, <2>7 DEF Next, App, Events
<1>3. CASE UNCHANGED vars
  <2>1. TypeOK'
    BY <1>1, <1>3 DEF vars, tables, TypeOK
  <2>2. CountInv' /\ TablesInv'
    BY <1>3 DEF vars, tables, AttachInv, CountInv, Holding, TablesInv
  <2>3. ClientsInv'
    BY <1>3 DEF vars, tables, AttachInv, ClientsInv, OneSubscription, Tabled, Kind
  <2>4. EntriesInv'
    BY <1>3 DEF vars, AttachInv, EntriesInv, Begun, Same, IsEntry
  <2>5. QED
    BY <2>1, <2>2, <2>3, <2>4 DEF AttachInv
<1>4. QED
  BY <1>2, <1>3

\* The variables keep their types: above all, the consumers counted on a shared
\* subscription (SharedSubscription.consumers) never become negative.
THEOREM TypesHold == Spec => []TypeOK
<1>1. AttachInv => TypeOK
  BY DEF AttachInv
<1>2. QED
  BY InitAttach, StepAttach, <1>1, PTL DEF Spec

\* No two shared subscriptions of a channel are ever attached to one client
\* (#attachSubscriptionNow, after whatever its await has let happen).
THEOREM OneSubscriptionHolds == Spec => []OneSubscription
<1>1. AttachInv => OneSubscription
  BY DEF AttachInv, ClientsInv
<1>2. QED
  BY InitAttach, StepAttach, <1>1, PTL DEF Spec
-----------------------------------------------------------------------------
(* What a subscribe joins.                                                 *)

Running(s) == shared'[s].sub # "unsubscribed" /\ clients'[shared'[s].client].state # "disconnected"

LEMMA ReconnectedRuns ==
    ASSUME TypeOK, auth, NEW n \in DOMAIN clients
    PROVE  /\ Reconnected(n, "private") \in Seq(ClientRecords)
           /\ Len(Reconnected(n, "private")) = Len(clients)
           /\ Reconnected(n, "private")[n].state # "disconnected"
<1>1. clients \in Seq(ClientRecords) /\ clients[n] \in ClientRecords /\ n \in Nat /\ n # 0
  <2>1. clients \in Seq(ClientRecords)
    BY DEF TypeOK, ClientRecords
  <2>2. QED
    BY <2>1
<1>2. Reconnected(n, "private") \in Seq(ClientRecords)
  BY <1>1, ReconnectedTypes
<1>3. CASE clients[n].state = "disconnected"
  <2>1. Reconnected(n, "private") = [clients EXCEPT ![n] = [clients[n] EXCEPT !.state = "connecting"]]
    BY <1>1, <1>3 DEF Reconnected
  <2>2. PICK r : r = [clients[n] EXCEPT !.state = "connecting"]
    OBVIOUS
  <2>3. r.state = "connecting" /\ r \in ClientRecords
    BY <1>1, <2>2 DEF ClientRecords
  <2>4. [clients EXCEPT ![n] = r] \in Seq(ClientRecords) /\ [clients EXCEPT ![n] = r][n] = r
        /\ Len([clients EXCEPT ![n] = r]) = Len(clients)
    BY <1>1, <2>3
  <2>5. QED
    BY <1>2, <2>1, <2>2, <2>3, <2>4
<1>4. CASE clients[n].state # "disconnected"
  BY <1>2, <1>4 DEF Reconnected
<1>5. QED
  BY <1>3, <1>4

LEMMA ShareRestarts ==
    ASSUME AttachInv, NEW c \in Consumers, NEW s \in Shareds, NEW sh \in {shared, Resumed(s)},
           Share(c, s, sh), auth, Kind(s) = "private", shared'[s].sub # "none"
    PROVE  Running(s)
<1>1. TypeOK /\ shared \in [Shareds -> Objects] /\ clients \in Seq(ClientRecords)
  BY DEF AttachInv, TypeOK, ClientRecords
<1>2. Keeps(shared[s], shared'[s])
  BY <1>1, ShareEffect
<1>3. shared'[s].client = shared[s].client /\ shared[s].client \in DOMAIN clients
  BY <1>1, <1>2, SharedFields DEF Keeps, AttachInv, ClientsInv
<1>4. clients'[shared'[s].client].state # "disconnected"
  BY <1>1, <1>3, ReconnectedRuns DEF Share
<1>5. shared'[s].sub # "unsubscribed"
  <2>1. sh \in [Shareds -> Objects]
    <3>1. Resumed(s) \in [Shareds -> Objects]
      BY <1>1, SharedTypes DEF Resumed
    <3>2. QED
      BY <1>1, <3>1
  <2>2. PICK j : j = Joined(sh, s, c)
    OBVIOUS
  <2>3. j \in [Shareds -> Objects] /\ j[s] \in Objects
    <3>1. j \in [Shareds -> Objects]
      BY <2>1, <2>2, SharedTypes
    <3>2. QED
      BY <3>1
  <2>4. shared' = IF j[s].sub = "unsubscribed" THEN [j EXCEPT ![s] = [j[s] EXCEPT !.sub = "subscribing"]] ELSE j
    BY <2>2 DEF Share, Restarted
  <2>5. [j[s] EXCEPT !.sub = "subscribing"].sub = "subscribing"
    BY <2>3 DEF Objects
  <2>6. QED
    BY <2>3, <2>4, <2>5
<1>6. QED
  BY <1>4, <1>5 DEF Running

LEMMA AttachRestarts ==
    ASSUME AttachInv, NEW c \in Consumers, NEW s \in Shareds, NEW sh \in [Shareds -> Objects],
           Attach(c, s, sh), sh[s].sub = "none", auth, KindOf(sh[s].channel) = "private",
           shared'[s].sub # "none"
    PROVE  Running(s)
<1>1. TypeOK /\ clients \in Seq(ClientRecords) /\ sh[s] \in Objects
  BY DEF AttachInv, TypeOK, ClientRecords
<1>2. PICK joined : joined = [sh EXCEPT ![s].epoch = @ + 1, ![s].consumers = @ + 1,
                                        ![s].handlers = @ \cup {c}]
  OBVIOUS
<1>3. joined \in [Shareds -> Objects] /\ joined[s] \in Objects
      /\ joined[s].sub = "none" /\ joined[s].channel = sh[s].channel
  <2>1. joined \in [Shareds -> Objects]
    BY <1>2, SharedTypes
  <2>2. joined[s].sub = "none" /\ joined[s].channel = sh[s].channel
    BY <1>1, <1>2 DEF Objects
  <2>3. QED
    BY <2>1, <2>2
<1>4. loader.state = "loaded"
  BY <1>2, <1>3 DEF Attach
<1>5. AttachNow(joined, s, Reconnected(client["private"], "private"))
  BY <1>2, <1>4 DEF Attach
<1>6. "private" \in Kinds /\ client["private"] \in Nat /\ client["private"] <= Len(clients)
  BY DEF Kinds, AttachInv, TypeOK, ClientsInv
<1>7. PICK n : /\ n = IF client["private"] # 0 THEN client["private"] ELSE Len(clients) + 1
               /\ shared' = [joined EXCEPT ![s] = [joined[s] EXCEPT !.sub = "subscribing", !.client = n]]
               /\ clients' = IF client["private"] = 0
                             THEN Append(Reconnected(client["private"], "private"),
                                         [kind |-> "private", state |-> "connecting"])
                             ELSE Reconnected(client["private"], "private")
  BY <1>3, <1>5 DEF AttachNow
<1>8. shared'[s].sub = "subscribing" /\ shared'[s].client = n
  <2>1. shared'[s] = [joined[s] EXCEPT !.sub = "subscribing", !.client = n]
    BY <1>3, <1>7
  <2>2. QED
    BY <1>3, <2>1 DEF Objects
<1>9. clients'[n].state # "disconnected"
  <2>1. CASE client["private"] = 0
    <3>1. Reconnected(client["private"], "private") = clients
      BY <2>1 DEF Reconnected
    <3>2. clients' = Append(clients, [kind |-> "private", state |-> "connecting"]) /\ n = Len(clients) + 1
      BY <1>7, <2>1, <3>1
    <3>3. clients'[n] = [kind |-> "private", state |-> "connecting"]
      BY <1>1, <3>2
    <3>4. QED
      BY <3>3
  <2>2. CASE client["private"] # 0
    <3>1. client["private"] \in DOMAIN clients
      BY <1>1, <1>6, <2>2
    <3>2. QED
      BY <1>1, <1>7, <2>2, <3>1, ReconnectedRuns
  <2>3. QED
    BY <2>1, <2>2
<1>10. QED
  BY <1>8, <1>9 DEF Running

\* Whoever a subscribe makes a holder holds what the subscribe has found.
LEMMA SubscribeRuns ==
    ASSUME AttachInv, NEW d \in Consumers, NEW ch \in Channels, Subscribe(d, ch),
           NEW c \in Consumers, NEW s \in Shareds, Begins(c, s), auth,
           Kind(s)' = "private", shared'[s].sub # "none"
    PROVE  Running(s)
<1>1. /\ TypeOK /\ NoShared \notin Shareds /\ shared \in [Shareds -> Objects]
      /\ sharedSubs \in [Channels -> Shareds \cup {NoShared}]
      /\ pendingTeardowns \in [Channels -> Shareds \cup {NoShared}]
      /\ consumer \in [Consumers -> Closures]
  BY RealtimeAssumption DEF AttachInv, TypeOK
<1>2. ASSUME NEW t \in Shareds, Holds(d, t) PROVE s = t
  BY <1>1, <1>2 DEF Holds, Begins, Closures
<1>3. ~Refuse(d)
  BY <1>1 DEF Refuse, Begins, Closures
<1>4. ASSUME NEW sh \in {shared, Resumed(s)}, Share(d, s, sh) PROVE Running(s)
  <2>1. Keeps(shared[s], shared'[s])
    BY <1>1, <1>4, ShareEffect
  <2>2. Kind(s) = "private"
    BY <2>1 DEF Keeps, Kind
  <2>3. QED
    BY <1>4, <2>2, ShareRestarts
<1>5. ASSUME NEW sh \in [Shareds -> Objects], sh[s].sub = "none", Attach(d, s, sh) PROVE Running(s)
  <2>1. shared'[s].channel = sh[s].channel
    <3>1. sh[s] \in Objects
      OBVIOUS
    <3>2. PICK joined : joined = [sh EXCEPT ![s].epoch = @ + 1, ![s].consumers = @ + 1,
                                            ![s].handlers = @ \cup {d}]
      OBVIOUS
    <3>3. joined \in [Shareds -> Objects]
      BY <3>2, SharedTypes
    <3>4. joined[s].channel = sh[s].channel /\ joined[s] \in Objects
      BY <3>1, <3>2, <3>3 DEF Objects
    <3>5. \/ shared' = joined
          \/ \E n : shared' = [joined EXCEPT ![s] = [joined[s] EXCEPT !.sub = "subscribing", !.client = n]]
      <4>1. shared' = joined \/ \E cl : AttachNow(joined, s, cl)
        BY <1>5, <3>2 DEF Attach
      <4>2. QED
        BY <4>1 DEF AttachNow
    <3>6. QED
      BY <3>3, <3>4, <3>5 DEF Objects
  <2>2. KindOf(sh[s].channel) = "private"
    BY <2>1 DEF Kind
  <2>3. QED
    BY <1>5, <2>2, AttachRestarts
<1>6. CASE SubscribeExisting(d, ch)
  <2>1. sharedSubs[ch] \in Shareds /\ Share(d, sharedSubs[ch], shared) /\ Holds(d, sharedSubs[ch])
    BY <1>1, <1>6 DEF SubscribeExisting
  <2>2. QED
    BY <1>2, <1>4, <2>1
<1>7. CASE Revive(d, ch)
  <2>1. PICK t \in Shareds : t = pendingTeardowns[ch]
    BY <1>1, <1>7 DEF Revive
  <2>2. \/ Share(d, t, Resumed(t)) /\ Holds(d, t)
        \/ shared[t].sub = "none" /\ Attach(d, t, shared) /\ Holds(d, t)
    BY <1>3, <1>7, <2>1 DEF Revive
  <2>3. QED
    BY <1>1, <1>2, <1>4, <1>5, <2>2
<1>8. CASE SubscribeNew(d, ch)
  <2>1. PICK t \in Shareds : Attach(d, t, [shared EXCEPT ![t] = NewShared(ch)]) /\ Holds(d, t)
    BY <1>3, <1>8 DEF SubscribeNew
  <2>2. PICK sh : sh = [shared EXCEPT ![t] = NewShared(ch)]
    OBVIOUS
  <2>3. sh \in [Shareds -> Objects] /\ sh[t].sub = "none"
    BY <1>1, <2>2, NewSharedTypes DEF NewShared
  <2>4. QED
    BY <1>2, <1>5, <2>1, <2>2, <2>3
<1>9. QED
  BY <1>6, <1>7, <1>8 DEF Subscribe
-----------------------------------------------------------------------------
(* Who is called.                                                          *)

\* The handlers of a subscription are its holders', and who is to be told of a
\* refusal has none.
HandlersInv == \A s \in Shareds : \A c \in shared[s].handlers : consumer[c].s = s /\ ~consumer[c].closed
ReportsInv  == \A i \in DOMAIN micro :
                  micro[i].do = "report" => /\ consumer[micro[i].c].s = NoShared
                                            /\ consumer[micro[i].c].closed
CallsInv == AttachInv /\ HandlersInv /\ ReportsInv

SameHolders == \A c \in Consumers : consumer'[c].s = consumer[c].s /\ consumer'[c].closed = consumer[c].closed
FewerHandlers == \A s \in Shareds : shared'[s].handlers \subseteq shared[s].handlers
NoReport == \/ micro' = micro
            \/ micro # <<>> /\ micro' = Tail(micro)
            \/ \E job \in Jobs : job.do # "report" /\ micro' = Append(micro, job)

LEMMA KeptReports ==
    ASSUME TypeOK, ReportsInv, NoReport,
           \A c \in Consumers : consumer[c].s = NoShared /\ consumer[c].closed =>
                                   consumer'[c].s = NoShared /\ consumer'[c].closed
    PROVE  ReportsInv'
<1>1. micro \in Seq(Jobs)
  BY DEF TypeOK
<1>2. ASSUME NEW i \in DOMAIN micro', micro'[i].do = "report"
      PROVE  \E j \in DOMAIN micro : micro'[i] = micro[j]
  <2>1. CASE micro' = micro
    BY <2>1
  <2>2. CASE micro # <<>> /\ micro' = Tail(micro)
    <3>1. i + 1 \in DOMAIN micro /\ micro'[i] = micro[i + 1]
      BY <1>1, <2>2
    <3>2. QED
      BY <3>1
  <2>3. CASE \E job \in Jobs : job.do # "report" /\ micro' = Append(micro, job)
    <3>1. i \in DOMAIN micro /\ micro'[i] = micro[i]
      BY <1>1, <1>2, <2>3
    <3>2. QED
      BY <3>1
  <2>4. QED
    BY <2>1, <2>2, <2>3 DEF NoReport
<1>3. ASSUME NEW j \in DOMAIN micro, micro[j].do = "report"
      PROVE  /\ micro[j].c \in Consumers
             /\ consumer'[micro[j].c].s = NoShared /\ consumer'[micro[j].c].closed
  <2>1. micro[j] \in Jobs
    BY <1>1
  <2>2. micro[j].c \in Consumers
    BY <1>3, <2>1 DEF Jobs, Refusals
  <2>3. QED
    BY <1>3, <2>2 DEF ReportsInv
<1>4. QED
  BY <1>2, <1>3 DEF ReportsInv

LEMMA KeptCalls ==
    ASSUME CallsInv, AttachInv', SameHolders, FewerHandlers, NoReport
    PROVE  CallsInv'
<1>1. TypeOK /\ \A s \in Shareds : shared[s].handlers \subseteq Consumers
  BY SharedFields DEF CallsInv, AttachInv, Objects
<1>2. HandlersInv'
  BY <1>1 DEF CallsInv, HandlersInv, SameHolders, FewerHandlers
<1>3. ReportsInv'
  BY <1>1, KeptReports DEF CallsInv, SameHolders
<1>4. QED
  BY <1>2, <1>3 DEF CallsInv

LEMMA RetireHandlers ==
    ASSUME TypeOK, NEW kinds, NEW sh \in [Shareds -> Objects], Retire(kinds, sh),
           \A s \in Shareds : sh[s].handlers \subseteq shared[s].handlers
    PROVE  FewerHandlers
<1>1. ASSUME NEW s \in Shareds PROVE shared'[s].handlers = sh[s].handlers
  <2>1. sh[s] \in Objects
    OBVIOUS
  <2>2. \/ shared'[s] = sh[s]
        \/ shared'[s] = [sh[s] EXCEPT !.sub = "subscribing"]
    BY DEF Retire, Offline
  <2>3. QED
    BY <2>1, <2>2 DEF Objects
<1>2. QED
  BY <1>1 DEF FewerHandlers

LEMMA TornDownHandlers ==
    ASSUME TypeOK, NEW S
    PROVE  /\ TornDown(shared, S) \in [Shareds -> Objects]
           /\ \A s \in Shareds : TornDown(shared, S)[s].handlers = shared[s].handlers
<1>1. ASSUME NEW s \in Shareds PROVE TornDown(shared, S)[s].handlers = shared[s].handlers
  <2>1. shared[s] \in Objects
    BY SharedFields
  <2>2. \/ TornDown(shared, S)[s] = shared[s]
        \/ TornDown(shared, S)[s] = [shared[s] EXCEPT !.sub = "none", !.client = 0, !.epoch = shared[s].epoch + 1]
    BY DEF TornDown
  <2>3. QED
    BY <2>1, <2>2 DEF Objects
<1>2. QED
  BY <1>1, TornDownTypes DEF TypeOK

LEMMA TerminateHandlers ==
    ASSUME TypeOK, NEW S, NEW kinds, Terminate(S, kinds)
    PROVE  FewerHandlers
<1>1. PICK sh : sh = [s \in Shareds |-> IF s \in S THEN [TornDown(shared, S)[s] EXCEPT !.handlers = {}]
                                        ELSE shared[s]]
  OBVIOUS
<1>2. shared \in [Shareds -> Objects] /\ TornDown(shared, S) \in [Shareds -> Objects]
  BY TornDownHandlers DEF TypeOK
<1>3. ASSUME NEW s \in Shareds PROVE sh[s] \in Objects /\ sh[s].handlers \subseteq shared[s].handlers
  <2>1. TornDown(shared, S)[s] \in Objects /\ shared[s] \in Objects
    BY <1>2
  <2>2. [TornDown(shared, S)[s] EXCEPT !.handlers = {}] \in Objects
        /\ [TornDown(shared, S)[s] EXCEPT !.handlers = {}].handlers = {}
    BY <2>1 DEF Objects
  <2>3. QED
    BY <1>1, <2>1, <2>2
<1>4. sh \in [Shareds -> Objects]
  BY <1>1, <1>3
<1>5. Retire(kinds, sh)
  BY <1>1 DEF Terminate
<1>6. QED
  BY <1>3, <1>4, <1>5, RetireHandlers
LEMMA CallsDisconnect ==
    ASSUME CallsInv, AttachInv', Disconnect \/ DisconnectPrivate
    PROVE  CallsInv'
<1>1. TypeOK /\ shared \in [Shareds -> Objects]
  BY DEF CallsInv, AttachInv, TypeOK
<1>2. SameHolders /\ NoReport
  BY DEF Disconnect, DisconnectPrivate, SameHolders, NoReport
<1>3. CASE Disconnect
  BY <1>1, <1>2, <1>3, RetireHandlers, KeptCalls DEF Disconnect
<1>4. CASE DisconnectPrivate
  <2>1. PICK S : Retire({"private"}, TornDown(shared, S))
    BY <1>4 DEF DisconnectPrivate
  <2>2. FewerHandlers
    BY <1>1, <2>1, TornDownHandlers, RetireHandlers
  <2>3. QED
    BY <1>2, <2>2, KeptCalls
<1>5. QED
  BY <1>3, <1>4

LEMMA CallsProceed ==
    ASSUME CallsInv, AttachInv', Proceed
    PROVE  CallsInv'
<1>1. TypeOK /\ SameHolders
  BY CalmProceed DEF CallsInv, AttachInv, Calm, SameHolders
<1>2. FewerHandlers
  BY DEF Proceed, FewerHandlers
<1>3. NoReport
  <2> DEFINE step == Head(turn.steps)
  <2>1. step \in Steps /\ (UNCHANGED micro \/ (step.do = "then" /\ Later(step.job)))
    BY <1>1, TurnsType DEF Proceed, CallLive, CallCollected, NextEnd, NextTokenError, StepDone
  <2> HIDE DEF step
  <2>2. CASE UNCHANGED micro
    BY <2>2 DEF NoReport
  <2>3. CASE step.do = "then" /\ Later(step.job)
    <3>1. step \in [do : {"then"}, job : Refusals]
      BY <2>1, <2>3 DEF Steps
    <3>2. step.job \in Jobs /\ step.job.do # "report"
      BY <3>1 DEF Jobs, Refusals
    <3>3. QED
      BY <2>3, <3>2 DEF NoReport, Later
  <2>4. QED
    BY <2>1, <2>2, <2>3
<1>4. QED
  BY <1>1, <1>2, <1>3, KeptCalls

LEMMA CallsMicrotask ==
    ASSUME CallsInv, AttachInv', RunMicrotask
    PROVE  CallsInv'
<1>1. PICK job : job = Head(micro)
  OBVIOUS
<1>2. /\ AttachInv /\ TypeOK /\ shared \in [Shareds -> Objects] /\ job \in Jobs
      /\ micro # <<>> /\ micro' = Tail(micro) /\ loader' = loader
      /\ \/ AttachWhenLoaded(job) \/ TellLate(job) \/ TeardownDue(job)
         \/ Report(job) \/ StopClient(job) \/ StopSubscription(job)
  BY <1>1, TailTypes DEF CallsInv, AttachInv, TypeOK, RunMicrotask
<1>3. SameHolders
  <2>1. CASE Attaches(job)
    BY <2>1 DEF Attaches, SameHolders
  <2>2. CASE ~Attaches(job)
    BY <1>1, <1>2, <2>2, CalmMicrotask DEF Calm, SameHolders
  <2>3. QED
    BY <2>1, <2>2
<1>4. NoReport
  BY <1>2 DEF NoReport
<1>5. FewerHandlers
  <2>1. CASE UNCHANGED shared
    BY <2>1 DEF FewerHandlers
  <2>2. ASSUME NEW s \in Shareds, AttachNow(shared, s, clients)
        PROVE  FewerHandlers
    <3>1. PICK n : shared' = [shared EXCEPT ![s] = [shared[s] EXCEPT !.sub = "subscribing", !.client = n]]
      BY <2>2 DEF AttachNow
    <3>2. shared[s] \in Objects
      BY <1>2
    <3>3. shared'[s].handlers = shared[s].handlers /\ \A t \in Shareds \ {s} : shared'[t] = shared[t]
      BY <1>2, <3>1, <3>2 DEF Objects
    <3>4. QED
      BY <3>3 DEF FewerHandlers
  <2>3. CASE AttachWhenLoaded(job)
    <3>1. job.s \in Shareds
      BY <1>2, <2>3 DEF AttachWhenLoaded, Jobs, Refusals
    <3>2. UNCHANGED shared \/ AttachNow(shared, job.s, clients)
      BY <2>3 DEF AttachWhenLoaded, Untouched
    <3>3. QED
      BY <1>2, <2>1, <2>2, <3>1, <3>2
  <2>4. CASE TeardownDue(job)
    <3>1. UNCHANGED shared \/ \E kinds : Retire(kinds, TornDown(shared, {job.s}))
      BY <2>4 DEF TeardownDue, Untouched
    <3>2. QED
      BY <1>2, <2>1, <3>1, TornDownHandlers, RetireHandlers
  <2>5. CASE StopSubscription(job)
    <3>1. job.s \in Shareds
      BY <1>2, <2>5 DEF StopSubscription, Jobs, Refusals
    <3>2. UNCHANGED shared \/ shared' = [shared EXCEPT ![job.s] = [shared[job.s] EXCEPT !.sub = "unsubscribed"]]
      BY <2>5 DEF StopSubscription
    <3>3. shared[job.s] \in Objects
      BY <1>2, <3>1
    <3>4. CASE shared' = [shared EXCEPT ![job.s] = [shared[job.s] EXCEPT !.sub = "unsubscribed"]]
      <4>1. shared'[job.s] = [shared[job.s] EXCEPT !.sub = "unsubscribed"]
            /\ \A t \in Shareds \ {job.s} : shared'[t] = shared[t]
        BY <1>2, <3>1, <3>4
      <4>2. shared'[job.s].handlers = shared[job.s].handlers
        BY <3>3, <4>1 DEF Objects
      <4>3. QED
        BY <4>1, <4>2 DEF FewerHandlers
    <3>5. QED
      BY <2>1, <3>2, <3>4
  <2>6. QED
    BY <1>2, <2>1, <2>3, <2>4, <2>5 DEF TellLate, Report, StopClient, Untouched
<1>6. QED
  BY <1>3, <1>4, <1>5, KeptCalls

LEMMA CallsEvents ==
    ASSUME CallsInv, AttachInv', Events
    PROVE  CallsInv'
<1>1. TypeOK /\ shared \in [Shareds -> Objects] /\ AttachInv
  BY DEF CallsInv, AttachInv, TypeOK
<1>2. CASE LoaderSettles
  <2>1. UNCHANGED <<shared, consumer>> /\ \A i \in DOMAIN micro' : micro'[i].do = "attach"
    BY <1>2 DEF LoaderSettles
  <2>2. QED
    BY <2>1 DEF CallsInv, HandlersInv, ReportsInv
<1>3. CASE \/ AuthChanges
           \/ \E n \in DOMAIN clients : ClientConnects(n) \/ ClientDrops(n) \/ ClientEnds(n)
                                        \/ ConnectionTokenFails(n)
           \/ \E s \in Shareds : \/ SubscriptionTokenFails(s) \/ ChannelSubscribed(s)
                                  \/ ChannelEnds(s) \/ Published(s)
  <2>1. SameHolders
    BY <1>1, <1>3, CalmEvents DEF Calm, SameHolders
  <2>2. NoReport
    BY <1>3 DEF NoReport, AuthChanges, ClientConnects, ClientDrops, ClientEnds, ConnectionTokenFails,
                SubscriptionTokenFails, ChannelSubscribed, ChannelEnds, Published
  <2>3. CASE UNCHANGED shared
    BY <2>1, <2>2, <2>3, KeptCalls DEF FewerHandlers
  <2>4. ASSUME NEW n \in DOMAIN clients, ClientDrops(n) PROVE FewerHandlers
    <3>1. ASSUME NEW s \in Shareds PROVE shared'[s].handlers = shared[s].handlers
      <4>1. shared[s] \in Objects
        BY <1>1
      <4>2. shared'[s] = shared[s] \/ shared'[s] = [shared[s] EXCEPT !.sub = "subscribing"]
        BY <2>4 DEF ClientDrops, Offline
      <4>3. QED
        BY <4>1, <4>2 DEF Objects
    <3>2. QED
      BY <3>1 DEF FewerHandlers
  <2>5. ASSUME NEW s \in Shareds, ChannelSubscribed(s) PROVE FewerHandlers
    <3>1. shared[s] \in Objects
      BY <1>1
    <3>2. shared' = [shared EXCEPT ![s] = [shared[s] EXCEPT !.sub = "subscribed",
                                                            !.subEpoch = shared[s].subEpoch + 1]]
      BY <2>5 DEF ChannelSubscribed
    <3>3. QED
      BY <1>1, <3>1, <3>2 DEF FewerHandlers, Objects
  <2>6. ASSUME NEW S, NEW kinds, Terminate(S, kinds) PROVE FewerHandlers
    BY <1>1, <2>6, TerminateHandlers
  <2>7. CASE FewerHandlers
    BY <2>1, <2>2, <2>7, KeptCalls
  <2>8. QED
    BY <1>3, <2>3, <2>4, <2>5, <2>6, <2>7
       DEF AuthChanges, ClientConnects, ClientEnds, ConnectionTokenFails,
           SubscriptionTokenFails, ChannelEnds, Published
<1>4. QED
  BY <1>2, <1>3 DEF Events

LEMMA CallsDispose ==
    ASSUME CallsInv, AttachInv', NEW c \in Consumers, Dispose(c)
    PROVE  CallsInv'
<1>1. /\ TypeOK /\ consumer \in [Consumers -> Closures] /\ consumer[c] \in Closures
      /\ shared \in [Shareds -> Objects]
  BY DEF CallsInv, AttachInv, TypeOK
<1>2. PICK s \in Shareds : s = consumer[c].s /\ ~consumer[c].closed
  BY <1>1 DEF Dispose, Disposable, Closures
<1>3. /\ shared' = [shared EXCEPT ![s] = [shared[s] EXCEPT !.consumers = shared[s].consumers - 1,
                                                          !.handlers = shared[s].handlers \ {c}]]
      /\ consumer' = [consumer EXCEPT ![c] = [consumer[c] EXCEPT !.closed = TRUE]]
  BY <1>2 DEF Dispose
<1>4. /\ consumer'[c].s = consumer[c].s /\ consumer'[c].closed
      /\ \A d \in Consumers \ {c} : consumer'[d] = consumer[d]
  BY <1>1, <1>3 DEF Closures
<1>5. shared'[s].handlers = shared[s].handlers \ {c} /\ \A t \in Shareds \ {s} : shared'[t] = shared[t]
  <2>1. shared[s] \in Objects
    BY <1>1
  <2>2. QED
    BY <1>1, <1>3, <2>1 DEF Objects
<1>6. HandlersInv'
  <2>1. ASSUME NEW t \in Shareds, NEW d \in shared'[t].handlers
        PROVE  consumer'[d].s = t /\ ~consumer'[d].closed
    <3>1. d \in shared[t].handlers /\ d \in Consumers
      BY <1>1, <1>5, SharedFields DEF Objects
    <3>2. consumer[d].s = t /\ ~consumer[d].closed
      BY <3>1 DEF CallsInv, HandlersInv
    <3>3. d # c
      BY <1>2, <1>5, <2>1, <3>2
    <3>4. QED
      BY <1>4, <3>1, <3>2, <3>3
  <2>2. QED
    BY <2>1 DEF HandlersInv
<1>7. NoReport
  <2>1. [do |-> "teardown", s |-> s] \in Jobs /\ [do |-> "teardown", s |-> s].do # "report"
    BY DEF Jobs
  <2>2. QED
    BY <1>2, <2>1 DEF Dispose, Later, NoReport
<1>8. ReportsInv'
  <2>1. \A d \in Consumers : consumer[d].s = NoShared /\ consumer[d].closed =>
                                consumer'[d].s = NoShared /\ consumer'[d].closed
    BY <1>2, <1>4
  <2>2. QED
    BY <1>1, <1>7, <2>1, KeptReports DEF CallsInv
<1>9. QED
  BY <1>6, <1>8 DEF CallsInv
LEMMA ShareHandlers ==
    ASSUME TypeOK, NEW c \in Consumers, NEW s \in Shareds, NEW sh \in {shared, Resumed(s)}, Share(c, s, sh)
    PROVE  shared'[s].handlers = shared[s].handlers \cup {c} /\ NoReport
<1>1. shared \in [Shareds -> Objects] /\ shared[s] \in Objects /\ shared[s].subEpoch \in Nat
      /\ Resumed(s) \in [Shareds -> Objects]
  BY SharedFields, SharedTypes DEF TypeOK, Objects, Resumed
<1>2. sh \in [Shareds -> Objects] /\ sh[s] \in Objects /\ sh[s].handlers = shared[s].handlers
  <2>1. sh \in [Shareds -> Objects] /\ sh[s] \in Objects
    BY <1>1
  <2>2. sh[s] = shared[s] \/ \E sub : sh[s] = [shared[s] EXCEPT !.sub = sub]
    BY <1>1 DEF Resumed
  <2>3. QED
    BY <1>1, <2>1, <2>2 DEF Objects
<1>3. PICK j : j = Joined(sh, s, c)
  OBVIOUS
<1>4. j \in [Shareds -> Objects] /\ j[s] \in Objects
  <2>1. j \in [Shareds -> Objects]
    BY <1>2, <1>3, SharedTypes
  <2>2. QED
    BY <2>1
<1>5. j[s].handlers = shared[s].handlers \cup {c}
  BY <1>2, <1>3 DEF Joined, Objects
<1>6. shared' = IF Kind(s) = "private" /\ auth /\ j[s].sub = "unsubscribed"
                THEN [j EXCEPT ![s] = [j[s] EXCEPT !.sub = "subscribing"]] ELSE j
  BY <1>3 DEF Share, Restarted
<1>7. shared'[s] = j[s] \/ shared'[s] = [j[s] EXCEPT !.sub = "subscribing"]
  BY <1>4, <1>6
<1>8. shared'[s].handlers = j[s].handlers
  BY <1>4, <1>7 DEF Objects
<1>9. NoReport
  <2>1. [do |-> "late", c |-> c, s |-> s, epoch |-> shared[s].subEpoch] \in Jobs
        /\ [do |-> "late", c |-> c, s |-> s, epoch |-> shared[s].subEpoch].do # "report"
    BY <1>1 DEF Jobs
  <2>2. QED
    BY <2>1 DEF Share, Later, NoReport
<1>10. QED
  BY <1>5, <1>8, <1>9

LEMMA AttachHandlers ==
    ASSUME TypeOK, NEW c \in Consumers, NEW s \in Shareds, NEW sh \in [Shareds -> Objects],
           Attach(c, s, sh), \A t \in Shareds \ {s} : sh[t] = shared[t]
    PROVE  /\ \A t \in Shareds \ {s} : shared'[t] = shared[t]
           /\ shared'[s].handlers = sh[s].handlers \cup {c} /\ NoReport
<1>1. PICK j : j = [sh EXCEPT ![s].epoch = @ + 1, ![s].consumers = @ + 1, ![s].handlers = @ \cup {c}]
  OBVIOUS
<1>2. j \in [Shareds -> Objects] /\ j[s] \in Objects /\ sh[s] \in Objects
  <2>1. j \in [Shareds -> Objects]
    BY <1>1, SharedTypes
  <2>2. QED
    BY <2>1
<1>3. j[s].handlers = sh[s].handlers \cup {c} /\ \A t \in Shareds \ {s} : j[t] = shared[t]
  BY <1>1, <1>2 DEF Objects
<1>4. shared' = j \/ \E cl : AttachNow(j, s, cl)
  BY <1>1 DEF Attach
<1>5. shared' = j \/ \E n : shared' = [j EXCEPT ![s] = [j[s] EXCEPT !.sub = "subscribing", !.client = n]]
  BY <1>4 DEF AttachNow
<1>6. /\ \A t \in Shareds \ {s} : shared'[t] = j[t]
      /\ shared'[s] = j[s] \/ \E n : shared'[s] = [j[s] EXCEPT !.sub = "subscribing", !.client = n]
  BY <1>2, <1>5
<1>7. shared'[s].handlers = j[s].handlers
  BY <1>2, <1>6 DEF Objects
<1>8. NoReport
  BY DEF Attach, NoReport
<1>9. QED
  BY <1>3, <1>6, <1>7, <1>8

LEMMA HeldCalls ==
    ASSUME CallsInv, AttachInv', NEW c \in Consumers, NEW s \in Shareds, Holds(c, s),
           consumer[c].s = NoShared, ~consumer[c].closed,
           \A t \in Shareds \ {s} : shared'[t] = shared[t],
           shared'[s].handlers \subseteq shared[s].handlers \cup {c}, NoReport
    PROVE  CallsInv'
<1>1. TypeOK /\ NoShared \notin Shareds /\ consumer \in [Consumers -> Closures]
  BY RealtimeAssumption DEF CallsInv, AttachInv, TypeOK
<1>2. consumer'[c].s = s /\ ~consumer'[c].closed /\ \A d \in Consumers \ {c} : consumer'[d] = consumer[d]
  <2>1. consumer[c] \in Closures
    BY <1>1
  <2>2. QED
    BY <1>1, <2>1 DEF Holds, Closures
<1>3. ASSUME NEW t \in Shareds, NEW d \in shared'[t].handlers
      PROVE  consumer'[d].s = t /\ ~consumer'[d].closed
  <2>1. CASE d \in shared[t].handlers
    <3>1. d \in Consumers /\ consumer[d].s = t /\ ~consumer[d].closed
      BY <1>1, <2>1, SharedFields DEF Objects, CallsInv, HandlersInv
    <3>2. d # c
      BY <1>1, <3>1
    <3>3. QED
      BY <1>2, <3>1, <3>2
  <2>2. CASE d \notin shared[t].handlers
    BY <1>2, <1>3, <2>2
  <2>3. QED
    BY <2>1, <2>2
<1>4. HandlersInv'
  BY <1>3 DEF HandlersInv
<1>5. \A d \in Consumers : consumer[d].s = NoShared /\ consumer[d].closed =>
                              consumer'[d].s = NoShared /\ consumer'[d].closed
  BY <1>2
<1>6. ReportsInv'
  BY <1>1, <1>5, KeptReports DEF CallsInv
<1>7. QED
  BY <1>4, <1>6 DEF CallsInv

LEMMA RefusedCalls ==
    ASSUME CallsInv, AttachInv', NEW c \in Consumers, Refuse(c), consumer[c].s = NoShared
    PROVE  CallsInv'
<1>1. /\ TypeOK /\ NoShared \notin Shareds /\ consumer \in [Consumers -> Closures]
      /\ consumer[c] \in Closures /\ micro \in Seq(Jobs)
  BY RealtimeAssumption DEF CallsInv, AttachInv, TypeOK
<1>2. /\ shared' = shared /\ micro' = Append(micro, [do |-> "report", c |-> c])
      /\ consumer' = [consumer EXCEPT ![c] = [consumer[c] EXCEPT !.closed = TRUE]]
  BY DEF Refuse, Later
<1>3. consumer'[c].s = NoShared /\ consumer'[c].closed /\ \A d \in Consumers \ {c} : consumer'[d] = consumer[d]
  BY <1>1, <1>2 DEF Closures
<1>4. HandlersInv'
  <2>1. ASSUME NEW t \in Shareds, NEW d \in shared[t].handlers
        PROVE  consumer'[d].s = t /\ ~consumer'[d].closed
    <3>1. d \in Consumers /\ consumer[d].s = t /\ ~consumer[d].closed
      BY <1>1, SharedFields DEF Objects, CallsInv, HandlersInv
    <3>2. QED
      BY <1>1, <1>3, <3>1
  <2>2. QED
    BY <1>2, <2>1 DEF HandlersInv
<1>5. ReportsInv'
  <2>1. ASSUME NEW i \in DOMAIN micro', micro'[i].do = "report"
        PROVE  consumer'[micro'[i].c].s = NoShared /\ consumer'[micro'[i].c].closed
    <3>1. CASE i \in DOMAIN micro
      <4>1. micro'[i] = micro[i] /\ micro[i] \in Jobs
        BY <1>1, <1>2, <3>1
      <4>2. micro[i].c \in Consumers
        BY <2>1, <4>1 DEF Jobs, Refusals
      <4>3. consumer[micro[i].c].s = NoShared /\ consumer[micro[i].c].closed
        BY <2>1, <3>1, <4>1 DEF CallsInv, ReportsInv
      <4>4. QED
        BY <1>3, <4>1, <4>2, <4>3
    <3>2. CASE i \notin DOMAIN micro
      <4>1. micro'[i] = [do |-> "report", c |-> c]
        BY <1>1, <1>2, <3>2
      <4>2. QED
        BY <1>3, <4>1
    <3>3. QED
      BY <3>1, <3>2
  <2>2. QED
    BY <2>1 DEF ReportsInv
<1>6. QED
  BY <1>4, <1>5 DEF CallsInv

LEMMA CallsSubscribe ==
    ASSUME CallsInv, AttachInv', NEW c \in Consumers, NEW ch \in Channels, Subscribe(c, ch)
    PROVE  CallsInv'
<1>1. /\ TypeOK /\ NoShared \notin Shareds /\ shared \in [Shareds -> Objects]
      /\ sharedSubs \in [Channels -> Shareds \cup {NoShared}]
      /\ pendingTeardowns \in [Channels -> Shareds \cup {NoShared}]
      /\ consumer[c].s = NoShared /\ ~consumer[c].closed
  BY RealtimeAssumption DEF CallsInv, AttachInv, TypeOK, Subscribe
<1>2. ASSUME NEW s \in Shareds, NEW sh \in {shared, Resumed(s)}, Share(c, s, sh), Holds(c, s)
      PROVE  CallsInv'
  BY <1>1, <1>2, ShareEffect, ShareHandlers, HeldCalls
<1>3. ASSUME NEW s \in Shareds, NEW sh \in [Shareds -> Objects], Attach(c, s, sh), Holds(c, s),
             \A t \in Shareds \ {s} : sh[t] = shared[t], sh[s].handlers \subseteq shared[s].handlers
      PROVE  CallsInv'
  <2>1. /\ \A t \in Shareds \ {s} : shared'[t] = shared[t]
        /\ shared'[s].handlers \subseteq shared[s].handlers \cup {c} /\ NoReport
    BY <1>1, <1>3, AttachHandlers
  <2>2. QED
    BY <1>1, <1>3, <2>1, HeldCalls
<1>4. CASE Refuse(c)
  BY <1>1, <1>4, RefusedCalls
<1>5. CASE SubscribeExisting(c, ch)
  <2>1. sharedSubs[ch] \in Shareds /\ Share(c, sharedSubs[ch], shared) /\ Holds(c, sharedSubs[ch])
    BY <1>1, <1>5 DEF SubscribeExisting
  <2>2. QED
    BY <1>2, <2>1
<1>6. CASE Revive(c, ch)
  <2>1. PICK s \in Shareds : s = pendingTeardowns[ch]
    BY <1>1, <1>6 DEF Revive
  <2>2. \/ Share(c, s, Resumed(s)) /\ Holds(c, s)
        \/ Refuse(c)
        \/ Attach(c, s, shared) /\ Holds(c, s)
    BY <1>6, <2>1 DEF Revive
  <2>3. QED
    BY <1>1, <1>2, <1>3, <1>4, <2>2
<1>7. CASE SubscribeNew(c, ch) /\ ~Refuse(c)
  <2>1. PICK s \in Shareds : Attach(c, s, [shared EXCEPT ![s] = NewShared(ch)]) /\ Holds(c, s)
    BY <1>7 DEF SubscribeNew
  <2>2. PICK sh : sh = [shared EXCEPT ![s] = NewShared(ch)]
    OBVIOUS
  <2>3. sh \in [Shareds -> Objects] /\ sh[s].handlers = {} /\ \A t \in Shareds \ {s} : sh[t] = shared[t]
    BY <1>1, <2>2, NewSharedTypes DEF NewShared
  <2>4. QED
    BY <1>3, <2>1, <2>2, <2>3
<1>8. QED
  BY <1>4, <1>5, <1>6, <1>7 DEF Subscribe

LEMMA StepCalls == CallsInv /\ [Next]_vars => CallsInv'
<1> SUFFICES ASSUME CallsInv, [Next]_vars PROVE CallsInv'
  OBVIOUS
<1>1. AttachInv'
  BY StepAttach DEF CallsInv
<1>2. CASE Next
  BY <1>1, <1>2, CallsDispose, CallsSubscribe, CallsDisconnect, CallsProceed, CallsMicrotask, CallsEvents
     DEF Next, App
<1>3. CASE UNCHANGED vars
  BY <1>1, <1>3 DEF vars, CallsInv, HandlersInv, ReportsInv
<1>4. QED
  BY <1>2, <1>3

LEMMA InitCalls == Init => CallsInv
<1>1. Init => HandlersInv /\ ReportsInv
  BY DEF Init, HandlersInv, ReportsInv, NewShared
<1>2. QED
  BY <1>1, InitAttach DEF CallsInv

\* A step that calls a consumer that holds a subscription has found it there, or has
\* collected it before.
LEMMA StepLeaving ==
    ASSUME CallsInv, Next, NEW c \in Consumers, Calls(c), consumer[c].s # NoShared
    PROVE  ~consumer[c].closed \/ (turn.steps # <<>> /\ Head(turn.steps).do = "call")
<1>1. /\ TypeOK /\ NoConsumer \notin Consumers /\ shared \in [Shareds -> Objects]
      /\ turn' # turn /\ turn'.in = c /\ shared' = shared
  BY RealtimeAssumption DEF CallsInv, AttachInv, TypeOK, Calls
<1>2. \A steps : Doing(steps).in # c /\ Rest.in # c
  BY <1>1 DEF Doing, Rest
<1>3. CASE \E d \in Consumers : Dispose(d)
  <2>1. PICK d \in Consumers : Dispose(d)
    BY <1>3
  <2>2. PICK s \in Shareds : s = consumer[d].s
    BY <2>1 DEF Dispose, Disposable, CallsInv, AttachInv, TypeOK, Closures
  <2>3. shared[s] \in Objects /\ shared[s].consumers \in Nat
    BY <1>1, SharedFields
  <2>4. shared'[s].consumers = shared[s].consumers - 1
    BY <1>1, <2>1, <2>2, <2>3 DEF Dispose, Objects
  <2>5. QED
    BY <1>1, <2>3, <2>4
<1>4. CASE Proceed
  <2> DEFINE step == Head(turn.steps)
  <2>1. /\ step \in Steps /\ turn.steps # <<>>
        /\ \/ CallLive(step) \/ CallCollected(step) \/ NextEnd(step)
           \/ NextTokenError(step) \/ StepDone(step)
    BY <1>1, <1>4, TurnsType DEF Proceed
  <2>2. CASE CallLive(step)
    <3>1. step.s \in Shareds
      BY <2>1, <2>2 DEF CallLive, Steps
    <3>2. c \in Callable(step)
      BY <1>1, <2>2 DEF CallLive, Replaced
    <3>3. QED
      BY <3>1, <3>2 DEF Callable, CallsInv, HandlersInv
  <2>3. CASE CallCollected(step)
    BY <2>1, <2>3 DEF CallCollected
  <2>4. CASE NextEnd(step) \/ NextTokenError(step) \/ StepDone(step)
    <3>1. \A steps, in : Replaced(steps, in) => turn'.in = in
      BY DEF Replaced
    <3>2. turn'.in = NoConsumer
      BY <2>4, <3>1 DEF NextEnd, NextTokenError, StepDone
    <3>3. QED
      BY <1>1, <3>2
  <2>5. QED
    BY <2>1, <2>2, <2>3, <2>4
<1>5. CASE RunMicrotask
  <2>1. PICK job : job = Head(micro)
    OBVIOUS
  <2>2. /\ job \in Jobs /\ micro # <<>> /\ 1 \in DOMAIN micro /\ micro[1] = job
        /\ \/ AttachWhenLoaded(job) \/ TellLate(job) \/ TeardownDue(job)
           \/ Report(job) \/ StopClient(job) \/ StopSubscription(job)
    BY <1>1, <1>5, <2>1 DEF RunMicrotask, TypeOK
  <2>3. CASE TellLate(job)
    BY <1>1, <1>2, <2>3 DEF TellLate, OpenIsNews
  <2>4. CASE Report(job)
    BY <1>1, <2>2, <2>4 DEF Report, CallsInv, ReportsInv
  <2>5. CASE AttachWhenLoaded(job) \/ TeardownDue(job) \/ StopClient(job) \/ StopSubscription(job)
    BY <1>1, <1>2, <2>5 DEF AttachWhenLoaded, TeardownDue, StopClient, StopSubscription
  <2>6. QED
    BY <2>2, <2>3, <2>4, <2>5
<1>6. CASE Events
  BY <1>1, <1>2, <1>6
     DEF Events, LoaderSettles, AuthChanges, ClientConnects, ClientDrops, ClientEnds, ConnectionTokenFails,
         SubscriptionTokenFails, ChannelSubscribed, ChannelEnds, Published, Terminate
<1>7. CASE Disconnect \/ DisconnectPrivate \/ \E d \in Consumers, ch \in Channels : Subscribe(d, ch)
  BY <1>1, <1>7 DEF Disconnect, DisconnectPrivate, Subscribe
<1>8. QED
  BY <1>3, <1>4, <1>5, <1>6, <1>7 DEF Next, App

\* A consumer that has left, inside whichever callback, is called no more (the
\* loops over the live handlers of a shared subscription, and the microtask of a
\* late subscribe), except by a termination that has collected its handlers.
THEOREM LeavingIsHeededHolds == Spec => LeavingIsHeeded
<1>1. CallsInv /\ [Next]_vars => [\A c \in Consumers : Calls(c) /\ consumer[c].s # NoShared =>
          \/ ~consumer[c].closed
          \/ turn.steps # <<>> /\ Head(turn.steps).do = "call"]_vars
  BY StepLeaving
<1>2. QED
  BY InitCalls, StepCalls, <1>1, PTL DEF Spec, LeavingIsHeeded

LEMMA StepBegins ==
    ASSUME AttachInv, Next, NEW c \in Consumers, NEW s \in Shareds, Begins(c, s), auth,
           (Kind(s) = "private" /\ shared[s].sub # "none")'
    PROVE  Running(s)
<1>1. /\ TypeOK /\ NoShared \notin Shareds /\ consumer \in [Consumers -> Closures]
      /\ consumer[c].s = NoShared /\ consumer'[c].s = s
  BY RealtimeAssumption DEF AttachInv, TypeOK, Begins
<1>2. CASE \E d \in Consumers, ch \in Channels : Subscribe(d, ch)
  BY <1>2, SubscribeRuns
<1>3. SUFFICES ASSUME ~\E d \in Consumers, ch \in Channels : Subscribe(d, ch)
               PROVE  consumer'[c].s = consumer[c].s
  BY <1>1, <1>2
<1>4. CASE \E d \in Consumers : Dispose(d)
  BY <1>1, <1>4 DEF Dispose, Closures
<1>5. CASE Disconnect \/ DisconnectPrivate
  BY <1>5 DEF Disconnect, DisconnectPrivate
<1>6. CASE Proceed
  BY <1>1, <1>6, CalmProceed DEF Calm
<1>7. CASE RunMicrotask
  <2>1. PICK job : job = Head(micro)
    OBVIOUS
  <2>2. /\ micro # <<>> /\ micro' = Tail(micro) /\ loader' = loader
        /\ \/ AttachWhenLoaded(job) \/ TellLate(job) \/ TeardownDue(job)
           \/ Report(job) \/ StopClient(job) \/ StopSubscription(job)
    BY <1>7, <2>1 DEF RunMicrotask
  <2>3. CASE Attaches(job)
    BY <2>3 DEF Attaches
  <2>4. CASE ~Attaches(job)
    BY <2>1, <2>2, <2>4, CalmMicrotask DEF Calm
  <2>5. QED
    BY <2>3, <2>4
<1>8. CASE Events
  BY <1>8 DEF Events, LoaderSettles, AuthChanges, ClientConnects, ClientDrops, ClientEnds, ConnectionTokenFails,
              SubscriptionTokenFails, ChannelSubscribed, ChannelEnds, Published
<1>9. QED
  BY <1>3, <1>4, <1>5, <1>6, <1>7, <1>8 DEF Next, App

\* "Calling subscribe again after correcting the failure": a subscribe with
\* authentication never joins a private client, or a private subscription, that a
\* refused token has stopped (the restart in subscribe()).
THEOREM SubscribeRestartsHolds == Spec => SubscribeRestarts
<1>1. AttachInv /\ [Next]_vars => [\A c \in Consumers, s \in Shareds :
          Begins(c, s) /\ auth /\ (Kind(s) = "private" /\ shared[s].sub # "none")' =>
             (shared[s].sub # "unsubscribed" /\ clients[shared[s].client].state # "disconnected")']_vars
  BY StepBegins DEF Running
<1>2. QED
  BY InitAttach, StepAttach, <1>1, PTL DEF Spec, SubscribeRestarts

-----------------------------------------------------------------------------
(* Who has been told that a channel is subscribed.                         *)

Members(seq) == {seq[i] : i \in DOMAIN seq}

LEMMA MembersAppend ==
    ASSUME NEW S, NEW seq \in Seq(S), NEW x \in S
    PROVE  Members(Append(seq, x)) = Members(seq) \cup {x}
<1>1. /\ Len(seq) \in Nat /\ DOMAIN seq = 1 .. Len(seq)
      /\ DOMAIN Append(seq, x) = 1 .. Len(seq) + 1
      /\ Append(seq, x)[Len(seq) + 1] = x
      /\ \A i \in 1 .. Len(seq) : Append(seq, x)[i] = seq[i]
  OBVIOUS
<1>2. 1 .. Len(seq) + 1 = 1 .. Len(seq) \cup {Len(seq) + 1}
  BY <1>1
<1>3. QED
  BY <1>1, <1>2 DEF Members

LEMMA MembersTail ==
    ASSUME NEW S, NEW seq \in Seq(S), seq # <<>>
    PROVE  Members(seq) = {Head(seq)} \cup Members(Tail(seq))
<1>1. /\ Len(seq) \in Nat \ {0} /\ DOMAIN seq = 1 .. Len(seq) /\ Head(seq) = seq[1]
      /\ DOMAIN Tail(seq) = 1 .. Len(seq) - 1
      /\ \A i \in 1 .. Len(seq) - 1 : Tail(seq)[i] = seq[i + 1]
  OBVIOUS
<1>2. ASSUME NEW i \in DOMAIN seq PROVE seq[i] \in {Head(seq)} \cup Members(Tail(seq))
  <2>1. CASE i = 1
    BY <2>1, <1>1
  <2>2. CASE i # 1
    <3>1. i - 1 \in 1 .. Len(seq) - 1 /\ (i - 1) + 1 = i
      BY <1>1, <2>2
    <3>2. Tail(seq)[i - 1] = seq[i]
      BY <1>1, <3>1
    <3>3. QED
      BY <1>1, <3>1, <3>2 DEF Members
  <2>3. QED
    BY <2>1, <2>2
<1>3. ASSUME NEW i \in DOMAIN Tail(seq) PROVE Tail(seq)[i] \in Members(seq)
  <2>1. i + 1 \in DOMAIN seq /\ Tail(seq)[i] = seq[i + 1]
    BY <1>1
  <2>2. QED
    BY <2>1 DEF Members
<1>4. Head(seq) \in Members(seq)
  BY <1>1 DEF Members
<1>5. QED
  BY <1>2, <1>3, <1>4 DEF Members

LEMMA MembersConcat ==
    ASSUME NEW S, NEW a \in Seq(S), NEW b \in Seq(S)
    PROVE  Members(a \o b) = Members(a) \cup Members(b)
<1>1. /\ Len(a) \in Nat /\ Len(b) \in Nat /\ DOMAIN a = 1 .. Len(a) /\ DOMAIN b = 1 .. Len(b)
      /\ DOMAIN (a \o b) = 1 .. Len(a) + Len(b)
      /\ \A i \in 1 .. Len(a) + Len(b) : (a \o b)[i] = IF i <= Len(a) THEN a[i] ELSE b[i - Len(a)]
  OBVIOUS
<1>2. ASSUME NEW i \in DOMAIN a PROVE a[i] \in Members(a \o b)
  <2>1. i \in DOMAIN (a \o b) /\ (a \o b)[i] = a[i]
    BY <1>1
  <2>2. QED
    BY <2>1 DEF Members
<1>3. ASSUME NEW i \in DOMAIN b PROVE b[i] \in Members(a \o b)
  <2>1. i + Len(a) \in DOMAIN (a \o b) /\ ~(i + Len(a) <= Len(a)) /\ (i + Len(a)) - Len(a) = i
    BY <1>1
  <2>2. (a \o b)[i + Len(a)] = b[i]
    BY <1>1, <2>1
  <2>3. QED
    BY <2>1, <2>2 DEF Members
<1>4. ASSUME NEW i \in DOMAIN (a \o b) PROVE (a \o b)[i] \in Members(a) \cup Members(b)
  <2>1. CASE i <= Len(a)
    BY <1>1, <2>1 DEF Members
  <2>2. CASE ~(i <= Len(a))
    <3>1. i - Len(a) \in DOMAIN b /\ (a \o b)[i] = b[i - Len(a)]
      BY <1>1, <2>2
    <3>2. QED
      BY <3>1 DEF Members
  <2>3. QED
    BY <2>1, <2>2
<1>5. QED
  BY <1>2, <1>3, <1>4 DEF Members

LEMMA MembersFew ==
    /\ Members(<<>>) = {}
    /\ \A x : Members(<<x>>) = {x}
    /\ \A x, y : Members(<<x, y>>) = {x, y}
  BY DEF Members

IsLateJob(job) == job.do = "late"
IsOpen(step)   == step.do = "deliver" /\ step.what = "open"
Lates == {job \in Members(micro) : IsLateJob(job)}
Opens == {step \in Members(turn.steps) : IsOpen(step)}

\* The consumer is going to be told of the subscription there is.
ToldSoon(c, s) ==
    \/ \E job \in Lates : job.c = c /\ job.s = s /\ job.epoch = shared[s].subEpoch
    \/ \E step \in Opens : step.s = s /\ step.epoch = shared[s].subEpoch /\ c \notin step.done

\* Nobody has been told, or is going to be told, of a subscription still to come.
EpochsInv ==
    /\ \A s \in Shareds : shared[s].epoch = 0 => shared[s].sub = "none" /\ shared[s].subEpoch = 0
    /\ \A c \in Consumers : consumer[c].s = NoShared => consumer[c].epoch = -1
    /\ \A c \in Consumers, s \in Shareds : consumer[c].s = s => consumer[c].epoch <= shared[s].subEpoch
    /\ \A job \in Lates : consumer[job.c].s = job.s /\ job.epoch <= shared[job.s].subEpoch
    /\ \A step \in Opens : step.epoch <= shared[step.s].subEpoch

\* Who is on a subscribed channel has been told, or is going to be.
ToldInv == \A s \in Shareds : shared[s].sub = "subscribed" =>
              \A c \in shared[s].handlers : consumer[c].epoch = shared[s].subEpoch \/ ToldSoon(c, s)

NewsInv == CallsInv /\ EpochsInv /\ ToldInv

LEMMA InitNews == Init => NewsInv
<1> SUFFICES ASSUME Init PROVE NewsInv
  OBVIOUS
<1>1. /\ shared = [s \in Shareds |-> NewShared(NoChannel)]
      /\ micro = <<>> /\ turn.steps = <<>>
      /\ consumer = [c \in Consumers |-> [s |-> NoShared, closed |-> FALSE, epoch |-> -1]]
      /\ NoShared \notin Shareds
  BY RealtimeAssumption DEF Init, Rest
<1>2. Lates = {} /\ Opens = {}
  BY <1>1, MembersFew DEF Lates, Opens
<1>3. EpochsInv
  BY <1>1, <1>2 DEF EpochsInv, NewShared
<1>4. ToldInv
  BY <1>1 DEF ToldInv, NewShared
<1>5. QED
  BY <1>3, <1>4, InitCalls DEF NewsInv

LEMMA LateFields ==
    ASSUME TypeOK, NEW job \in Lates
    PROVE  job \in Jobs /\ job.do = "late" /\ job.c \in Consumers /\ job.s \in Shareds /\ job.epoch \in Nat
<1>1. micro \in Seq(Jobs)
  BY DEF TypeOK
<1>2. job \in Jobs /\ job.do = "late"
  BY <1>1 DEF Lates, Members, IsLateJob
<1>3. QED
  BY <1>2 DEF Jobs, Refusals

LEMMA OpenFields ==
    ASSUME TypeOK, NEW step \in Opens
    PROVE  /\ step \in Steps /\ step.do = "deliver" /\ step.what = "open"
           /\ step.s \in Shareds /\ step.epoch \in Nat /\ step.done \in SUBSET Consumers
<1>1. turn.steps \in Seq(Steps)
  BY TurnsType
<1>2. step \in Steps /\ step.do = "deliver" /\ step.what = "open"
  BY <1>1 DEF Opens, Members, IsOpen
<1>3. QED
  BY <1>2 DEF Steps

\* A subscription is not subscribed, joined or made anew.
Follows(o, p) == /\ p.subEpoch = o.subEpoch /\ p.handlers \subseteq o.handlers
                 /\ p.sub = "subscribed" => o.sub = "subscribed"
                 /\ p.epoch = 0 => o.epoch = 0 /\ (o.sub = "none" => p.sub = "none")

LEMMA KeptNews ==
    ASSUME NewsInv, CallsInv', \A s \in Shareds : Follows(shared[s], shared'[s]),
           \A c \in Consumers : consumer'[c].s = consumer[c].s /\ consumer'[c].epoch = consumer[c].epoch,
           Lates' = Lates, Opens' = Opens
    PROVE  NewsInv'
<1>1. TypeOK /\ EpochsInv /\ ToldInv
  BY DEF NewsInv, CallsInv, AttachInv
<1>2. \A job \in Lates : job.c \in Consumers /\ job.s \in Shareds
  BY <1>1, LateFields
<1>3. \A step \in Opens : step.s \in Shareds
  BY <1>1, OpenFields
<1>4. \A s \in Shareds : shared[s].handlers \subseteq Consumers
  BY <1>1, SharedFields DEF Objects
<1>5. EpochsInv'
  BY <1>1, <1>2, <1>3 DEF EpochsInv, Follows
<1>6. ToldInv'
  BY <1>1, <1>4 DEF ToldInv, ToldSoon, Follows
<1>7. QED
  BY <1>5, <1>6 DEF NewsInv

LEMMA RetireFollows ==
    ASSUME TypeOK, NEW kinds, NEW sh \in [Shareds -> Objects], Retire(kinds, sh),
           \A s \in Shareds : Follows(shared[s], sh[s])
    PROVE  \A s \in Shareds : Follows(shared[s], shared'[s])
<1> SUFFICES ASSUME NEW s \in Shareds PROVE Follows(shared[s], shared'[s])
  OBVIOUS
<1>1. sh[s] \in Objects
  OBVIOUS
<1>2. \/ shared'[s] = sh[s]
      \/ sh[s].sub = "subscribed" /\ shared'[s] = [sh[s] EXCEPT !.sub = "subscribing"]
  BY DEF Retire, Offline
<1>3. \/ shared'[s] = sh[s]
      \/ /\ sh[s].sub = "subscribed" /\ shared'[s].sub = "subscribing"
         /\ shared'[s].epoch = sh[s].epoch /\ shared'[s].subEpoch = sh[s].subEpoch
         /\ shared'[s].handlers = sh[s].handlers
  BY <1>1, <1>2 DEF Objects
<1>4. QED
  BY <1>3 DEF Follows

LEMMA TornDownFollows ==
    ASSUME TypeOK, NEW S
    PROVE  /\ TornDown(shared, S) \in [Shareds -> Objects]
           /\ \A s \in Shareds : Follows(shared[s], TornDown(shared, S)[s])
<1>1. ASSUME NEW s \in Shareds PROVE Follows(shared[s], TornDown(shared, S)[s])
  <2>1. shared[s] \in Objects /\ shared[s].epoch \in Nat
    BY SharedFields
  <2>2. \/ TornDown(shared, S)[s] = shared[s]
        \/ TornDown(shared, S)[s] = [shared[s] EXCEPT !.sub = "none", !.client = 0, !.epoch = shared[s].epoch + 1]
    BY DEF TornDown
  <2>3. \/ TornDown(shared, S)[s] = shared[s]
        \/ /\ TornDown(shared, S)[s].sub = "none" /\ TornDown(shared, S)[s].epoch = shared[s].epoch + 1
           /\ TornDown(shared, S)[s].subEpoch = shared[s].subEpoch
           /\ TornDown(shared, S)[s].handlers = shared[s].handlers
    BY <2>1, <2>2 DEF Objects
  <2>4. shared[s].epoch + 1 # 0
    BY <2>1
  <2>5. QED
    BY <2>3, <2>4 DEF Follows
<1>2. QED
  BY <1>1, TornDownTypes DEF TypeOK

LEMMA TerminateFollows ==
    ASSUME TypeOK, NEW S, NEW kinds, Terminate(S, kinds)
    PROVE  \A s \in Shareds : Follows(shared[s], shared'[s])
<1>1. PICK sh : sh = [s \in Shareds |-> IF s \in S THEN [TornDown(shared, S)[s] EXCEPT !.handlers = {}]
                                        ELSE shared[s]]
  OBVIOUS
<1>2. /\ shared \in [Shareds -> Objects] /\ TornDown(shared, S) \in [Shareds -> Objects]
      /\ \A s \in Shareds : Follows(shared[s], TornDown(shared, S)[s])
  BY TornDownFollows DEF TypeOK
<1>3. ASSUME NEW s \in Shareds PROVE sh[s] \in Objects /\ Follows(shared[s], sh[s])
  <2>1. TornDown(shared, S)[s] \in Objects /\ shared[s] \in Objects
    BY <1>2
  <2>2. PICK o : o = [TornDown(shared, S)[s] EXCEPT !.handlers = {}]
    OBVIOUS
  <2>3. /\ o \in Objects /\ o.handlers = {} /\ o.sub = TornDown(shared, S)[s].sub
        /\ o.epoch = TornDown(shared, S)[s].epoch /\ o.subEpoch = TornDown(shared, S)[s].subEpoch
    BY <2>1, <2>2 DEF Objects
  <2>4. Follows(shared[s], o)
    BY <1>2, <2>3 DEF Follows
  <2>5. sh[s] = o \/ sh[s] = shared[s]
    BY <1>1, <2>2
  <2>6. QED
    BY <2>1, <2>3, <2>4, <2>5 DEF Follows
<1>4. sh \in [Shareds -> Objects]
  BY <1>1, <1>3
<1>5. Retire(kinds, sh)
  BY <1>1 DEF Terminate
<1>6. QED
  BY <1>3, <1>4, <1>5, RetireFollows

LEMMA SameFollows == \A o : Follows(o, o)
  BY DEF Follows

LEMMA LatesAppended ==
    ASSUME TypeOK, NEW job \in Jobs, micro' = Append(micro, job), ~IsLateJob(job)
    PROVE  Lates' = Lates
<1>1. Members(micro)' = Members(micro) \cup {job}
  BY MembersAppend DEF TypeOK
<1>2. QED
  BY <1>1 DEF Lates

LEMMA NewsDisconnect ==
    ASSUME NewsInv, CallsInv', Disconnect \/ DisconnectPrivate
    PROVE  NewsInv'
<1>1. TypeOK /\ shared \in [Shareds -> Objects]
  BY DEF NewsInv, CallsInv, AttachInv, TypeOK
<1>2. UNCHANGED <<consumer, micro, turn>> /\ Lates' = Lates /\ Opens' = Opens
  BY DEF Disconnect, DisconnectPrivate, Lates, Opens
<1>3. \A s \in Shareds : Follows(shared[s], shared'[s])
  <2>1. CASE Disconnect
    BY <1>1, <2>1, RetireFollows, SameFollows DEF Disconnect
  <2>2. CASE DisconnectPrivate
    <3>1. PICK S : Retire({"private"}, TornDown(shared, S))
      BY <2>2 DEF DisconnectPrivate
    <3>2. QED
      BY <1>1, <3>1, TornDownFollows, RetireFollows
  <2>3. QED
    BY <2>1, <2>2
<1>4. QED
  BY <1>2, <1>3, KeptNews

LEMMA MetAgainOpens ==
    ASSUME TypeOK, NEW s, turn' = MetAgain(s)
    PROVE  Opens' = Opens
<1>1. turn \in [steps : Seq(Steps), in : Consumers \cup {NoConsumer}]
  BY DEF TypeOK
<1>2. turn'.steps = [i \in DOMAIN turn.steps |-> Unmet(turn.steps[i], s)]
  BY <1>1 DEF MetAgain
<1>3. ASSUME NEW i \in DOMAIN turn.steps
      PROVE  /\ IsOpen(Unmet(turn.steps[i], s)) <=> IsOpen(turn.steps[i])
             /\ IsOpen(turn.steps[i]) => Unmet(turn.steps[i], s) = turn.steps[i]
  <2>1. turn.steps[i] \in Steps
    BY <1>1
  <2>2. CASE turn.steps[i].do = "tokenError"
    <3>1. turn.steps[i] \in [do : {"tokenError"}, done : SUBSET Shareds]
      BY <2>1, <2>2 DEF Steps
    <3>2. Unmet(turn.steps[i], s).do = "tokenError"
      BY <3>1 DEF Unmet
    <3>3. QED
      BY <2>2, <3>2 DEF IsOpen
  <2>3. CASE turn.steps[i].do # "tokenError"
    BY <2>3 DEF Unmet
  <2>4. QED
    BY <2>2, <2>3
<1>4. DOMAIN turn'.steps = DOMAIN turn.steps
      /\ \A i \in DOMAIN turn.steps : turn'.steps[i] = Unmet(turn.steps[i], s)
  BY <1>2
<1>5. QED
  BY <1>3, <1>4 DEF Opens, Members

LEMMA NewsDispose ==
    ASSUME NewsInv, CallsInv', NEW c \in Consumers, Dispose(c)
    PROVE  NewsInv'
<1>1. /\ TypeOK /\ consumer \in [Consumers -> Closures] /\ consumer[c] \in Closures
      /\ shared \in [Shareds -> Objects]
  BY DEF NewsInv, CallsInv, AttachInv, TypeOK
<1>2. PICK s \in Shareds : s = consumer[c].s
  BY <1>1 DEF Dispose, Disposable, Closures
<1>3. /\ shared' = [shared EXCEPT ![s] = [shared[s] EXCEPT !.consumers = shared[s].consumers - 1,
                                                          !.handlers = shared[s].handlers \ {c}]]
      /\ consumer' = [consumer EXCEPT ![c] = [consumer[c] EXCEPT !.closed = TRUE]]
  BY <1>2 DEF Dispose
<1>4. \A d \in Consumers : consumer'[d].s = consumer[d].s /\ consumer'[d].epoch = consumer[d].epoch
  BY <1>1, <1>3 DEF Closures
<1>5. \A t \in Shareds : Follows(shared[t], shared'[t])
  <2>1. shared[s] \in Objects
    BY <1>1
  <2>2. Follows(shared[s], shared'[s])
    BY <1>1, <1>3, <2>1 DEF Objects, Follows
  <2>3. \A t \in Shareds \ {s} : shared'[t] = shared[t]
    BY <1>1, <1>3
  <2>4. QED
    BY <2>2, <2>3, SameFollows
<1>6. Opens' = Opens
  <2>1. turn' = MetAgain(s) \/ UNCHANGED turn
    BY <1>2 DEF Dispose
  <2>2. QED
    BY <1>1, <2>1, MetAgainOpens DEF Opens
<1>7. Lates' = Lates
  <2>1. PICK job : job = [do |-> "teardown", s |-> s]
    OBVIOUS
  <2>2. job \in Jobs /\ ~IsLateJob(job)
    BY <2>1 DEF Jobs, IsLateJob
  <2>3. micro' = Append(micro, job) \/ UNCHANGED micro
    BY <1>2, <2>1 DEF Dispose, Later
  <2>4. QED
    BY <1>1, <2>2, <2>3, LatesAppended DEF Lates
<1>8. QED
  BY <1>4, <1>5, <1>6, <1>7, KeptNews

LEMMA IdleQuiet == Idle => Lates = {} /\ Opens = {}
  BY MembersFew DEF Idle, Lates, Opens

LEMMA DoingOpens ==
    /\ \A x : turn' = Doing(<<x>>) => Opens' = {step \in {x} : IsOpen(step)}
    /\ \A x, y : turn' = Doing(<<x, y>>) => Opens' = {step \in {x, y} : IsOpen(step)}
    /\ turn' = Rest => Opens' = {}
  BY MembersFew DEF Doing, Rest, Opens

LEMMA SilentDeliver ==
    ASSUME NEW s
    PROVE  /\ ~IsOpen(Deliver("error", s)) /\ ~IsOpen(Deliver("close", s)) /\ ~IsOpen(Deliver("publication", s))
           /\ \A job : ~IsOpen(Then(job))
           /\ \A left : ~IsOpen([do |-> "end", left |-> left])
           /\ \A done : ~IsOpen([do |-> "tokenError", done |-> done])
           /\ \A what, who : ~IsOpen(Call(what, who))
  BY DEF Deliver, Then, Call, IsOpen

LEMMA NewsSubscribed ==
    ASSUME NewsInv, CallsInv', NEW s \in Shareds, ChannelSubscribed(s)
    PROVE  NewsInv'
<1>1. /\ TypeOK /\ EpochsInv /\ ToldInv /\ HandlersInv /\ shared \in [Shareds -> Objects] /\ shared[s] \in Objects
      /\ Lates = {} /\ Opens = {} /\ shared[s].subEpoch \in Nat
      /\ \A c \in Consumers : consumer[c].epoch \in Nat \cup {-1}
  BY IdleQuiet, SharedFields DEF NewsInv, CallsInv, AttachInv, TypeOK, ChannelSubscribed, Objects, Closures
<1>2. /\ shared[s].sub = "subscribing"
      /\ shared' = [shared EXCEPT ![s] = [shared[s] EXCEPT !.sub = "subscribed",
                                                            !.subEpoch = shared[s].subEpoch + 1]]
      /\ UNCHANGED <<consumer, micro>>
  BY DEF ChannelSubscribed
<1>3. /\ shared'[s].subEpoch = shared[s].subEpoch + 1 /\ shared'[s].handlers = shared[s].handlers
      /\ shared'[s].epoch = shared[s].epoch
      /\ \A t \in Shareds \ {s} : shared'[t] = shared[t]
  BY <1>1, <1>2 DEF Objects
<1>4. PICK step : step = [Deliver("open", s) EXCEPT !.epoch = shared[s].subEpoch + 1]
  OBVIOUS
<1>5. /\ step.do = "deliver" /\ step.what = "open" /\ step.s = s /\ step.done = {}
      /\ step.epoch = shared'[s].subEpoch
  BY <1>1, <1>3, <1>4 DEF Deliver
<1>6. Lates' = {} /\ Opens' = {step}
  <2>1. turn' = Doing(<<step>>)
    <3>1. [Deliver("open", s) EXCEPT !.epoch = @ + 1] = step
      BY <1>1, <1>4 DEF Deliver
    <3>2. QED
      BY <3>1 DEF ChannelSubscribed
  <2>2. Opens' = {step}
    BY <1>5, <2>1, DoingOpens DEF IsOpen
  <2>3. QED
    BY <1>1, <1>2, <2>2 DEF Lates
<1>7. EpochsInv'
  <2>1. \A t \in Shareds : shared'[t].epoch = 0 => shared'[t].sub = "none" /\ shared'[t].subEpoch = 0
    BY <1>1, <1>2, <1>3 DEF EpochsInv
  <2>2. \A c \in Consumers, t \in Shareds : consumer'[c].s = t => consumer'[c].epoch <= shared'[t].subEpoch
    <3> SUFFICES ASSUME NEW c \in Consumers, NEW t \in Shareds, consumer[c].s = t
                 PROVE  consumer[c].epoch <= shared'[t].subEpoch
      BY <1>2
    <3>1. consumer[c].epoch <= shared[t].subEpoch
      BY <1>1 DEF EpochsInv
    <3>2. CASE t = s
      BY <1>1, <1>3, <3>1, <3>2
    <3>3. CASE t # s
      BY <1>3, <3>1, <3>3
    <3>4. QED
      BY <3>2, <3>3
  <2>3. \A c \in Consumers : consumer'[c].s = NoShared => consumer'[c].epoch = -1
    BY <1>1, <1>2 DEF EpochsInv
  <2>4. step.epoch <= shared'[step.s].subEpoch
    BY <1>1, <1>3, <1>5
  <2>5. QED
    BY <1>6, <2>1, <2>2, <2>3, <2>4 DEF EpochsInv
<1>8. ToldInv'
  <2> SUFFICES ASSUME NEW t \in Shareds, shared'[t].sub = "subscribed", NEW c \in shared'[t].handlers
               PROVE  consumer'[c].epoch = shared'[t].subEpoch \/ ToldSoon(c, t)'
    BY DEF ToldInv
  <2>1. CASE t = s
    BY <1>5, <1>6, <2>1 DEF ToldSoon
  <2>2. CASE t # s
    BY <1>1, <1>2, <1>3, <2>2 DEF ToldInv, ToldSoon
  <2>3. QED
    BY <2>1, <2>2
<1>9. QED
  BY <1>7, <1>8 DEF NewsInv

LEMMA NewsEvents ==
    ASSUME NewsInv, CallsInv', Events
    PROVE  NewsInv'
<1>1. TypeOK /\ shared \in [Shareds -> Objects]
  BY DEF NewsInv, CallsInv, AttachInv, TypeOK
<1>2. Lates = {} /\ Opens = {} /\ UNCHANGED consumer
  BY IdleQuiet
     DEF Events, LoaderSettles, AuthChanges, ClientConnects, ClientDrops, ClientEnds, ConnectionTokenFails,
         SubscriptionTokenFails, ChannelSubscribed, ChannelEnds, Published
<1>3. ASSUME Lates' = {}, Opens' = {}, \A s \in Shareds : Follows(shared[s], shared'[s])
      PROVE  NewsInv'
  BY <1>2, <1>3, KeptNews
<1>4. CASE LoaderSettles
  <2>1. UNCHANGED <<shared, turn>> /\ \A i \in DOMAIN micro' : micro'[i].do = "attach"
    BY <1>4 DEF LoaderSettles
  <2>2. Lates' = {}
    BY <2>1 DEF Lates, Members, IsLateJob
  <2>3. Opens' = {}
    BY <1>2, <2>1 DEF Opens
  <2>4. QED
    BY <1>3, <2>1, <2>2, <2>3, SameFollows
<1>5. CASE AuthChanges \/ \E n \in DOMAIN clients : ClientConnects(n)
  <2>1. UNCHANGED <<shared, turn, micro>>
    BY <1>5 DEF AuthChanges, ClientConnects
  <2>2. QED
    BY <1>2, <1>3, <2>1, SameFollows DEF Lates, Opens
<1>6. ASSUME NEW n \in DOMAIN clients, ClientDrops(n) PROVE NewsInv'
  <2>1. UNCHANGED <<turn, micro>> /\ shared' = Offline(shared, {n})
    BY <1>6 DEF ClientDrops
  <2>2. ASSUME NEW s \in Shareds PROVE Follows(shared[s], shared'[s])
    <3>1. shared[s] \in Objects
      BY <1>1
    <3>2. \/ shared'[s] = shared[s]
          \/ shared'[s] = [shared[s] EXCEPT !.sub = "subscribing"] /\ shared[s].sub = "subscribed"
      BY <2>1 DEF Offline
    <3>3. QED
      BY <3>1, <3>2 DEF Objects, Follows
  <2>3. QED
    BY <1>2, <1>3, <2>1, <2>2 DEF Lates, Opens
<1>7. ASSUME NEW n \in DOMAIN clients, ConnectionTokenFails(n) PROVE NewsInv'
  <2>1. /\ UNCHANGED <<shared, micro>>
        /\ \/ turn' = Doing(<<[do |-> "tokenError", done |-> {}]>>)
           \/ turn' = Doing(<<[do |-> "tokenError", done |-> {}], Then([do |-> "refuseClient", n |-> n])>>)
    BY <1>7 DEF ConnectionTokenFails
  <2>2. Opens' = {}
    BY <2>1, DoingOpens, SilentDeliver
  <2>3. QED
    BY <1>2, <1>3, <2>1, <2>2, SameFollows DEF Lates
<1>8. ASSUME NEW s \in Shareds, SubscriptionTokenFails(s) \/ Published(s) PROVE NewsInv'
  <2>1. /\ UNCHANGED <<shared, micro>>
        /\ \/ turn' = Doing(<<Deliver("error", s)>>)
           \/ turn' = Doing(<<Deliver("publication", s)>>)
           \/ turn' = Doing(<<Deliver("error", s), Then([do |-> "refuseSub", s |-> s])>>)
    BY <1>8 DEF SubscriptionTokenFails, Published
  <2>2. Opens' = {}
    BY <2>1, DoingOpens, SilentDeliver
  <2>3. QED
    BY <1>2, <1>3, <2>1, <2>2, SameFollows DEF Lates
<1>9. ASSUME NEW S, NEW kinds, Terminate(S, kinds), UNCHANGED micro PROVE NewsInv'
  <2>1. PICK left : turn' = Doing(<<[do |-> "end", left |-> left]>>)
    BY <1>9 DEF Terminate
  <2>2. Opens' = {}
    BY <2>1, DoingOpens, SilentDeliver
  <2>3. QED
    BY <1>1, <1>2, <1>3, <1>9, <2>2, TerminateFollows DEF Lates
<1>10. ASSUME NEW n \in DOMAIN clients, ClientEnds(n) PROVE NewsInv'
  BY <1>9, <1>10 DEF ClientEnds
<1>11. ASSUME NEW s \in Shareds, ChannelEnds(s) PROVE NewsInv'
  BY <1>9, <1>11 DEF ChannelEnds
<1>12. QED
  BY <1>4, <1>5, <1>6, <1>7, <1>8, <1>10, <1>11, NewsSubscribed DEF Events

LEMMA OpensReplaced ==
    ASSUME TypeOK, turn.steps # <<>>, NEW steps \in Seq(Steps), NEW in, Replaced(steps, in)
    PROVE  /\ Opens = {step \in {Head(turn.steps)} \cup Members(Tail(turn.steps)) : IsOpen(step)}
           /\ Opens' = {step \in Members(steps) \cup Members(Tail(turn.steps)) : IsOpen(step)}
<1>1. turn.steps \in Seq(Steps) /\ Tail(turn.steps) \in Seq(Steps)
  BY TurnsType
<1>2. turn'.steps = steps \o Tail(turn.steps)
  BY DEF Replaced
<1>3. Members(turn.steps) = {Head(turn.steps)} \cup Members(Tail(turn.steps))
  BY <1>1, MembersTail
<1>4. Members(turn'.steps) = Members(steps) \cup Members(Tail(turn.steps))
  BY <1>1, <1>2, MembersConcat
<1>5. QED
  BY <1>3, <1>4 DEF Opens

LEMMA NewsCallLive ==
    ASSUME NewsInv, CallsInv', turn.steps # <<>>, UNCHANGED shared,
           NEW step \in Steps, step = Head(turn.steps), CallLive(step)
    PROVE  NewsInv'
<1>1. /\ TypeOK /\ EpochsInv /\ ToldInv /\ HandlersInv /\ shared \in [Shareds -> Objects]
      /\ consumer \in [Consumers -> Closures]
  BY DEF NewsInv, CallsInv, AttachInv, TypeOK
<1>2. step \in [do : {"deliver"}, what : News, s : Shareds, epoch : Nat, done : SUBSET Consumers]
  BY DEF CallLive, Steps
<1>3. PICK c \in Callable(step) :
        /\ Replaced(<<[step EXCEPT !.done = step.done \cup {c}]>>, c)
        /\ consumer' = Heard(c, step)
  BY DEF CallLive
<1>4. /\ c \in shared[step.s].handlers /\ step.s \in Shareds /\ c \in Consumers
      /\ consumer[c].s = step.s /\ step.epoch \in Nat /\ consumer[c] \in Closures
  <2>1. c \in shared[step.s].handlers /\ step.s \in Shareds
    BY <1>2, <1>3 DEF Callable
  <2>2. c \in Consumers
    BY <1>1, <2>1, SharedFields DEF Objects
  <2>3. QED
    BY <1>1, <1>2, <2>1, <2>2 DEF HandlersInv
<1>5. PICK next : next = [step EXCEPT !.done = step.done \cup {c}]
  OBVIOUS
<1>6. /\ next \in Steps /\ next.do = "deliver" /\ next.what = step.what /\ next.s = step.s
      /\ next.epoch = step.epoch /\ next.done = step.done \cup {c}
      /\ IsOpen(next) <=> IsOpen(step)
  <2>1. next \in [do : {"deliver"}, what : News, s : Shareds, epoch : Nat, done : SUBSET Consumers]
    BY <1>2, <1>4, <1>5
  <2>2. QED
    BY <1>2, <1>5, <2>1 DEF Steps, IsOpen
<1>7. PICK others : others = {x \in Members(Tail(turn.steps)) : IsOpen(x)}
  OBVIOUS
<1>8. /\ Opens = {x \in {step} : IsOpen(x)} \cup others
      /\ Opens' = {x \in {next} : IsOpen(x)} \cup others
  <2>1. <<next>> \in Seq(Steps) /\ Replaced(<<next>>, c)
    BY <1>3, <1>5, <1>6
  <2>2. QED
    BY <1>1, <1>7, <2>1, OpensReplaced, MembersFew
<1>9. Lates' = Lates
  BY DEF CallLive, Lates
<1>10. CASE ~IsOpen(step)
  <2>1. UNCHANGED consumer
    BY <1>2, <1>3, <1>10 DEF Heard, IsOpen
  <2>2. Opens' = Opens
    BY <1>6, <1>8, <1>10
  <2>3. QED
    BY <1>9, <2>1, <2>2, KeptNews, SameFollows
<1>11. CASE IsOpen(step)
  <2>1. /\ consumer' = [consumer EXCEPT ![c] = [consumer[c] EXCEPT !.epoch = step.epoch]]
        /\ consumer[c].epoch < step.epoch
    BY <1>3, <1>11 DEF Heard, Callable, IsOpen
  <2>2. /\ consumer'[c].epoch = step.epoch /\ consumer'[c].s = step.s
        /\ \A d \in Consumers \ {c} : consumer'[d] = consumer[d]
        /\ \A d \in Consumers : consumer'[d].s = consumer[d].s
    BY <1>1, <1>4, <2>1 DEF Closures
  <2>3. Opens = {step} \cup others /\ Opens' = {next} \cup others
    BY <1>6, <1>8, <1>11
  <2>4. step.epoch <= shared[step.s].subEpoch
    BY <1>1, <2>3 DEF EpochsInv
  <2>5. EpochsInv'
    <3>1. ASSUME NEW d \in Consumers, NEW t \in Shareds, consumer'[d].s = t
          PROVE  consumer'[d].epoch <= shared'[t].subEpoch
      <4>1. CASE d = c
        BY <2>2, <2>4, <3>1, <4>1
      <4>2. CASE d # c
        BY <1>1, <2>2, <3>1, <4>2 DEF EpochsInv
      <4>3. QED
        BY <4>1, <4>2
    <3>2. \A d \in Consumers : consumer'[d].s = NoShared => consumer'[d].epoch = -1
      <4>1. step.s # NoShared
        BY <1>4, RealtimeAssumption
      <4>2. QED
        BY <1>1, <2>2, <4>1 DEF EpochsInv
    <3>3. \A job \in Lates' : consumer'[job.c].s = job.s /\ job.epoch <= shared'[job.s].subEpoch
      <4>1. \A job \in Lates : job.c \in Consumers
        BY <1>1, LateFields
      <4>2. QED
        BY <1>1, <1>9, <2>2, <4>1 DEF EpochsInv
    <3>4. \A x \in Opens' : x.epoch <= shared'[x.s].subEpoch
      BY <1>1, <1>6, <2>3, <2>4 DEF EpochsInv
    <3>5. QED
      BY <1>1, <3>1, <3>2, <3>3, <3>4 DEF EpochsInv
  <2>6. ToldInv'
    <3> SUFFICES ASSUME NEW t \in Shareds, shared[t].sub = "subscribed", NEW d \in shared[t].handlers
                 PROVE  consumer'[d].epoch = shared[t].subEpoch \/ ToldSoon(d, t)'
      BY DEF ToldInv
    <3>1. d \in Consumers /\ consumer[d].s = t
      BY <1>1, SharedFields DEF Objects, HandlersInv
    <3>2. CASE d = c
      <4>1. t = step.s
        BY <1>4, <3>1, <3>2
      <4>2. consumer[d].epoch # shared[t].subEpoch
        <5>1. /\ consumer[c].epoch < step.epoch /\ step.epoch <= shared[step.s].subEpoch
              /\ consumer[c].epoch \in Nat \cup {-1} /\ step.epoch \in Nat /\ shared[step.s].subEpoch \in Nat
          BY <1>1, <1>4, <2>1, <2>4, SharedFields DEF Closures, Objects
        <5>2. QED
          BY <3>2, <4>1, <5>1
      <4>3. ToldSoon(d, t)
        BY <1>1, <4>2 DEF ToldInv
      <4>4. CASE \E job \in Lates : job.c = d /\ job.s = t /\ job.epoch = shared[t].subEpoch
        BY <1>9, <4>4 DEF ToldSoon
      <4>5. CASE \E x \in Opens : x.s = t /\ x.epoch = shared[t].subEpoch /\ d \notin x.done
        BY <2>2, <2>3, <3>2, <4>5 DEF ToldSoon
      <4>6. QED
        BY <4>3, <4>4, <4>5 DEF ToldSoon
    <3>3. CASE d # c
      <4>1. consumer'[d].epoch = consumer[d].epoch
        BY <2>2, <3>1, <3>3
      <4>2. ToldSoon(d, t) => ToldSoon(d, t)'
        BY <1>6, <1>9, <2>3, <3>3 DEF ToldSoon
      <4>3. QED
        BY <1>1, <4>1, <4>2 DEF ToldInv
    <3>4. QED
      BY <3>2, <3>3
  <2>7. QED
    BY <2>5, <2>6 DEF NewsInv
<1>12. QED
  BY <1>10, <1>11

LEMMA NewsStepDone ==
    ASSUME NewsInv, CallsInv', turn.steps # <<>>, UNCHANGED shared,
           NEW step \in Steps, step = Head(turn.steps), StepDone(step)
    PROVE  NewsInv'
<1>1. /\ TypeOK /\ EpochsInv /\ ToldInv /\ HandlersInv /\ shared \in [Shareds -> Objects]
      /\ consumer \in [Consumers -> Closures] /\ UNCHANGED consumer
  BY DEF NewsInv, CallsInv, AttachInv, TypeOK, StepDone
<1>2. PICK others : others = {x \in Members(Tail(turn.steps)) : IsOpen(x)}
  OBVIOUS
<1>3. Opens = {x \in {step} : IsOpen(x)} \cup others /\ Opens' = others
  <2>1. <<>> \in Seq(Steps) /\ Replaced(<<>>, NoConsumer)
    BY DEF StepDone
  <2>2. QED
    BY <1>1, <1>2, <2>1, OpensReplaced, MembersFew
<1>4. Lates' = Lates
  <2>1. CASE UNCHANGED micro
    BY <2>1 DEF Lates
  <2>2. CASE step.do = "then" /\ Later(step.job)
    <3>1. step \in [do : {"then"}, job : Refusals]
      BY <2>2 DEF Steps
    <3>2. step.job \in Jobs /\ ~IsLateJob(step.job)
      BY <3>1 DEF Jobs, Refusals, IsLateJob
    <3>3. QED
      BY <1>1, <2>2, <3>2, LatesAppended DEF Later
  <2>3. QED
    BY <2>1, <2>2 DEF StepDone
<1>5. CASE ~IsOpen(step)
  <2>1. Opens' = Opens
    BY <1>3, <1>5
  <2>2. QED
    BY <1>1, <1>4, <2>1, KeptNews, SameFollows
<1>6. CASE IsOpen(step)
  <2>1. Opens = {step} \cup others /\ Opens' = others /\ Callable(step) = {} /\ step.s \in Shareds
    BY <1>1, <1>3, <1>6, OpenFields DEF StepDone, IsOpen
  <2>2. EpochsInv'
    BY <1>1, <1>4, <2>1 DEF EpochsInv
  <2>3. ToldInv'
    <3> SUFFICES ASSUME NEW t \in Shareds, shared[t].sub = "subscribed", NEW d \in shared[t].handlers,
                        consumer[d].epoch # shared[t].subEpoch
                 PROVE  ToldSoon(d, t)'
      BY <1>1 DEF ToldInv
    <3>1. d \in Consumers /\ consumer[d].s = t
      BY <1>1, SharedFields DEF Objects, HandlersInv
    <3>2. ToldSoon(d, t)
      BY <1>1 DEF ToldInv
    <3>3. CASE \E job \in Lates : job.c = d /\ job.s = t /\ job.epoch = shared[t].subEpoch
      BY <1>4, <3>3 DEF ToldSoon
    <3>4. CASE \E x \in others : x.s = t /\ x.epoch = shared[t].subEpoch /\ d \notin x.done
      BY <2>1, <3>4 DEF ToldSoon
    <3>5. CASE step.s = t /\ step.epoch = shared[t].subEpoch /\ d \notin step.done
      <4>1. ~(consumer[d].epoch < step.epoch)
        BY <1>6, <2>1, <3>5 DEF Callable, IsOpen
      <4>2. consumer[d].epoch <= shared[t].subEpoch
        BY <1>1, <3>1 DEF EpochsInv
      <4>3. consumer[d].epoch \in Nat \cup {-1} /\ shared[t].subEpoch \in Nat
        BY <1>1, <3>1, SharedFields DEF Closures, Objects
      <4>4. QED
        BY <3>5, <4>1, <4>2, <4>3
    <3>6. QED
      BY <2>1, <3>2, <3>3, <3>4, <3>5 DEF ToldSoon
  <2>4. QED
    BY <2>2, <2>3 DEF NewsInv
<1>7. QED
  BY <1>5, <1>6

LEMMA NewsProceed ==
    ASSUME NewsInv, CallsInv', Proceed
    PROVE  NewsInv'
<1>1. PICK step : step = Head(turn.steps)
  OBVIOUS
<1>2. /\ TypeOK /\ turn.steps # <<>> /\ step \in Steps /\ UNCHANGED shared
      /\ \/ CallLive(step) \/ CallCollected(step) \/ NextEnd(step)
         \/ NextTokenError(step) \/ StepDone(step)
  BY <1>1, TurnsType DEF NewsInv, CallsInv, AttachInv, Proceed
<1>3. ASSUME UNCHANGED <<consumer, micro>>, ~IsOpen(step),
             NEW steps \in Seq(Steps), NEW in, Replaced(steps, in), \A x \in Members(steps) : ~IsOpen(x)
      PROVE  NewsInv'
  <2>1. Opens' = Opens
    BY <1>1, <1>2, <1>3, OpensReplaced
  <2>2. Lates' = Lates
    BY <1>3 DEF Lates
  <2>3. QED
    BY <1>2, <1>3, <2>1, <2>2, KeptNews, SameFollows
<1>4. CASE CallCollected(step)
  <2>1. step \in [do : {"call"}, what : News, who : SUBSET Consumers]
    BY <1>2, <1>4 DEF CallCollected, Steps
  <2>2. PICK c \in step.who : Replaced(<<[step EXCEPT !.who = step.who \ {c}]>>, c)
    BY <1>4 DEF CallCollected
  <2>3. PICK next : next = [step EXCEPT !.who = step.who \ {c}]
    OBVIOUS
  <2>4. next \in Steps /\ ~IsOpen(next) /\ ~IsOpen(step)
    BY <2>1, <2>2, <2>3 DEF Steps, IsOpen
  <2>5. <<next>> \in Seq(Steps) /\ Members(<<next>>) = {next}
    BY <2>4, MembersFew
  <2>6. QED
    BY <1>3, <1>4, <2>2, <2>3, <2>4, <2>5 DEF CallCollected
<1>5. CASE NextEnd(step)
  <2>1. step \in [do : {"end"}, left : SUBSET SUBSET Consumers]
    BY <1>2, <1>5 DEF NextEnd, Steps
  <2>2. PICK who \in step.left :
           Replaced(<<Call("error", who), Call("close", who), [step EXCEPT !.left = step.left \ {who}]>>,
                    NoConsumer)
    BY <1>5 DEF NextEnd
  <2>3. PICK x, y, next : x = Call("error", who) /\ y = Call("close", who)
                          /\ next = [step EXCEPT !.left = step.left \ {who}]
    OBVIOUS
  <2>4. next \in Steps /\ ~IsOpen(next) /\ ~IsOpen(step)
    BY <2>1, <2>2, <2>3 DEF Steps, IsOpen
  <2>5. x \in Steps /\ y \in Steps /\ ~IsOpen(x) /\ ~IsOpen(y)
    BY <2>1, <2>2, <2>3, CallTypes, SilentDeliver DEF News
  <2>6. <<x, y, next>> \in Seq(Steps) /\ Members(<<x, y, next>>) = {x, y, next}
    BY <2>4, <2>5 DEF Members
  <2>7. \A z \in Members(<<x, y, next>>) : ~IsOpen(z)
    BY <2>4, <2>5, <2>6
  <2>8. QED
    BY <1>3, <1>5, <2>2, <2>3, <2>4, <2>6, <2>7 DEF NextEnd
<1>6. CASE NextTokenError(step)
  <2>1. step \in [do : {"tokenError"}, done : SUBSET Shareds]
    BY <1>2, <1>6 DEF NextTokenError, Steps
  <2>2. PICK s \in ToReport(step) :
           Replaced(<<Deliver("error", s), [step EXCEPT !.done = step.done \cup {s}]>>, NoConsumer)
    BY <1>6 DEF NextTokenError
  <2>3. PICK x, next : x = Deliver("error", s) /\ next = [step EXCEPT !.done = step.done \cup {s}]
    OBVIOUS
  <2>4. s \in Shareds
    BY <1>2, <2>2 DEF ToReport, Tracked, TypeOK
  <2>5. next \in Steps /\ ~IsOpen(next) /\ ~IsOpen(step)
    BY <2>1, <2>3, <2>4 DEF Steps, IsOpen
  <2>6. x \in Steps /\ ~IsOpen(x)
    BY <1>2, <2>3, <2>4, DeliverTypes, SilentDeliver DEF News
  <2>7. <<x, next>> \in Seq(Steps) /\ Members(<<x, next>>) = {x, next}
    BY <2>5, <2>6, MembersFew
  <2>8. \A z \in Members(<<x, next>>) : ~IsOpen(z)
    BY <2>5, <2>6, <2>7
  <2>9. QED
    BY <1>3, <1>6, <2>2, <2>3, <2>5, <2>7, <2>8 DEF NextTokenError
<1>7. QED
  BY <1>1, <1>2, <1>4, <1>5, <1>6, NewsCallLive, NewsStepDone

LEMMA LatesRun ==
    ASSUME TypeOK, micro # <<>>, micro' = Tail(micro), NEW job, job = Head(micro)
    PROVE  /\ Lates' \subseteq Lates /\ Lates \subseteq Lates' \cup {job}
           /\ IsLateJob(job) => job \in Lates
           /\ ~IsLateJob(job) => Lates' = Lates
<1>1. Members(micro) = {job} \cup Members(micro)'
  BY MembersTail DEF TypeOK
<1>2. QED
  BY <1>1 DEF Lates

LEMMA NewsTellLate ==
    ASSUME NewsInv, CallsInv', turn.steps = <<>>, micro # <<>>, micro' = Tail(micro),
           NEW job, job = Head(micro), TellLate(job)
    PROVE  NewsInv'
<1>1. /\ TypeOK /\ EpochsInv /\ ToldInv /\ HandlersInv /\ shared \in [Shareds -> Objects]
      /\ consumer \in [Consumers -> Closures] /\ UNCHANGED shared
  BY DEF NewsInv, CallsInv, AttachInv, TypeOK, TellLate
<1>2. job \in Lates /\ Lates' \subseteq Lates /\ Lates \subseteq Lates' \cup {job}
  BY <1>1, LatesRun DEF TellLate, IsLateJob
<1>3. /\ job.c \in Consumers /\ job.s \in Shareds /\ job.epoch \in Nat /\ consumer[job.c] \in Closures
      /\ consumer[job.c].s = job.s /\ job.epoch <= shared[job.s].subEpoch
  BY <1>1, <1>2, LateFields DEF EpochsInv
<1>4. Opens = {} /\ Opens' = {}
  <2>1. turn'.steps = <<Call("open", {})>> \/ turn' = Rest
    BY DEF TellLate
  <2>2. turn'.steps = <<Call("open", {})>> => Opens' = {}
    BY MembersFew, SilentDeliver DEF Opens
  <2>3. QED
    BY <2>1, <2>2, DoingOpens, MembersFew DEF Opens
<1>5. /\ consumer'[job.c].s = job.s
      /\ consumer'[job.c].epoch = IF OpenIsNews(job.c, job.s, job.epoch) THEN job.epoch
                                  ELSE consumer[job.c].epoch
      /\ \A d \in Consumers \ {job.c} : consumer'[d] = consumer[d]
  <2>1. CASE OpenIsNews(job.c, job.s, job.epoch)
    <3>1. consumer' = [consumer EXCEPT ![job.c] = [consumer[job.c] EXCEPT !.epoch = job.epoch]]
      BY <2>1 DEF TellLate
    <3>2. QED
      BY <1>1, <1>3, <2>1, <3>1 DEF Closures
  <2>2. CASE ~OpenIsNews(job.c, job.s, job.epoch)
    BY <1>3, <2>2 DEF TellLate
  <2>3. QED
    BY <2>1, <2>2
<1>6. consumer'[job.c].epoch <= shared[job.s].subEpoch
  BY <1>1, <1>3, <1>5 DEF EpochsInv
<1>7. EpochsInv'
  <2>1. ASSUME NEW d \in Consumers, NEW t \in Shareds, consumer'[d].s = t
        PROVE  consumer'[d].epoch <= shared'[t].subEpoch
    <3>1. CASE d = job.c
      BY <1>1, <1>5, <1>6, <2>1, <3>1
    <3>2. CASE d # job.c
      BY <1>1, <1>5, <2>1, <3>2 DEF EpochsInv
    <3>3. QED
      BY <3>1, <3>2
  <2>2. \A d \in Consumers : consumer'[d].s = NoShared => consumer'[d].epoch = -1
    <3>1. job.s # NoShared
      BY <1>3, RealtimeAssumption
    <3>2. QED
      BY <1>1, <1>5, <3>1 DEF EpochsInv
  <2>3. \A x \in Lates' : consumer'[x.c].s = x.s /\ x.epoch <= shared'[x.s].subEpoch
    <3>1. \A x \in Lates : x.c \in Consumers
      BY <1>1, LateFields
    <3>2. \A d \in Consumers : consumer'[d].s = consumer[d].s
      BY <1>3, <1>5
    <3>3. QED
      BY <1>1, <1>2, <3>1, <3>2 DEF EpochsInv
  <2>4. QED
    BY <1>1, <1>4, <2>1, <2>2, <2>3 DEF EpochsInv
<1>8. ToldInv'
  <2> SUFFICES ASSUME NEW t \in Shareds, shared[t].sub = "subscribed", NEW d \in shared[t].handlers,
                      consumer'[d].epoch # shared[t].subEpoch
               PROVE  ToldSoon(d, t)'
    BY <1>1 DEF ToldInv
  <2>1. d \in Consumers /\ consumer[d].s = t /\ ~consumer[d].closed
    BY <1>1, SharedFields DEF Objects, HandlersInv
  <2>2. CASE d = job.c
    <3>1. t = job.s
      BY <1>3, <2>1, <2>2
    <3>2. /\ consumer[d].epoch \in Nat \cup {-1} /\ shared[t].subEpoch \in Nat
          /\ consumer[d].epoch <= shared[t].subEpoch
      BY <1>1, <2>1, SharedFields DEF Closures, Objects, EpochsInv
    <3>3. OpenIsNews(d, t, job.epoch) <=> consumer[d].epoch < job.epoch
      BY <2>1 DEF OpenIsNews
    <3>4. job.epoch # shared[t].subEpoch
      BY <1>3, <1>5, <2>2, <3>1, <3>2, <3>3
    <3>5. consumer[d].epoch # shared[t].subEpoch
      BY <1>3, <1>5, <2>2, <3>1, <3>2, <3>3
    <3>6. ToldSoon(d, t)
      BY <1>1, <3>5 DEF ToldInv
    <3>7. PICK x \in Lates : x.c = d /\ x.s = t /\ x.epoch = shared[t].subEpoch
      BY <1>4, <3>6 DEF ToldSoon
    <3>8. x \in Lates'
      BY <1>2, <3>4, <3>7
    <3>9. QED
      BY <1>1, <3>7, <3>8 DEF ToldSoon
  <2>3. CASE d # job.c
    <3>1. ToldSoon(d, t)
      BY <1>1, <1>5, <2>1, <2>3 DEF ToldInv
    <3>2. PICK x \in Lates : x.c = d /\ x.s = t /\ x.epoch = shared[t].subEpoch
      BY <1>4, <3>1 DEF ToldSoon
    <3>3. x \in Lates'
      BY <1>2, <2>3, <3>2
    <3>4. QED
      BY <1>1, <3>2, <3>3 DEF ToldSoon
  <2>4. QED
    BY <2>2, <2>3
<1>9. QED
  BY <1>7, <1>8 DEF NewsInv

LEMMA NewsMicrotask ==
    ASSUME NewsInv, CallsInv', RunMicrotask
    PROVE  NewsInv'
<1>1. PICK job : job = Head(micro)
  OBVIOUS
<1>2. /\ AttachInv /\ TypeOK /\ EpochsInv /\ shared \in [Shareds -> Objects] /\ job \in Jobs
      /\ turn.steps = <<>> /\ micro # <<>> /\ micro' = Tail(micro) /\ loader' = loader
      /\ \/ AttachWhenLoaded(job) \/ TellLate(job) \/ TeardownDue(job)
         \/ Report(job) \/ StopClient(job) \/ StopSubscription(job)
  BY <1>1, TailTypes DEF NewsInv, CallsInv, AttachInv, TypeOK, RunMicrotask
<1>3. Opens = {} /\ (~IsLateJob(job) => Lates' = Lates)
  BY <1>1, <1>2, LatesRun, MembersFew DEF Opens
<1>4. ASSUME ~IsLateJob(job), UNCHANGED consumer, Opens' = {},
             \A s \in Shareds : Follows(shared[s], shared'[s])
      PROVE  NewsInv'
  BY <1>3, <1>4, KeptNews
<1>5. CASE AttachWhenLoaded(job)
  <2>1. ~IsLateJob(job) /\ job.s \in Shareds /\ job \in [do : {"attach"}, s : Shareds, epoch : Nat, ok : BOOLEAN]
    BY <1>2, <1>5 DEF AttachWhenLoaded, Jobs, Refusals, IsLateJob
  <2>2. UNCHANGED consumer /\ Opens' = {}
    BY <1>5, DoingOpens, SilentDeliver DEF AttachWhenLoaded, Untouched
  <2>3. CASE UNCHANGED shared
    BY <1>4, <2>1, <2>2, <2>3, SameFollows
  <2>4. CASE AttachNow(shared, job.s, clients) /\ shared[job.s].epoch = job.epoch
    <3>1. job.epoch # 0
      <4>1. 1 \in DOMAIN micro /\ micro[1] = job
        BY <1>1, <1>2 DEF TypeOK
      <4>2. QED
        BY <1>2, <1>5, <4>1 DEF AttachInv, EntriesInv, IsEntry, Begun, AttachWhenLoaded
    <3>2. PICK n : shared' = [shared EXCEPT ![job.s] = [shared[job.s] EXCEPT !.sub = "subscribing", !.client = n]]
      BY <2>4 DEF AttachNow
    <3>3. shared[job.s] \in Objects
      BY <1>2, <2>1
    <3>4. /\ shared'[job.s].sub = "subscribing" /\ shared'[job.s].epoch = shared[job.s].epoch
          /\ shared'[job.s].subEpoch = shared[job.s].subEpoch
          /\ shared'[job.s].handlers = shared[job.s].handlers
          /\ \A t \in Shareds \ {job.s} : shared'[t] = shared[t]
      BY <1>2, <2>1, <3>2, <3>3 DEF Objects
    <3>5. Follows(shared[job.s], shared'[job.s])
      BY <2>4, <3>1, <3>4 DEF Follows
    <3>6. QED
      BY <1>4, <2>1, <2>2, <3>4, <3>5, SameFollows
  <2>5. QED
    BY <1>5, <2>3, <2>4 DEF AttachWhenLoaded, IsAwaited, Untouched
<1>6. CASE TeardownDue(job)
  <2>1. ~IsLateJob(job) /\ UNCHANGED consumer /\ Opens' = {}
    BY <1>6, DoingOpens DEF TeardownDue, Untouched, IsLateJob
  <2>2. UNCHANGED shared \/ \E kinds : Retire(kinds, TornDown(shared, {job.s}))
    BY <1>6 DEF TeardownDue, Untouched
  <2>3. \A s \in Shareds : Follows(shared[s], shared'[s])
    <3>1. CASE UNCHANGED shared
      BY <3>1, SameFollows
    <3>2. CASE \E kinds : Retire(kinds, TornDown(shared, {job.s}))
      BY <1>2, <3>2, TornDownFollows, RetireFollows
    <3>3. QED
      BY <2>2, <3>1, <3>2
  <2>4. QED
    BY <1>4, <2>1, <2>3
<1>7. CASE Report(job) \/ StopClient(job)
  <2>1. ~IsLateJob(job) /\ UNCHANGED <<consumer, shared>>
    BY <1>7 DEF Report, StopClient, Untouched, IsLateJob
  <2>2. turn'.steps = <<Call("error", {})>> \/ turn' = Rest
    BY <1>7 DEF Report, StopClient
  <2>3. Opens' = {}
    <3>1. turn'.steps = <<Call("error", {})>> => Opens' = {}
      BY MembersFew, SilentDeliver DEF Opens
    <3>2. QED
      BY <2>2, <3>1, DoingOpens
  <2>4. QED
    BY <1>4, <2>1, <2>3, SameFollows
<1>8. CASE StopSubscription(job)
  <2>1. ~IsLateJob(job) /\ UNCHANGED consumer /\ job.s \in Shareds
    BY <1>2, <1>8 DEF StopSubscription, IsLateJob, Jobs, Refusals
  <2>2. Opens' = {}
    BY <1>8, DoingOpens, SilentDeliver DEF StopSubscription
  <2>3. \/ UNCHANGED shared
        \/ shared' = [shared EXCEPT ![job.s] = [shared[job.s] EXCEPT !.sub = "unsubscribed"]]
           /\ shared[job.s].sub = "subscribing"
    BY <1>8 DEF StopSubscription
  <2>4. CASE UNCHANGED shared
    BY <1>4, <2>1, <2>2, <2>4, SameFollows
  <2>5. CASE shared' = [shared EXCEPT ![job.s] = [shared[job.s] EXCEPT !.sub = "unsubscribed"]]
             /\ shared[job.s].sub = "subscribing"
    <3>1. shared[job.s] \in Objects
      BY <1>2, <2>1
    <3>2. /\ shared'[job.s].sub = "unsubscribed" /\ shared'[job.s].epoch = shared[job.s].epoch
          /\ shared'[job.s].subEpoch = shared[job.s].subEpoch
          /\ shared'[job.s].handlers = shared[job.s].handlers
          /\ \A t \in Shareds \ {job.s} : shared'[t] = shared[t]
      BY <1>2, <2>1, <2>5, <3>1 DEF Objects
    <3>3. shared[job.s].epoch # 0
      BY <1>2, <2>1, <2>5 DEF EpochsInv
    <3>4. QED
      BY <1>4, <2>1, <2>2, <3>2, <3>3, SameFollows DEF Follows
  <2>6. QED
    BY <2>3, <2>4, <2>5
<1>9. CASE TellLate(job)
  BY <1>1, <1>2, <1>9, NewsTellLate
<1>10. QED
  BY <1>2, <1>5, <1>6, <1>7, <1>8, <1>9

LEMMA HeldNews ==
    ASSUME NewsInv, CallsInv', NEW c \in Consumers, NEW s \in Shareds, Holds(c, s), UNCHANGED turn,
           consumer[c].s = NoShared,
           \A t \in Shareds \ {s} : shared'[t] = shared[t],
           shared'[s].subEpoch = shared[s].subEpoch,
           shared'[s].handlers \subseteq shared[s].handlers \cup {c},
           shared'[s].epoch = 0 => shared'[s].sub = "none" /\ shared'[s].subEpoch = 0,
           Lates \subseteq Lates',
           \A job \in Lates' \ Lates : job.c = c /\ job.s = s /\ job.epoch = shared[s].subEpoch,
           shared'[s].sub = "subscribed" =>
              /\ shared[s].sub = "subscribed"
              /\ \E job \in Lates' : job.c = c /\ job.s = s /\ job.epoch = shared[s].subEpoch
    PROVE  NewsInv'
<1>1. /\ TypeOK /\ EpochsInv /\ ToldInv /\ HandlersInv /\ NoShared \notin Shareds
      /\ consumer \in [Consumers -> Closures] /\ consumer[c] \in Closures
      /\ shared[s].subEpoch \in Nat
  BY SharedFields, RealtimeAssumption DEF NewsInv, CallsInv, AttachInv, TypeOK, Objects
<1>2. /\ consumer'[c].s = s /\ consumer'[c].epoch = consumer[c].epoch
      /\ \A d \in Consumers \ {c} : consumer'[d] = consumer[d]
  BY <1>1 DEF Holds, Closures
<1>3. consumer[c].epoch = -1
  BY <1>1 DEF EpochsInv
<1>4. Opens' = Opens /\ \A t \in Shareds : shared'[t].subEpoch = shared[t].subEpoch
  BY DEF Opens
<1>5. EpochsInv'
  <2>1. ASSUME NEW d \in Consumers, NEW t \in Shareds, consumer'[d].s = t
        PROVE  consumer'[d].epoch <= shared'[t].subEpoch
    <3>1. CASE d = c
      <4>1. t = s
        BY <1>2, <2>1, <3>1
      <4>2. QED
        BY <1>1, <1>2, <1>3, <3>1, <4>1
    <3>2. CASE d # c
      BY <1>1, <1>2, <1>4, <2>1, <3>2 DEF EpochsInv
    <3>3. QED
      BY <3>1, <3>2
  <2>2. \A d \in Consumers : consumer'[d].s = NoShared => consumer'[d].epoch = -1
    BY <1>1, <1>2 DEF EpochsInv
  <2>3. ASSUME NEW job \in Lates'
        PROVE  consumer'[job.c].s = job.s /\ job.epoch <= shared'[job.s].subEpoch
    <3>1. CASE job \in Lates
      <4>1. job.c \in Consumers /\ job.s \in Shareds /\ consumer[job.c].s = job.s
            /\ job.epoch <= shared[job.s].subEpoch
        BY <1>1, <3>1, LateFields DEF EpochsInv
      <4>2. job.c # c
        BY <1>1, <4>1
      <4>3. QED
        BY <1>2, <1>4, <4>1, <4>2
    <3>2. CASE job \notin Lates
      <4>1. job.c = c /\ job.s = s /\ job.epoch = shared[s].subEpoch
        BY <2>3, <3>2
      <4>2. QED
        BY <1>1, <1>2, <4>1
    <3>3. QED
      BY <3>1, <3>2
  <2>4. \A step \in Opens' : step.epoch <= shared'[step.s].subEpoch
    <3>1. \A step \in Opens : step.s \in Shareds
      BY <1>1, OpenFields
    <3>2. QED
      BY <1>1, <1>4, <3>1 DEF EpochsInv
  <2>5. \A t \in Shareds : shared'[t].epoch = 0 => shared'[t].sub = "none" /\ shared'[t].subEpoch = 0
    BY <1>1 DEF EpochsInv
  <2>6. QED
    BY <2>1, <2>2, <2>3, <2>4, <2>5 DEF EpochsInv
<1>6. ToldInv'
  <2> SUFFICES ASSUME NEW t \in Shareds, shared'[t].sub = "subscribed", NEW d \in shared'[t].handlers
               PROVE  consumer'[d].epoch = shared'[t].subEpoch \/ ToldSoon(d, t)'
    BY DEF ToldInv
  <2>1. ASSUME d \in shared[t].handlers, shared[t].sub = "subscribed"
        PROVE  consumer'[d].epoch = shared'[t].subEpoch \/ ToldSoon(d, t)'
    <3>1. d \in Consumers /\ consumer[d].s = t
      BY <1>1, <2>1, SharedFields DEF Objects, HandlersInv
    <3>2. consumer'[d].epoch = consumer[d].epoch
      BY <1>2, <3>1
    <3>3. ToldSoon(d, t) => ToldSoon(d, t)'
      BY <1>4 DEF ToldSoon
    <3>4. QED
      BY <1>1, <1>4, <2>1, <3>2, <3>3 DEF ToldInv
  <2>2. CASE t # s
    BY <2>1, <2>2
  <2>3. CASE t = s /\ d = c
    BY <1>4, <2>3 DEF ToldSoon
  <2>4. CASE t = s /\ d # c
    BY <2>1, <2>4
  <2>5. QED
    BY <2>2, <2>3, <2>4
<1>7. QED
  BY <1>5, <1>6 DEF NewsInv

LEMMA ShareNews ==
    ASSUME NewsInv, CallsInv', NEW c \in Consumers, NEW s \in Shareds, NEW sh \in {shared, Resumed(s)},
           Share(c, s, sh), Holds(c, s), UNCHANGED turn, consumer[c].s = NoShared
    PROVE  NewsInv'
<1>1. /\ TypeOK /\ EpochsInv /\ shared \in [Shareds -> Objects] /\ shared[s] \in Objects
      /\ shared[s].subEpoch \in Nat /\ micro \in Seq(Jobs)
  BY SharedFields DEF NewsInv, CallsInv, AttachInv, TypeOK, Objects
<1>2. /\ \A t \in Shareds \ {s} : shared'[t] = shared[t]
      /\ shared'[s].epoch = shared[s].epoch
      /\ shared'[s].handlers \subseteq shared[s].handlers \cup {c}
  BY <1>1, ShareEffect, ShareHandlers
<1>3. /\ sh \in [Shareds -> Objects] /\ sh[s] \in Objects /\ sh[s].subEpoch = shared[s].subEpoch
      /\ sh[s].sub = "subscribed" => shared[s].sub = "subscribed"
      /\ shared[s].sub = "none" => sh[s].sub = "none"
  <2>1. CASE sh = shared
    BY <1>1, <2>1
  <2>2. CASE sh = Resumed(s)
    <3>1. sh = [shared EXCEPT ![s] = [shared[s] EXCEPT
                  !.sub = IF shared[s].sub = "unsubscribed" THEN "subscribing" ELSE shared[s].sub]]
      BY <2>2 DEF Resumed
    <3>2. sh[s] = [shared[s] EXCEPT
                  !.sub = IF shared[s].sub = "unsubscribed" THEN "subscribing" ELSE shared[s].sub]
          /\ sh[s] \in Objects /\ sh \in [Shareds -> Objects]
      <4>1. sh \in [Shareds -> Objects]
        BY <1>1, <2>2, SharedTypes DEF Resumed
      <4>2. QED
        BY <1>1, <3>1, <4>1
    <3>3. QED
      BY <1>1, <3>2 DEF Objects
  <2>3. QED
    BY <2>1, <2>2
<1>4. PICK j : j = Joined(sh, s, c)
  OBVIOUS
<1>5. /\ j \in [Shareds -> Objects] /\ j[s] \in Objects
      /\ j[s].subEpoch = sh[s].subEpoch /\ j[s].sub = sh[s].sub
  <2>1. j \in [Shareds -> Objects]
    BY <1>3, <1>4, SharedTypes
  <2>2. QED
    BY <1>3, <1>4, <2>1 DEF Joined, Objects
<1>6. shared'[s] = j[s] \/ (j[s].sub = "unsubscribed" /\ shared'[s] = [j[s] EXCEPT !.sub = "subscribing"])
  <2>1. shared' = IF Kind(s) = "private" /\ auth /\ j[s].sub = "unsubscribed"
                  THEN [j EXCEPT ![s] = [j[s] EXCEPT !.sub = "subscribing"]] ELSE j
    BY <1>4 DEF Share, Restarted
  <2>2. QED
    BY <1>5, <2>1
<1>7. /\ shared'[s].subEpoch = shared[s].subEpoch
      /\ shared'[s].sub = "subscribed" => shared[s].sub = "subscribed"
      /\ shared[s].sub = "none" => shared'[s].sub = "none"
  BY <1>3, <1>5, <1>6 DEF Objects
<1>8. PICK job : job = [do |-> "late", c |-> c, s |-> s, epoch |-> shared[s].subEpoch]
  OBVIOUS
<1>9. job \in Jobs /\ IsLateJob(job) /\ job.c = c /\ job.s = s /\ job.epoch = shared[s].subEpoch
  BY <1>1, <1>8 DEF Jobs, IsLateJob
<1>10. IF shared[s].sub = "subscribed" THEN Lates' = Lates \cup {job} ELSE Lates' = Lates
  <2>1. CASE shared[s].sub = "subscribed"
    <3>1. micro' = Append(micro, job)
      BY <1>8, <2>1 DEF Share, IsLate, Later
    <3>2. Members(micro)' = Members(micro) \cup {job}
      BY <1>1, <1>9, <3>1, MembersAppend
    <3>3. QED
      BY <1>9, <2>1, <3>2 DEF Lates
  <2>2. CASE shared[s].sub # "subscribed"
    BY <2>2 DEF Share, IsLate, Lates
  <2>3. QED
    BY <2>1, <2>2
<1>11. shared'[s].epoch = 0 => shared'[s].sub = "none" /\ shared'[s].subEpoch = 0
  BY <1>1, <1>2, <1>7 DEF EpochsInv
<1>12. QED
  BY <1>2, <1>7, <1>9, <1>10, <1>11, HeldNews

LEMMA AttachNews ==
    ASSUME NewsInv, CallsInv', NEW c \in Consumers, NEW s \in Shareds, NEW sh \in [Shareds -> Objects],
           Attach(c, s, sh), Holds(c, s), UNCHANGED turn, consumer[c].s = NoShared,
           \A t \in Shareds \ {s} : sh[t] = shared[t], sh[s].handlers \subseteq shared[s].handlers,
           sh[s].sub = "none", sh[s].subEpoch = shared[s].subEpoch
    PROVE  NewsInv'
<1>1. TypeOK
  BY DEF NewsInv, CallsInv, AttachInv
<1>2. /\ \A t \in Shareds \ {s} : shared'[t] = shared[t]
      /\ shared'[s].handlers \subseteq shared[s].handlers \cup {c}
  BY <1>1, AttachHandlers
<1>3. PICK j : j = [sh EXCEPT ![s].epoch = @ + 1, ![s].consumers = @ + 1, ![s].handlers = @ \cup {c}]
  OBVIOUS
<1>4. /\ j \in [Shareds -> Objects] /\ j[s] \in Objects /\ sh[s] \in Objects /\ sh[s].epoch \in Nat
      /\ j[s].epoch = sh[s].epoch + 1 /\ j[s].subEpoch = shared[s].subEpoch /\ j[s].sub = "none"
  <2>1. j \in [Shareds -> Objects] /\ sh[s] \in Objects
    BY <1>3, SharedTypes
  <2>2. QED
    BY <1>3, <2>1 DEF Objects
<1>5. shared' = j \/ \E n : shared' = [j EXCEPT ![s] = [j[s] EXCEPT !.sub = "subscribing", !.client = n]]
  <2>1. shared' = j \/ \E cl : AttachNow(j, s, cl)
    BY <1>3 DEF Attach
  <2>2. QED
    BY <2>1 DEF AttachNow
<1>6. /\ shared'[s].subEpoch = shared[s].subEpoch /\ shared'[s].sub # "subscribed"
      /\ shared'[s].epoch # 0
  <2>1. shared'[s] = j[s] \/ \E n : shared'[s] = [j[s] EXCEPT !.sub = "subscribing", !.client = n]
    BY <1>4, <1>5
  <2>2. j[s].epoch # 0
    BY <1>4
  <2>3. QED
    BY <1>4, <2>1, <2>2 DEF Objects
<1>7. Lates' = Lates
  BY DEF Attach, Lates
<1>8. QED
  BY <1>2, <1>6, <1>7, HeldNews

LEMMA NewsSubscribe ==
    ASSUME NewsInv, CallsInv', NEW c \in Consumers, NEW ch \in Channels, Subscribe(c, ch)
    PROVE  NewsInv'
<1>1. /\ TypeOK /\ EpochsInv /\ NoShared \notin Shareds /\ shared \in [Shareds -> Objects]
      /\ sharedSubs \in [Channels -> Shareds \cup {NoShared}]
      /\ pendingTeardowns \in [Channels -> Shareds \cup {NoShared}]
      /\ consumer \in [Consumers -> Closures] /\ consumer[c] \in Closures
      /\ consumer[c].s = NoShared /\ UNCHANGED turn
  BY RealtimeAssumption DEF NewsInv, CallsInv, AttachInv, TypeOK, Subscribe
<1>2. CASE Refuse(c)
  <2>1. consumer' = [consumer EXCEPT ![c] = [consumer[c] EXCEPT !.closed = TRUE]] /\ UNCHANGED shared
    BY <1>2 DEF Refuse
  <2>2. \A d \in Consumers : consumer'[d].s = consumer[d].s /\ consumer'[d].epoch = consumer[d].epoch
    BY <1>1, <2>1 DEF Closures
  <2>3. PICK job : job = [do |-> "report", c |-> c]
    OBVIOUS
  <2>4. job \in Jobs /\ ~IsLateJob(job) /\ micro' = Append(micro, job)
    BY <1>2, <2>3 DEF Refuse, Later, Jobs, IsLateJob
  <2>5. Lates' = Lates /\ Opens' = Opens
    BY <1>1, <2>4, LatesAppended DEF Opens
  <2>6. QED
    BY <2>1, <2>2, <2>5, KeptNews, SameFollows
<1>3. CASE SubscribeExisting(c, ch)
  <2>1. sharedSubs[ch] \in Shareds /\ Share(c, sharedSubs[ch], shared) /\ Holds(c, sharedSubs[ch])
    BY <1>1, <1>3 DEF SubscribeExisting
  <2>2. QED
    BY <1>1, <2>1, ShareNews
<1>4. CASE Revive(c, ch)
  <2>1. PICK s \in Shareds : s = pendingTeardowns[ch]
    BY <1>1, <1>4 DEF Revive
  <2>2. \/ Share(c, s, Resumed(s)) /\ Holds(c, s)
        \/ Refuse(c)
        \/ shared[s].sub = "none" /\ Attach(c, s, shared) /\ Holds(c, s)
    BY <1>4, <2>1 DEF Revive
  <2>3. CASE Share(c, s, Resumed(s)) /\ Holds(c, s)
    BY <1>1, <2>3, ShareNews
  <2>4. CASE shared[s].sub = "none" /\ Attach(c, s, shared) /\ Holds(c, s)
    BY <1>1, <2>4, AttachNews
  <2>5. QED
    BY <1>2, <2>2, <2>3, <2>4
<1>5. CASE SubscribeNew(c, ch) /\ ~Refuse(c)
  <2>1. PICK s \in Shareds : /\ shared[s].epoch = 0
                             /\ Attach(c, s, [shared EXCEPT ![s] = NewShared(ch)]) /\ Holds(c, s)
    BY <1>5 DEF SubscribeNew
  <2>2. PICK sh : sh = [shared EXCEPT ![s] = NewShared(ch)]
    OBVIOUS
  <2>3. /\ sh \in [Shareds -> Objects] /\ sh[s].handlers = {} /\ sh[s].sub = "none" /\ sh[s].subEpoch = 0
        /\ \A t \in Shareds \ {s} : sh[t] = shared[t]
    BY <1>1, <2>2, NewSharedTypes DEF NewShared
  <2>4. shared[s].subEpoch = 0
    BY <1>1, <2>1 DEF EpochsInv
  <2>5. QED
    BY <1>1, <2>1, <2>2, <2>3, <2>4, AttachNews
<1>6. QED
  BY <1>2, <1>3, <1>4, <1>5 DEF Subscribe

LEMMA StepNews == NewsInv /\ [Next]_vars => NewsInv'
<1> SUFFICES ASSUME NewsInv, [Next]_vars PROVE NewsInv'
  OBVIOUS
<1>1. CallsInv'
  BY StepCalls DEF NewsInv
<1>2. CASE Next
  BY <1>1, <1>2, NewsDispose, NewsSubscribe, NewsDisconnect, NewsProceed, NewsMicrotask, NewsEvents
     DEF Next, App
<1>3. CASE UNCHANGED vars
  <2>1. UNCHANGED <<shared, consumer, micro, turn>>
    BY <1>3 DEF vars
  <2>2. Lates' = Lates /\ Opens' = Opens
    BY <2>1 DEF Lates, Opens
  <2>3. QED
    BY <1>1, <2>1, <2>2, KeptNews, SameFollows
<1>4. QED
  BY <1>2, <1>3

\* Between the tasks of the event loop everyone on a subscribed channel has been told of
\* the subscription there is now (subscriptionEpoch and lastSubscribedEpoch of subscribe()): who was there,
\* who joined late or inside a callback, and whoever was left out of a loop by either.
THEOREM EveryoneOpenHolds == Spec => []EveryoneOpen
<1>1. NewsInv => EveryoneOpen
  <2> SUFFICES ASSUME NewsInv, Idle, NEW s \in Tracked(sharedSubs), shared[s].sub = "subscribed",
                      NEW c \in shared[s].handlers
               PROVE  consumer[c].epoch = shared[s].subEpoch
    BY DEF EveryoneOpen
  <2>1. s \in Shareds
    BY DEF NewsInv, CallsInv, AttachInv, TypeOK, Tracked
  <2>2. ~ToldSoon(c, s)
    BY IdleQuiet DEF ToldSoon
  <2>3. QED
    BY <2>1, <2>2 DEF NewsInv, ToldInv
<1>2. QED
  BY InitNews, StepNews, <1>1, PTL DEF Spec

-----------------------------------------------------------------------------
(* What tables, clients and microtasks owe one another.                    *)

InTable(s) == s \in Tracked(sharedSubs) \cup Tracked(pendingTeardowns)

LEMMA TableFields ==
    ASSUME TypeOK, TablesInv, NEW s \in Shareds
    PROVE  /\ InTable(s) <=> shared[s].channel \in Channels /\ Tabled(s)
           /\ s \in Tracked(sharedSubs) <=> shared[s].channel \in Channels /\ IsTracked(s)
           /\ InTable(s) => shared[s].epoch > 0
<1>1. NoShared \notin Shareds
  BY RealtimeAssumption
<1>2. s \in Tracked(sharedSubs) <=> shared[s].channel \in Channels /\ IsTracked(s)
  BY <1>1 DEF TablesInv, Tracked, IsTracked
<1>3. s \in Tracked(pendingTeardowns) <=> shared[s].channel \in Channels /\ pendingTeardowns[shared[s].channel] = s
  BY <1>1 DEF TablesInv, Tracked
<1>4. InTable(s) => shared[s].epoch > 0
  BY <1>1 DEF TablesInv, Tracked, InTable
<1>5. QED
  BY <1>2, <1>3, <1>4 DEF InTable, IsTracked, Tabled

\* A subscription in a table is on the current client of its kind, and a connection
\* that is open is a current one.
LinksInv ==
    /\ \A s \in Shareds : shared[s].sub = "none" => shared[s].client = 0
    /\ \A s \in Shareds : shared[s].sub # "none" => clients[shared[s].client].kind = Kind(s)
    /\ \A s \in Shareds : InTable(s) /\ shared[s].sub # "none" => shared[s].client = client[Kind(s)]
    /\ \A k \in Kinds : client[k] # 0 => clients[client[k]].kind = k
    /\ \A n \in DOMAIN clients : clients[n].state # "disconnected" => client[clients[n].kind] = n

\* Its handlers are those of all who hold it.
HoldersInv == \A s \in Shareds : InTable(s) => Holding(s) \subseteq shared[s].handlers

\* Each teardown has its microtask, and who awaits Centrifuge has it loading.
Teardown(s)  == [do |-> "teardown", s |-> s]
TeardownsInv == \A s \in Tracked(pendingTeardowns) : Teardown(s) \in Members(micro)
LoadInv      == loader.waiting # <<>> => loader.state = "loading"

\* Private channels that a sign-out has left unattached; nothing attaches them until
\* there is authentication again.
Barred(s) == Kind(s) = "private" /\ ~auth /\ authChanges > 0
GuestsInv == ~auth /\ authChanges = 0 => \A s \in Shareds : InTable(s) => Kind(s) = "public"

\* With one change of authentication at most, a channel in use is attached or will
\* be, and is in use by somebody, unless it is barred.
DueInv == authChanges <= 1 =>
    \A s \in Tracked(sharedSubs) :
        /\ AttachmentDue(s) \/ Barred(s)
        /\ shared[s].handlers # {} \/ (shared[s].sub = "none" /\ Barred(s))

ServedInv == /\ CallsInv /\ LinksInv /\ HoldersInv /\ TeardownsInv /\ LoadInv
             /\ GuestsInv /\ DueInv

LEMMA InitServed == Init => ServedInv
<1> SUFFICES ASSUME Init PROVE ServedInv
  OBVIOUS
<1>1. /\ shared = [s \in Shareds |-> NewShared(NoChannel)]
      /\ client = [k \in Kinds |-> 0] /\ clients = <<>> /\ loader.waiting = <<>>
      /\ sharedSubs = [ch \in Channels |-> NoShared] /\ pendingTeardowns = [ch \in Channels |-> NoShared]
  BY DEF Init
<1>2. Tracked(sharedSubs) = {} /\ Tracked(pendingTeardowns) = {}
  BY <1>1 DEF Tracked
<1>3. LinksInv
  BY <1>1, <1>2 DEF LinksInv, InTable, NewShared
<1>4. HoldersInv /\ TeardownsInv /\ LoadInv /\ GuestsInv /\ DueInv
  BY <1>1, <1>2 DEF HoldersInv, TeardownsInv, LoadInv, GuestsInv, DueInv, InTable
<1>5. QED
  BY <1>3, <1>4, InitCalls DEF ServedInv

\* A client that is open after the step was so before, and is as current as it was.
Fade == \A n \in DOMAIN clients :
    /\ clients'[n].kind = clients[n].kind
    /\ clients'[n].state # "disconnected" =>
          /\ clients[n].state # "disconnected"
          /\ client'[clients[n].kind] = client[clients[n].kind]

\* A subscription that stays in its table stays on its client, with its handlers.
Stays(s) == /\ GoesOn(shared[s], shared'[s]) /\ shared'[s].handlers = shared[s].handlers
            /\ shared[s].sub # "none" => client'[Kind(s)] = client[Kind(s)]

\* Its attachment and its teardown stay among the microtasks.
IsDueJob(job, s) == IsEntry(job) /\ job.s = s /\ job.epoch = shared[s].epoch
JobsStay == /\ \A s \in Tracked(sharedSubs) \cap Tracked(sharedSubs'), job \in Members(micro) :
                  IsDueJob(job, s) /\ shared[s].sub = "none" => job \in Members(micro')
            /\ \A s \in Tracked(pendingTeardowns') : Teardown(s) \in Members(micro) =>
                                                        Teardown(s) \in Members(micro')

LEMMA DueJobs ==
    ASSUME NEW s
    PROVE  AttachmentDue(s) <=> \/ shared[s].sub # "none"
                                \/ [s |-> s, epoch |-> shared[s].epoch] \in Members(loader.waiting)
                                \/ \E job \in Members(micro) : IsDueJob(job, s)
  BY DEF AttachmentDue, Members, IsDueJob, IsEntry

LEMMA CalmServed ==
    ASSUME ServedInv, CallsInv', Calm, Fade, JobsStay, UNCHANGED <<auth, authChanges>>,
           \A s \in Shareds : shared'[s].sub = "none" => shared'[s].client = 0,
           \A s \in Shareds : InTable(s)' => Stays(s)
    PROVE  ServedInv'
<1>1. /\ TypeOK /\ TypeOK' /\ ClientsInv /\ TablesInv /\ LinksInv /\ NoShared \notin Shareds
      /\ clients \in Seq(ClientRecords) /\ clients' \in Seq(ClientRecords)
      /\ DOMAIN clients = 1 .. Len(clients) /\ DOMAIN clients' = DOMAIN clients
  <2>1. TypeOK /\ TypeOK' /\ ClientsInv /\ TablesInv /\ LinksInv /\ NoShared \notin Shareds
    BY RealtimeAssumption DEF ServedInv, CallsInv, AttachInv
  <2>2. clients \in Seq(ClientRecords) /\ clients' \in Seq(ClientRecords)
    BY <2>1 DEF TypeOK, ClientRecords
  <2>3. Len(clients') = Len(clients)
    BY DEF Calm
  <2>4. QED
    BY <2>1, <2>2, <2>3
<1>2. /\ Tracked(sharedSubs') \subseteq Tracked(sharedSubs)
      /\ Tracked(pendingTeardowns') \subseteq Tracked(pendingTeardowns)
  BY <1>1 DEF Calm, Tracked
<1>3. \A s \in Shareds : InTable(s)' => InTable(s)
  BY <1>2 DEF InTable
<1>4. \A t : t \in Tracked(sharedSubs) \cup Tracked(pendingTeardowns) => t \in Shareds
  BY <1>1 DEF Tracked, TypeOK
<1>5. ASSUME NEW s \in Shareds, GoesOn(shared[s], shared'[s])
      PROVE  Kind(s)' = Kind(s) /\ Kind(s) \in Kinds
  BY <1>1, <1>5, SharedFields DEF GoesOn, Kind
<1>6. LinksInv'
  <2>1. ASSUME NEW s \in Shareds, shared'[s].sub # "none"
        PROVE  clients'[shared'[s].client].kind = Kind(s)'
    <3>1. GoesOn(shared[s], shared'[s])
      BY <2>1 DEF Calm, Ends
    <3>2. /\ shared[s].sub # "none" /\ shared'[s].client = shared[s].client
          /\ Kind(s)' = Kind(s)
      BY <2>1, <3>1, <1>5 DEF GoesOn
    <3>3. shared[s].client \in DOMAIN clients /\ clients[shared[s].client].kind = Kind(s)
      BY <1>1, <3>2, SharedFields DEF ClientsInv, LinksInv
    <3>4. QED
      BY <3>2, <3>3 DEF Fade
  <2>2. ASSUME NEW s \in Shareds, InTable(s)', shared'[s].sub # "none"
        PROVE  shared'[s].client = client'[Kind(s)']
    <3>1. Stays(s) /\ InTable(s)
      BY <1>3, <2>2
    <3>2. /\ shared[s].sub # "none" /\ shared'[s].client = shared[s].client
          /\ Kind(s)' = Kind(s)
      BY <2>2, <3>1, <1>5 DEF Stays, GoesOn
    <3>3. QED
      BY <1>1, <3>1, <3>2 DEF Stays, LinksInv
  <2>3. ASSUME NEW k \in Kinds, client'[k] # 0 PROVE clients'[client'[k]].kind = k
    <3>1. client'[k] = client[k] /\ client[k] # 0
      BY <2>3 DEF Calm
    <3>2. client[k] \in Nat /\ client[k] \in DOMAIN clients
      BY <1>1, <3>1 DEF ClientsInv, TypeOK
    <3>3. QED
      BY <1>1, <3>1, <3>2 DEF LinksInv, Fade
  <2>4. ASSUME NEW n \in DOMAIN clients', clients'[n].state # "disconnected"
        PROVE  client'[clients'[n].kind] = n
    BY <1>1, <2>4 DEF LinksInv, Fade
  <2>5. QED
    BY <2>1, <2>2, <2>3, <2>4 DEF LinksInv
<1>7. HoldersInv'
  <2>1. ASSUME NEW s \in Shareds, InTable(s)' PROVE Holding(s)' \subseteq shared'[s].handlers
    <3>1. Holding(s)' = Holding(s)
      BY DEF Calm, Holding
    <3>2. shared'[s].handlers = shared[s].handlers /\ InTable(s)
      BY <1>3, <2>1 DEF Stays
    <3>3. QED
      BY <3>1, <3>2 DEF ServedInv, HoldersInv
  <2>2. QED
    BY <2>1 DEF HoldersInv
<1>8. TeardownsInv'
  BY <1>2 DEF ServedInv, TeardownsInv, JobsStay, Teardown
<1>9. LoadInv'
  BY DEF Calm, ServedInv, LoadInv
<1>10. GuestsInv'
  <2>1. ASSUME NEW s \in Shareds, InTable(s)' PROVE InTable(s) /\ Kind(s)' = Kind(s)
    BY <1>3, <1>5, <2>1 DEF Stays
  <2>2. QED
    BY <2>1 DEF ServedInv, GuestsInv
<1>11. DueInv'
  <2> SUFFICES ASSUME authChanges' <= 1, NEW s \in Tracked(sharedSubs)'
               PROVE  /\ (AttachmentDue(s) \/ Barred(s))'
                      /\ (shared[s].handlers # {} \/ (shared[s].sub = "none" /\ Barred(s)))'
    BY DEF DueInv
  <2>1. s \in Tracked(sharedSubs) /\ s \in Shareds /\ InTable(s)'
    BY <1>2, <1>4 DEF InTable
  <2>2. Stays(s)
    BY <2>1
  <2>3. /\ GoesOn(shared[s], shared'[s]) /\ shared'[s].handlers = shared[s].handlers
        /\ Barred(s)' = Barred(s)
    BY <2>1, <2>2, <1>5 DEF Stays, Barred
  <2>4. AttachmentDue(s) => AttachmentDue(s)'
    <3>1. CASE shared[s].sub # "none"
      BY <2>3, <3>1, DueJobs DEF GoesOn, AttachmentDue
    <3>2. CASE [s |-> s, epoch |-> shared[s].epoch] \in Members(loader.waiting)
      <4>1. shared'[s].epoch = shared[s].epoch /\ loader' = loader
        BY <2>3 DEF GoesOn, Calm
      <4>2. QED
        BY <3>2, <4>1 DEF AttachmentDue, Members
    <3>3. ASSUME NEW job \in Members(micro), IsDueJob(job, s), shared[s].sub = "none"
          PROVE  AttachmentDue(s)'
      <4>1. job \in Members(micro')
        BY <2>1, <3>3 DEF JobsStay
      <4>2. shared'[s].epoch = shared[s].epoch
        BY <2>3 DEF GoesOn
      <4>3. QED
        BY <3>3, <4>1, <4>2 DEF AttachmentDue, Members, IsDueJob, IsEntry
    <3>4. QED
      BY <3>1, <3>2, <3>3, DueJobs
  <2>5. QED
    BY <2>1, <2>3, <2>4 DEF ServedInv, DueInv, GoesOn
<1>12. QED
  BY <1>6, <1>7, <1>8, <1>9, <1>10, <1>11 DEF ServedInv

LEMMA MembersStay ==
    ASSUME TypeOK, CalmMicro, NEW job \in Members(micro)
    PROVE  job \in Members(micro') \/ (micro # <<>> /\ micro' = Tail(micro) /\ job = Head(micro))
<1>1. micro \in Seq(Jobs)
  BY DEF TypeOK
<1>2. CASE micro # <<>> /\ micro' = Tail(micro)
  BY <1>1, <1>2, MembersTail
<1>3. CASE \E new \in Jobs : ~IsEntry(new) /\ micro' = Append(micro, new)
  BY <1>1, <1>3, MembersAppend
<1>4. QED
  BY <1>2, <1>3 DEF CalmMicro

\* Clients are disconnected that no subscription left in the tables is on.
LEMMA RetireServed ==
    ASSUME ServedInv, CallsInv', Calm, JobsStay, UNCHANGED <<auth, authChanges>>,
           NEW S \in SUBSET Shareds, NEW kinds, NEW sh \in [Shareds -> Objects], Retire(kinds, sh),
           \A s \in Shareds \ S : sh[s] = shared[s],
           \A s \in S : sh[s].sub = "none" => sh[s].client = 0,
           sharedSubs' = Without(sharedSubs, S), pendingTeardowns' = Without(pendingTeardowns, S),
           \A s \in Shareds \ S : InTable(s) /\ shared[s].sub # "none" => Kind(s) \notin kinds
    PROVE  ServedInv'
<1>1. /\ TypeOK /\ LinksInv /\ NoShared \notin Shareds /\ client \in [Kinds -> Nat]
      /\ clients \in Seq(ClientRecords)
      /\ \A s \in Shareds : GoesOn(sh[s], shared'[s])
      /\ \A k \in Kinds : client'[k] = IF k \in kinds THEN 0 ELSE client[k]
  BY RealtimeAssumption, RetireEffect DEF ServedInv, CallsInv, AttachInv, TypeOK, ClientRecords
<1>2. ASSUME NEW s \in Shareds PROVE shared'[s].handlers = sh[s].handlers
  <2>1. sh[s] \in Objects
    OBVIOUS
  <2>2. \/ shared'[s] = sh[s]
        \/ shared'[s] = [sh[s] EXCEPT !.sub = "subscribing"]
    BY DEF Retire, Offline
  <2>3. QED
    BY <2>1, <2>2 DEF Objects
<1>3. ASSUME NEW s \in Shareds, InTable(s)' PROVE s \notin S /\ InTable(s)
  BY <1>1, <1>3 DEF InTable, Tracked, Without, TypeOK
<1>4. ASSUME NEW s \in Shareds, InTable(s)' PROVE Stays(s)
  <2>1. s \notin S /\ InTable(s) /\ sh[s] = shared[s] /\ Kind(s) \in Kinds
    BY <1>1, <1>3, <1>4, SharedFields
  <2>2. shared[s].sub # "none" => client'[Kind(s)] = client[Kind(s)]
    BY <1>1, <2>1
  <2>3. QED
    BY <1>1, <1>2, <2>1, <2>2 DEF Stays
<1>5. \A s \in Shareds : shared'[s].sub = "none" => shared'[s].client = 0
  BY <1>1 DEF GoesOn, LinksInv
<1>6. Fade
  <2> SUFFICES ASSUME NEW n \in DOMAIN clients
               PROVE  /\ clients'[n].kind = clients[n].kind
                      /\ clients'[n].state # "disconnected" =>
                            /\ clients[n].state # "disconnected"
                            /\ client'[clients[n].kind] = client[clients[n].kind]
    BY DEF Fade
  <2>1. clients[n] \in ClientRecords /\ n \in Nat /\ n # 0
    BY <1>1
  <2>2. PICK dead : /\ dead = {client[k] : k \in kinds} \ {0}
                    /\ clients' = [m \in DOMAIN clients |->
                          IF m \in dead THEN [clients[m] EXCEPT !.state = "disconnected"] ELSE clients[m]]
    BY DEF Retire
  <2>3. CASE n \in dead
    <3>1. clients'[n] = [clients[n] EXCEPT !.state = "disconnected"]
      BY <2>2, <2>3
    <3>2. QED
      BY <2>1, <3>1 DEF ClientRecords
  <2>4. CASE n \notin dead
    <3>1. clients'[n] = clients[n]
      BY <2>2, <2>4
    <3>2. ASSUME clients[n].state # "disconnected"
          PROVE  client'[clients[n].kind] = client[clients[n].kind]
      <4>1. client[clients[n].kind] = n
        BY <1>1, <3>2 DEF LinksInv
      <4>2. clients[n].kind \notin kinds
        BY <2>1, <2>2, <2>4, <4>1
      <4>3. clients[n].kind \in Kinds
        BY <2>1 DEF ClientRecords
      <4>4. QED
        BY <1>1, <4>2, <4>3
    <3>3. QED
      BY <3>1, <3>2
  <2>5. QED
    BY <2>3, <2>4
<1>7. QED
  BY <1>4, <1>5, <1>6, CalmServed

LEMMA TornDownServed ==
    ASSUME TypeOK, LinksInv, NEW S
    PROVE  /\ TornDown(shared, S) \in [Shareds -> Objects]
           /\ \A s \in Shareds : IF s \in S THEN /\ TornDown(shared, S)[s].sub = "none"
                                                 /\ TornDown(shared, S)[s].client = 0
                                 ELSE TornDown(shared, S)[s] = shared[s]
<1>1. ASSUME NEW s \in Shareds
      PROVE  IF s \in S THEN TornDown(shared, S)[s].sub = "none" /\ TornDown(shared, S)[s].client = 0
             ELSE TornDown(shared, S)[s] = shared[s]
  <2>1. shared[s] \in Objects
    BY SharedFields
  <2>2. IF s \in S
        THEN TornDown(shared, S)[s] = [shared[s] EXCEPT !.sub = "none", !.client = 0, !.epoch = shared[s].epoch + 1]
        ELSE TornDown(shared, S)[s] = shared[s]
    BY DEF TornDown
  <2>3. QED
    BY <2>1, <2>2 DEF Objects
<1>2. QED
  BY <1>1, TornDownTypes DEF TypeOK

LEMMA ServedDisconnect ==
    ASSUME ServedInv, CallsInv', Disconnect \/ DisconnectPrivate
    PROVE  ServedInv'
<1>1. /\ TypeOK /\ LinksInv /\ shared \in [Shareds -> Objects] /\ UNCHANGED <<micro, auth, authChanges>>
  BY DEF ServedInv, CallsInv, AttachInv, TypeOK, Disconnect, DisconnectPrivate
<1>2. Calm /\ CalmMicro
  BY <1>1, CalmDisconnect
<1>3. JobsStay
  BY <1>1 DEF JobsStay
<1>4. CASE Disconnect
  <2>1. /\ Shareds \in SUBSET Shareds /\ \A s \in Shareds \ Shareds : FALSE
        /\ Retire(Kinds, shared) /\ sharedSubs' = Without(sharedSubs, Shareds)
        /\ pendingTeardowns' = Without(pendingTeardowns, Shareds)
    BY <1>4 DEF Disconnect
  <2>2. \A s \in Shareds : shared[s].sub = "none" => shared[s].client = 0
    BY <1>1 DEF LinksInv
  <2>3. QED
    BY <1>1, <1>2, <1>3, <2>1, <2>2, RetireServed
<1>5. CASE DisconnectPrivate
  <2>1. PICK S : /\ S = {s \in Tracked(sharedSubs) \cup Tracked(pendingTeardowns) : Kind(s) = "private"}
                 /\ sharedSubs' = Without(sharedSubs, S) /\ pendingTeardowns' = Without(pendingTeardowns, S)
                 /\ Retire({"private"}, TornDown(shared, S))
    BY <1>5 DEF DisconnectPrivate
  <2>2. S \in SUBSET Shareds
    BY <1>1, <2>1 DEF Tracked, TypeOK
  <2>3. \A s \in Shareds \ S : InTable(s) => Kind(s) \notin {"private"}
    BY <2>1 DEF InTable
  <2>4. PICK sh : sh = TornDown(shared, S)
    OBVIOUS
  <2>5. /\ sh \in [Shareds -> Objects] /\ Retire({"private"}, sh)
        /\ \A s \in Shareds \ S : sh[s] = shared[s]
        /\ \A s \in S : sh[s].sub = "none" => sh[s].client = 0
    BY <1>1, <2>1, <2>2, <2>4, TornDownServed
  <2>6. QED
    BY <1>1, <1>2, <1>3, <2>1, <2>2, <2>3, <2>5, RetireServed
<1>6. QED
  BY <1>4, <1>5

LEMMA ServedTerminate ==
    ASSUME ServedInv, CallsInv', NEW S \in SUBSET Shareds, NEW kinds, Terminate(S, kinds),
           UNCHANGED <<consumer, loader, micro, auth, authChanges>>,
           \A s \in Shareds \ S : InTable(s) /\ shared[s].sub # "none" => Kind(s) \notin kinds
    PROVE  ServedInv'
<1>1. TypeOK /\ LinksInv /\ shared \in [Shareds -> Objects]
  BY DEF ServedInv, CallsInv, AttachInv, TypeOK
<1>2. Calm
  BY <1>1, CalmTerminate
<1>3. JobsStay
  BY DEF JobsStay
<1>4. PICK sh : sh = [s \in Shareds |-> IF s \in S THEN [TornDown(shared, S)[s] EXCEPT !.handlers = {}]
                                        ELSE shared[s]]
  OBVIOUS
<1>5. ASSUME NEW s \in Shareds
      PROVE  sh[s] \in Objects /\ IF s \in S THEN sh[s].client = 0 ELSE sh[s] = shared[s]
  <2>1. TornDown(shared, S)[s] \in Objects /\ shared[s] \in Objects
        /\ (s \in S => TornDown(shared, S)[s].client = 0)
    BY <1>1, TornDownServed
  <2>2. PICK o : o = [TornDown(shared, S)[s] EXCEPT !.handlers = {}]
    OBVIOUS
  <2>3. o \in Objects /\ o.client = TornDown(shared, S)[s].client
    BY <2>1, <2>2 DEF Objects
  <2>4. sh[s] = IF s \in S THEN o ELSE shared[s]
    BY <1>4, <2>2
  <2>5. QED
    BY <2>1, <2>3, <2>4
<1>6. sh \in [Shareds -> Objects]
  BY <1>4, <1>5
<1>7. /\ Retire(kinds, sh) /\ sharedSubs' = Without(sharedSubs, S)
      /\ pendingTeardowns' = Without(pendingTeardowns, S)
  BY <1>4 DEF Terminate
<1>8. \A s \in S : sh[s].sub = "none" => sh[s].client = 0
  BY <1>5
<1>9. \A s \in Shareds \ S : sh[s] = shared[s]
  BY <1>5
<1>10. QED
  BY <1>2, <1>3, <1>6, <1>7, <1>8, <1>9, RetireServed

LEMMA ServedEnds ==
    ASSUME ServedInv, CallsInv', \/ \E n \in DOMAIN clients : ClientEnds(n)
                                 \/ \E s \in Shareds : ChannelEnds(s)
    PROVE  ServedInv'
<1>1. TypeOK /\ LinksInv
  BY DEF ServedInv, CallsInv, AttachInv
<1>2. ASSUME NEW n \in DOMAIN clients, ClientEnds(n) PROVE ServedInv'
  <2>1. PICK S : S = {s \in Tracked(sharedSubs) \cup Tracked(pendingTeardowns) : shared[s].client = n}
    OBVIOUS
  <2>2. /\ S \in SUBSET Shareds /\ Terminate(S, {clients[n].kind})
        /\ UNCHANGED <<consumer, loader, micro, auth, authChanges>> /\ client[clients[n].kind] = n
    BY <1>1, <1>2, <2>1 DEF ClientEnds, Tracked, TypeOK
  <2>3. \A s \in Shareds \ S : InTable(s) /\ shared[s].sub # "none" => Kind(s) \notin {clients[n].kind}
    BY <1>1, <2>1, <2>2 DEF LinksInv, InTable
  <2>4. QED
    BY <2>2, <2>3, ServedTerminate
<1>3. ASSUME NEW s \in Shareds, ChannelEnds(s) PROVE ServedInv'
  <2>1. /\ {s} \in SUBSET Shareds /\ Terminate({s}, IdleKinds({s}))
        /\ UNCHANGED <<consumer, loader, micro, auth, authChanges>>
    BY <1>3 DEF ChannelEnds
  <2>2. \A t \in Shareds \ {s} : InTable(t) => Kind(t) \notin IdleKinds({s})
    BY DEF IdleKinds, InTable
  <2>3. QED
    BY <2>1, <2>2, ServedTerminate
<1>4. QED
  BY <1>2, <1>3

LEMMA ServedTeardown ==
    ASSUME ServedInv, CallsInv', NEW job \in Jobs, job = Head(micro), micro # <<>>, micro' = Tail(micro),
           loader' = loader, UNCHANGED <<auth, authChanges>>, TeardownDue(job), IsDue(job.s)
    PROVE  ServedInv'
<1>1. /\ TypeOK /\ AttachInv /\ LinksInv /\ TablesInv /\ NoShared \notin Shareds
      /\ shared \in [Shareds -> Objects] /\ sharedSubs \in [Channels -> Shareds \cup {NoShared}]
  BY RealtimeAssumption DEF ServedInv, CallsInv, AttachInv, TypeOK
<1>2. PICK s \in Shareds : s = job.s
  BY DEF TeardownDue, Jobs, Refusals
<1>3. job.do = "teardown" /\ job = Teardown(s)
  BY <1>2 DEF TeardownDue, Jobs, Refusals, Teardown
<1>4. Calm /\ CalmMicro
  BY <1>1, CalmMicrotask
<1>5. PICK kinds : /\ kinds = IF (Tracked(sharedSubs) \cup Tracked(pendingTeardowns)) \ {s} = {}
                              THEN Kinds ELSE IdleKinds({s})
                   /\ pendingTeardowns' = Without(pendingTeardowns, {s})
                   /\ Retire(kinds, TornDown(shared, {s})) /\ sharedSubs' = sharedSubs
  BY <1>2 DEF TeardownDue
<1>6. sharedSubs' = Without(sharedSubs, {s})
  <2>1. pendingTeardowns[shared[s].channel] = s
    BY <1>2 DEF IsDue
  <2>2. \A ch \in Channels : sharedSubs[ch] # s
    BY <1>1, <2>1 DEF TablesInv
  <2>3. QED
    BY <1>1, <1>5, <2>2 DEF Without
<1>7. JobsStay
  <2>1. ASSUME NEW other \in Members(micro), other # job PROVE other \in Members(micro')
    BY <1>1, <1>4, <2>1, MembersStay
  <2>2. ASSUME NEW t \in Tracked(pendingTeardowns') PROVE t # s /\ Teardown(t) # Teardown(s)
    BY <1>1, <1>2, <1>5, <2>2 DEF Tracked, Without, Teardown
  <2>3. \A other, t : IsDueJob(other, t) => other # job
    BY <1>3 DEF IsDueJob, IsEntry
  <2>4. QED
    BY <1>3, <2>1, <2>2, <2>3 DEF JobsStay
<1>8. \A t \in Shareds \ {s} : InTable(t) => Kind(t) \notin kinds
  BY <1>5 DEF IdleKinds, InTable
<1>9. PICK S, sh : S = {s} /\ sh = TornDown(shared, S)
  OBVIOUS
<1>10. /\ S \in SUBSET Shareds /\ sh \in [Shareds -> Objects] /\ Retire(kinds, sh)
       /\ \A t \in Shareds \ S : sh[t] = shared[t]
       /\ \A t \in S : sh[t].sub = "none" => sh[t].client = 0
  BY <1>1, <1>5, <1>9, TornDownServed
<1>11. QED
  BY <1>4, <1>5, <1>6, <1>7, <1>8, <1>9, <1>10, RetireServed

-----------------------------------------------------------------------------
(* Steps that leave the clients and the subscriptions as they are.         *)

LEMMA GrowJobs ==
    ASSUME TypeOK, micro' = micro \/ \E job \in Jobs : micro' = Append(micro, job)
    PROVE  JobsStay
<1>1. Members(micro) \subseteq Members(micro')
  <2>1. micro \in Seq(Jobs)
    BY DEF TypeOK
  <2>2. ASSUME NEW job \in Jobs, micro' = Append(micro, job) PROVE Members(micro') = Members(micro) \cup {job}
    BY <2>1, <2>2, MembersAppend
  <2>3. QED
    BY <2>2
<1>2. QED
  BY <1>1 DEF JobsStay

LEMMA SameFade == UNCHANGED <<client, clients>> => Fade
  BY DEF Fade

LEMMA FadeOne ==
    ASSUME TypeOK, client' = client, NEW n \in DOMAIN clients, NEW state,
           clients' = [clients EXCEPT ![n].state = state],
           clients[n].state # "disconnected" \/ state = "disconnected"
    PROVE  Fade
<1>1. clients \in Seq(ClientRecords) /\ clients[n] \in ClientRecords
  <2>1. clients \in Seq(ClientRecords)
    BY DEF TypeOK, ClientRecords
  <2>2. QED
    BY <2>1
<1>2. /\ clients'[n] = [clients[n] EXCEPT !.state = state]
      /\ \A m \in DOMAIN clients \ {n} : clients'[m] = clients[m]
  BY <1>1
<1>3. clients'[n].kind = clients[n].kind /\ clients'[n].state = state
  BY <1>1, <1>2 DEF ClientRecords
<1>4. QED
  BY <1>2, <1>3 DEF Fade

LEMMA QuietServed ==
    ASSUME ServedInv, CallsInv', Calm, Fade, JobsStay, UNCHANGED <<client, auth, authChanges>>,
           \A s \in Shareds : /\ GoesOn(shared[s], shared'[s])
                              /\ shared'[s].handlers = shared[s].handlers
    PROVE  ServedInv'
<1>1. \A s \in Shareds : shared'[s].sub = "none" => shared'[s].client = 0
  BY DEF ServedInv, LinksInv, GoesOn
<1>2. \A s \in Shareds : Stays(s)
  BY DEF Stays
<1>3. QED
  BY <1>1, <1>2, CalmServed

LEMMA ServedProceed ==
    ASSUME ServedInv, CallsInv', Proceed
    PROVE  ServedInv'
<1>1. TypeOK /\ Calm /\ UNCHANGED <<client, clients, shared, auth, authChanges>>
  BY CalmProceed DEF ServedInv, CallsInv, AttachInv, Proceed
<1>2. JobsStay
  <2> DEFINE step == Head(turn.steps)
  <2>1. step \in Steps /\ (UNCHANGED micro \/ (step.do = "then" /\ Later(step.job)))
    BY <1>1, TurnsType DEF Proceed, CallLive, CallCollected, NextEnd, NextTokenError, StepDone
  <2> HIDE DEF step
  <2>2. step.do = "then" => step.job \in Jobs
    BY <2>1 DEF Steps, Jobs
  <2>3. QED
    BY <1>1, <2>1, <2>2, GrowJobs DEF Later
<1>3. QED
  BY <1>1, <1>2, SameFade, SameGoesOn, QuietServed

LEMMA ServedEvents ==
    ASSUME ServedInv, CallsInv',
           \/ \E n \in DOMAIN clients : ClientConnects(n) \/ ClientDrops(n) \/ ConnectionTokenFails(n)
           \/ \E s \in Shareds : SubscriptionTokenFails(s) \/ ChannelSubscribed(s) \/ Published(s)
    PROVE  ServedInv'
<1>1. /\ TypeOK /\ Calm /\ JobsStay /\ UNCHANGED <<client, auth, authChanges>>
      /\ shared \in [Shareds -> Objects] /\ clients \in Seq(ClientRecords)
  <2>1. TypeOK
    BY DEF ServedInv, CallsInv, AttachInv
  <2>2. UNCHANGED <<client, micro, auth, authChanges>>
    BY DEF ClientConnects, ClientDrops, ConnectionTokenFails, SubscriptionTokenFails,
           ChannelSubscribed, Published
  <2>3. QED
    BY <2>1, <2>2, CalmEvents, GrowJobs DEF TypeOK, ClientRecords
<1>2. CASE UNCHANGED <<shared, clients>>
  BY <1>1, <1>2, SameFade, SameGoesOn, QuietServed
<1>3. ASSUME NEW n \in DOMAIN clients, ClientConnects(n) PROVE ServedInv'
  <2>1. Fade /\ UNCHANGED shared
    BY <1>1, <1>3, FadeOne DEF ClientConnects
  <2>2. QED
    BY <1>1, <2>1, SameGoesOn, QuietServed
<1>4. ASSUME NEW n \in DOMAIN clients, ClientDrops(n) PROVE ServedInv'
  <2>1. Fade
    BY <1>1, <1>4, FadeOne DEF ClientDrops
  <2>2. ASSUME NEW s \in Shareds
        PROVE  GoesOn(shared[s], shared'[s]) /\ shared'[s].handlers = shared[s].handlers
    <3>1. GoesOn(shared[s], shared'[s])
      BY <1>1, <1>4, OfflineGoesOn DEF ClientDrops
    <3>2. shared[s] \in Objects
      BY <1>1
    <3>3. shared'[s] = shared[s] \/ shared'[s] = [shared[s] EXCEPT !.sub = "subscribing"]
      BY <1>4 DEF ClientDrops, Offline
    <3>4. QED
      BY <3>1, <3>2, <3>3 DEF Objects
  <2>3. QED
    BY <1>1, <2>1, <2>2, QuietServed
<1>5. ASSUME NEW s \in Shareds, ChannelSubscribed(s) PROVE ServedInv'
  <2>1. UNCHANGED clients
    BY <1>5 DEF ChannelSubscribed
  <2>2. ASSUME NEW t \in Shareds
        PROVE  GoesOn(shared[t], shared'[t]) /\ shared'[t].handlers = shared[t].handlers
    <3>1. shared[t] \in Objects
      BY <1>1
    <3>2. \/ shared'[t] = shared[t]
          \/ /\ shared[t].sub = "subscribing"
             /\ shared'[t] = [shared[t] EXCEPT !.sub = "subscribed", !.subEpoch = shared[t].subEpoch + 1]
      BY <1>1, <1>5 DEF ChannelSubscribed
    <3>3. QED
      BY <3>1, <3>2, SameGoesOn DEF GoesOn, Objects
  <2>3. QED
    BY <1>1, <2>1, <2>2, SameFade, QuietServed
<1>6. QED
  BY <1>2, <1>3, <1>4, <1>5 DEF ConnectionTokenFails, SubscriptionTokenFails, Published

LEMMA ServedAuth ==
    ASSUME ServedInv, CallsInv', AuthChanges
    PROVE  ServedInv'
<1>1. /\ UNCHANGED <<sharedSubs, pendingTeardowns, shared, client, consumer, loader, micro, clients>>
      /\ authChanges \in Nat /\ authChanges' = authChanges + 1
  BY DEF AuthChanges, tables, ServedInv, CallsInv, AttachInv, TypeOK
<1>2. ASSUME NEW s PROVE /\ InTable(s)' = InTable(s) /\ Kind(s)' = Kind(s)
                         /\ Holding(s)' = Holding(s) /\ AttachmentDue(s)' = AttachmentDue(s)
  BY <1>1 DEF InTable, Kind, Holding, AttachmentDue
<1>3. LinksInv'
  BY <1>1, <1>2 DEF ServedInv, LinksInv
<1>4. HoldersInv' /\ TeardownsInv' /\ LoadInv' /\ GuestsInv'
  BY <1>1, <1>2 DEF ServedInv, HoldersInv, TeardownsInv, LoadInv, GuestsInv, Teardown, Members
<1>5. DueInv'
  <2>1. authChanges' <= 1 => authChanges = 0
    BY <1>1
  <2>2. authChanges = 0 => \A s \in Tracked(sharedSubs) : AttachmentDue(s) /\ shared[s].handlers # {}
    BY DEF ServedInv, DueInv, Barred
  <2>3. QED
    BY <1>1, <1>2, <2>1, <2>2 DEF DueInv
<1>6. QED
  BY <1>3, <1>4, <1>5 DEF ServedInv

LEMMA ServedLoader ==
    ASSUME ServedInv, CallsInv', LoaderSettles
    PROVE  ServedInv'
<1>1. /\ UNCHANGED <<sharedSubs, pendingTeardowns, shared, client, consumer, auth, authChanges, clients>>
      /\ micro = <<>>
  BY DEF LoaderSettles, Idle, tables
<1>2. PICK ok \in BOOLEAN :
         /\ loader'.waiting = <<>>
         /\ micro' = [i \in DOMAIN loader.waiting |->
                         [do |-> "attach", s |-> loader.waiting[i].s,
                          epoch |-> loader.waiting[i].epoch, ok |-> ok]]
  BY DEF LoaderSettles
<1>3. ASSUME NEW s PROVE /\ InTable(s)' = InTable(s) /\ Kind(s)' = Kind(s) /\ Barred(s)' = Barred(s)
                         /\ Holding(s)' = Holding(s)
  BY <1>1 DEF InTable, Kind, Holding, Barred
<1>4. LinksInv'
  BY <1>1, <1>3 DEF ServedInv, LinksInv
<1>5. HoldersInv' /\ GuestsInv'
  BY <1>1, <1>3 DEF ServedInv, HoldersInv, GuestsInv
<1>6. TeardownsInv' /\ LoadInv'
  <2>1. Tracked(pendingTeardowns) = {}
    BY <1>1, MembersFew DEF ServedInv, TeardownsInv
  <2>2. QED
    BY <1>1, <1>2, <2>1 DEF TeardownsInv, LoadInv
<1>7. ASSUME NEW s, AttachmentDue(s) PROVE AttachmentDue(s)'
  <2>1. CASE shared[s].sub # "none"
    BY <1>1, <2>1 DEF AttachmentDue
  <2>2. ASSUME NEW i \in DOMAIN loader.waiting, loader.waiting[i] = [s |-> s, epoch |-> shared[s].epoch]
        PROVE  AttachmentDue(s)'
    <3>1. i \in DOMAIN micro' /\ micro'[i].do = "attach" /\ micro'[i].s = s /\ micro'[i].epoch = shared[s].epoch
      BY <1>2, <2>2
    <3>2. QED
      BY <1>1, <3>1 DEF AttachmentDue
  <2>3. DOMAIN micro = {}
    BY <1>1
  <2>4. QED
    BY <1>7, <2>1, <2>2, <2>3 DEF AttachmentDue
<1>8. DueInv'
  BY <1>1, <1>3, <1>7 DEF ServedInv, DueInv
<1>9. QED
  BY <1>4, <1>5, <1>6, <1>8 DEF ServedInv

LEMMA ServedMicrotask ==
    ASSUME ServedInv, CallsInv', NEW job \in Jobs, job = Head(micro), micro # <<>>, micro' = Tail(micro),
           UNCHANGED <<loader, auth, authChanges>>,
           \/ AttachWhenLoaded(job) /\ ~Attaches(job)
           \/ TellLate(job) \/ TeardownDue(job)
           \/ Report(job) \/ StopClient(job) \/ StopSubscription(job)
    PROVE  ServedInv'
<1>1. /\ TypeOK /\ AttachInv /\ TablesInv /\ NoShared \notin Shareds
      /\ shared \in [Shareds -> Objects] /\ clients \in Seq(ClientRecords)
      /\ sharedSubs \in [Channels -> Shareds \cup {NoShared}]
  BY RealtimeAssumption DEF ServedInv, CallsInv, AttachInv, TypeOK, ClientRecords
<1>2. Calm /\ CalmMicro
  BY <1>1, CalmMicrotask
<1>3. ASSUME NEW other \in Members(micro), other # job PROVE other \in Members(micro')
  BY <1>1, <1>2, <1>3, MembersStay
<1>4. job.do # "attach" /\ job.do # "teardown" => JobsStay
  BY <1>3 DEF JobsStay, IsDueJob, IsEntry, Teardown
<1>5. CASE AttachWhenLoaded(job) /\ ~Attaches(job)
  <2>1. UNCHANGED <<pendingTeardowns, shared, client, consumer, clients>>
    BY <1>5 DEF AttachWhenLoaded, Attaches, Untouched, tables, IsAwaited
  <2>2. ASSUME NEW s \in Tracked(sharedSubs) \cap Tracked(sharedSubs'), IsDueJob(job, s), shared[s].sub = "none"
        PROVE  FALSE
    <3>1. s \in Shareds /\ IsTracked(s) /\ s = job.s /\ job.epoch = shared[s].epoch
      BY <1>1, <2>2, TableFields DEF Tracked, IsDueJob
    <3>2. CASE sharedSubs' = Without(sharedSubs, {s})
      BY <1>1, <2>2, <3>1, <3>2 DEF Tracked, Without
    <3>3. CASE ~(sharedSubs' = Without(sharedSubs, {s}))
      BY <1>5, <2>2, <3>1, <3>3 DEF AttachWhenLoaded, Attaches, IsAwaited
    <3>4. QED
      BY <3>2, <3>3
  <2>3. JobsStay
    <3>1. \A t : Teardown(t) # job
      BY <1>5 DEF AttachWhenLoaded, Teardown
    <3>2. QED
      BY <1>3, <2>2, <3>1 DEF JobsStay
  <2>4. QED
    BY <1>2, <2>1, <2>3, SameFade, SameGoesOn, QuietServed
<1>6. CASE TellLate(job) \/ Report(job)
  <2>1. UNCHANGED <<shared, client, clients>> /\ job.do # "attach" /\ job.do # "teardown"
    BY <1>6 DEF TellLate, Report, Untouched
  <2>2. QED
    BY <1>2, <1>4, <2>1, SameFade, SameGoesOn, QuietServed
<1>7. CASE TeardownDue(job)
  <2>1. CASE IsDue(job.s)
    BY <1>7, <2>1, ServedTeardown
  <2>2. CASE ~IsDue(job.s)
    <3>1. Untouched /\ job.do = "teardown"
      BY <1>7, <2>2 DEF TeardownDue
    <3>2. ASSUME NEW t \in Tracked(pendingTeardowns) PROVE Teardown(t) # job
      BY <1>1, <2>2, <3>2 DEF Teardown, IsDue, Tracked, TablesInv, TypeOK
    <3>3. pendingTeardowns' = pendingTeardowns
      BY <3>1 DEF Untouched, tables
    <3>4. JobsStay
      BY <1>3, <3>1, <3>2, <3>3 DEF JobsStay, IsDueJob, IsEntry
    <3>5. QED
      BY <1>2, <3>1, <3>4, SameFade, SameGoesOn, QuietServed DEF Untouched
  <2>3. QED
    BY <2>1, <2>2
<1>8. CASE StopClient(job)
  <2>1. UNCHANGED <<shared, client>> /\ job.do # "attach" /\ job.do # "teardown"
    BY <1>8 DEF StopClient
  <2>2. Fade
    <3>1. clients' = [clients EXCEPT ![job.n].state = IF @ = "connecting" THEN "disconnected" ELSE @]
      BY <1>8 DEF StopClient
    <3>2. CASE job.n \in DOMAIN clients
      <4>1. PICK state : /\ state = IF clients[job.n].state = "connecting" THEN "disconnected"
                                    ELSE clients[job.n].state
        OBVIOUS
      <4>2. clients' = [clients EXCEPT ![job.n].state = state]
        BY <3>1, <4>1
      <4>3. QED
        BY <1>1, <2>1, <3>2, <4>1, <4>2, FadeOne
    <3>3. CASE job.n \notin DOMAIN clients
      <4>1. clients' = clients
        BY <1>1, <3>1, <3>3
      <4>2. QED
        BY <2>1, <4>1, SameFade
    <3>4. QED
      BY <3>2, <3>3
  <2>3. QED
    BY <1>2, <1>4, <2>1, <2>2, SameGoesOn, QuietServed
<1>9. CASE StopSubscription(job)
  <2>1. UNCHANGED <<client, clients>> /\ job.do # "attach" /\ job.do # "teardown"
    BY <1>9 DEF StopSubscription
  <2>2. ASSUME NEW s \in Shareds
        PROVE  GoesOn(shared[s], shared'[s]) /\ shared'[s].handlers = shared[s].handlers
    <3>1. shared[s] \in Objects
      BY <1>1
    <3>2. shared'[s] = shared[s] \/ (/\ shared[s].sub = "subscribing"
                                     /\ shared'[s] = [shared[s] EXCEPT !.sub = "unsubscribed"])
      BY <1>1, <1>9 DEF StopSubscription
    <3>3. QED
      BY <3>1, <3>2, SameGoesOn DEF GoesOn, Objects
  <2>3. QED
    BY <1>2, <1>4, <2>1, <2>2, SameFade, QuietServed
<1>10. QED
  BY <1>5, <1>6, <1>7, <1>8, <1>9

-----------------------------------------------------------------------------
(* Steps that attach, join or leave one subscription.                      *)

\* `cur` are the current ones of the clients `cl`, and no other is open.
Linked(cl, cur) ==
    /\ \A k \in Kinds : cur[k] # 0 => cur[k] \in DOMAIN cl /\ cl[cur[k]].kind = k
    /\ \A n \in DOMAIN cl : cl[n].state # "disconnected" => cur[cl[n].kind] = n
\* Clients are added and connected anew; none is replaced.
Lasts == /\ \A k \in Kinds : client[k] # 0 => client'[k] = client[k]
         /\ \A n \in DOMAIN clients : n \in DOMAIN clients' /\ clients'[n].kind = clients[n].kind

LEMMA LinkedNow ==
    ASSUME TypeOK, ClientsInv, LinksInv
    PROVE  Linked(clients, client)
<1>1. clients \in Seq(ClientRecords) /\ client \in [Kinds -> Nat]
  BY DEF TypeOK, ClientRecords
<1>2. ASSUME NEW k \in Kinds, client[k] # 0 PROVE client[k] \in DOMAIN clients /\ clients[client[k]].kind = k
  BY <1>1, <1>2 DEF ClientsInv, LinksInv
<1>3. QED
  BY <1>2 DEF Linked, LinksInv

LEMMA EnteredServed ==
    ASSUME ServedInv, CallsInv', NEW s \in Shareds, UNCHANGED <<auth, authChanges>>,
           Linked(clients', client'), Lasts, TeardownsInv', LoadInv',
           \A t \in Shareds \ {s} : /\ shared'[t] = shared[t]
                                    /\ InTable(t)' => InTable(t)
                                    /\ t \in Tracked(sharedSubs)' => t \in Tracked(sharedSubs)
                                    /\ Holding(t)' \subseteq Holding(t)
                                    /\ AttachmentDue(t) => AttachmentDue(t)',
           shared'[s].sub = "none" => shared'[s].client = 0,
           shared'[s].sub # "none" => clients'[shared'[s].client].kind = Kind(s)',
           InTable(s)' /\ shared'[s].sub # "none" => shared'[s].client = client'[Kind(s)'],
           InTable(s)' => Holding(s)' \subseteq shared'[s].handlers,
           ~auth /\ authChanges = 0 /\ InTable(s)' => Kind(s)' = "public",
           authChanges <= 1 /\ s \in Tracked(sharedSubs)' =>
              /\ AttachmentDue(s)' \/ Barred(s)'
              /\ shared'[s].handlers # {} \/ (shared'[s].sub = "none" /\ Barred(s)')
    PROVE  ServedInv'
<1>1. TypeOK /\ TypeOK' /\ ClientsInv /\ LinksInv /\ HoldersInv /\ GuestsInv /\ DueInv
  BY DEF ServedInv, CallsInv, AttachInv
<1>2. ASSUME NEW t \in Shareds \ {s} PROVE Kind(t)' = Kind(t) /\ Barred(t)' = Barred(t)
  BY DEF Kind, Barred
<1>3. LinksInv'
  <2>1. ASSUME NEW t \in Shareds \ {s}, shared'[t].sub # "none"
        PROVE  /\ clients'[shared'[t].client].kind = Kind(t)'
               /\ InTable(t)' => shared'[t].client = client'[Kind(t)']
    <3>1. /\ shared'[t] = shared[t] /\ shared[t].sub # "none" /\ Kind(t)' = Kind(t) /\ Kind(t) \in Kinds
          /\ shared[t].client \in DOMAIN clients /\ shared[t].client # 0
          /\ clients[shared[t].client].kind = Kind(t)
      <4>1. shared'[t] = shared[t] /\ Kind(t)' = Kind(t) /\ Kind(t) \in Kinds
        BY <1>1, <1>2, SharedFields
      <4>2. /\ 0 < shared[t].client /\ shared[t].client <= Len(clients) /\ shared[t].client \in Nat
            /\ clients[shared[t].client].kind = Kind(t) /\ clients \in Seq(ClientRecords)
        BY <1>1, <2>1, <4>1, SharedFields DEF ClientsInv, LinksInv, TypeOK, ClientRecords
      <4>3. QED
        BY <2>1, <4>1, <4>2
    <3>2. clients'[shared'[t].client].kind = Kind(t)'
      BY <3>1 DEF Lasts
    <3>3. ASSUME InTable(t)' PROVE shared'[t].client = client'[Kind(t)']
      <4>1. shared[t].client = client[Kind(t)]
        BY <1>1, <3>1, <3>3 DEF LinksInv
      <4>2. client'[Kind(t)] = client[Kind(t)]
        BY <3>1, <4>1 DEF Lasts
      <4>3. QED
        BY <3>1, <4>1, <4>2
    <3>4. QED
      BY <3>2, <3>3
  <2>2. \A t \in Shareds : shared'[t].sub = "none" => shared'[t].client = 0
    BY <1>1 DEF LinksInv
  <2>3. \A k \in Kinds : client'[k] # 0 => clients'[client'[k]].kind = k
    BY DEF Linked
  <2>4. \A n \in DOMAIN clients' : clients'[n].state # "disconnected" => client'[clients'[n].kind] = n
    BY DEF Linked
  <2>5. QED
    BY <2>1, <2>2, <2>3, <2>4 DEF LinksInv
<1>4. HoldersInv'
  <2>1. ASSUME NEW t \in Shareds, InTable(t)' PROVE Holding(t)' \subseteq shared'[t].handlers
    BY <1>1, <2>1 DEF HoldersInv
  <2>2. QED
    BY <2>1 DEF HoldersInv
<1>5. GuestsInv'
  <2>1. ASSUME ~auth, authChanges = 0, NEW t \in Shareds, InTable(t)' PROVE Kind(t)' = "public"
    BY <1>1, <1>2, <2>1 DEF GuestsInv
  <2>2. QED
    BY <2>1 DEF GuestsInv
<1>6. DueInv'
  <2>1. ASSUME authChanges <= 1, NEW t \in Tracked(sharedSubs)'
        PROVE  /\ (AttachmentDue(t) \/ Barred(t))'
               /\ (shared[t].handlers # {} \/ (shared[t].sub = "none" /\ Barred(t)))'
    <3>1. t \in Shareds
      BY <1>1 DEF Tracked, TypeOK
    <3>2. CASE t = s
      BY <2>1, <3>2
    <3>3. CASE t # s
      <4>1. /\ t \in Tracked(sharedSubs) /\ shared'[t] = shared[t] /\ Barred(t)' = Barred(t)
            /\ AttachmentDue(t) => AttachmentDue(t)'
        BY <1>2, <2>1, <3>1, <3>3
      <4>2. QED
        BY <1>1, <2>1, <4>1 DEF DueInv
    <3>4. QED
      BY <3>2, <3>3
  <2>2. QED
    BY <2>1 DEF DueInv
<1>7. QED
  BY <1>3, <1>4, <1>5, <1>6 DEF ServedInv

LEMMA ReconnectedLinked ==
    ASSUME TypeOK, Linked(clients, client), NEW k \in Kinds
    PROVE  /\ Reconnected(client[k], k) \in Seq(ClientRecords)
           /\ Len(Reconnected(client[k], k)) = Len(clients)
           /\ \A n \in DOMAIN clients : Reconnected(client[k], k)[n].kind = clients[n].kind
           /\ Linked(Reconnected(client[k], k), client)
<1>1. client[k] \in Nat /\ clients \in Seq(ClientRecords)
  BY DEF TypeOK, ClientRecords
<1>2. PICK cl : cl = Reconnected(client[k], k)
  OBVIOUS
<1>3. cl \in Seq(ClientRecords)
  BY <1>1, <1>2, ReconnectedTypes
<1>4. cl = clients \/ (client[k] # 0 /\ cl = [clients EXCEPT ![client[k]] = [clients[client[k]] EXCEPT !.state = "connecting"]])
  BY <1>2 DEF Reconnected
<1>5. CASE cl = clients
  BY <1>2, <1>3, <1>5
<1>6. CASE /\ client[k] # 0
           /\ cl = [clients EXCEPT ![client[k]] = [clients[client[k]] EXCEPT !.state = "connecting"]]
  <2>1. client[k] \in DOMAIN clients /\ clients[client[k]].kind = k /\ clients[client[k]] \in ClientRecords
    BY <1>1, <1>6 DEF Linked
  <2>2. /\ DOMAIN cl = DOMAIN clients /\ Len(cl) = Len(clients)
        /\ cl[client[k]] = [clients[client[k]] EXCEPT !.state = "connecting"]
        /\ \A n \in DOMAIN clients : n # client[k] => cl[n] = clients[n]
    BY <1>1, <1>6, <2>1
  <2>3. cl[client[k]].kind = k
    BY <2>1, <2>2 DEF ClientRecords
  <2>4. \A n \in DOMAIN clients : cl[n].kind = clients[n].kind
    BY <2>1, <2>2, <2>3
  <2>5. Linked(cl, client)
    <3>1. \A j \in Kinds : client[j] # 0 => client[j] \in DOMAIN cl /\ cl[client[j]].kind = j
      BY <2>2, <2>4 DEF Linked
    <3>2. ASSUME NEW n \in DOMAIN cl, cl[n].state # "disconnected" PROVE client[cl[n].kind] = n
      <4>1. CASE n = client[k]
        BY <2>3, <4>1
      <4>2. CASE n # client[k]
        BY <2>2, <3>2, <4>2 DEF Linked
      <4>3. QED
        BY <4>1, <4>2
    <3>3. QED
      BY <3>1, <3>2 DEF Linked
  <2>6. QED
    BY <1>2, <1>3, <2>2, <2>4, <2>5
<1>7. QED
  BY <1>4, <1>5, <1>6

LEMMA AttachNowLinked ==
    ASSUME TypeOK, NEW sh \in [Shareds -> Objects], NEW s \in Shareds, NEW cl \in Seq(ClientRecords),
           Len(cl) = Len(clients), Linked(cl, client), \A n \in DOMAIN clients : cl[n].kind = clients[n].kind,
           AttachNow(sh, s, cl)
    PROVE  /\ Linked(clients', client') /\ Lasts
           /\ \A t \in Shareds \ {s} : shared'[t] = sh[t]
           /\ shared'[s].channel = sh[s].channel /\ shared'[s].handlers = sh[s].handlers
           /\ shared'[s].epoch = sh[s].epoch /\ shared'[s].sub # "none"
           /\ shared'[s].client = client'[Kind(s)'] /\ clients'[shared'[s].client].kind = Kind(s)'
<1>1. PICK k, n : k = KindOf(sh[s].channel) /\ n = IF client[k] # 0 THEN client[k] ELSE Len(clients) + 1
  OBVIOUS
<1>2. /\ client' = [client EXCEPT ![k] = n]
      /\ shared' = [sh EXCEPT ![s] = [sh[s] EXCEPT !.sub = "subscribing", !.client = n]]
      /\ clients' = IF client[k] = 0 THEN Append(cl, [kind |-> k, state |-> "connecting"]) ELSE cl
  BY <1>1 DEF AttachNow
<1>3. /\ client \in [Kinds -> Nat] /\ clients \in Seq(ClientRecords) /\ k \in Kinds
      /\ Len(clients) \in Nat /\ client[k] \in Nat /\ sh[s] \in Objects
      /\ DOMAIN cl = 1 .. Len(clients) /\ DOMAIN clients = 1 .. Len(clients)
  BY <1>1, KindTypes DEF TypeOK, ClientRecords
<1>4. n \in Nat /\ n # 0 /\ client'[k] = n /\ \A j \in Kinds \ {k} : client'[j] = client[j]
  BY <1>1, <1>2, <1>3
<1>5. [kind |-> k, state |-> "connecting"] \in ClientRecords
  BY <1>3 DEF ClientRecords
<1>6. /\ \A m \in DOMAIN cl : m \in DOMAIN clients' /\ clients'[m] = cl[m]
      /\ n \in DOMAIN clients' /\ clients'[n].kind = k
      /\ \A m \in DOMAIN clients' : m \in DOMAIN cl \/ m = n
  <2>1. CASE client[k] = 0
    BY <1>1, <1>2, <1>3, <1>5, <2>1
  <2>2. CASE client[k] # 0
    BY <1>1, <1>2, <1>3, <2>2 DEF Linked
  <2>3. QED
    BY <2>1, <2>2
<1>7. Lasts
  BY <1>1, <1>3, <1>4, <1>6 DEF Lasts
<1>8. Linked(clients', client')
  <2>1. ASSUME NEW j \in Kinds, client'[j] # 0 PROVE client'[j] \in DOMAIN clients' /\ clients'[client'[j]].kind = j
    <3>1. CASE j = k
      BY <1>4, <1>6, <3>1
    <3>2. CASE j # k
      BY <1>4, <1>6, <2>1, <3>2 DEF Linked
    <3>3. QED
      BY <3>1, <3>2
  <2>2. ASSUME NEW m \in DOMAIN clients', clients'[m].state # "disconnected"
        PROVE  client'[clients'[m].kind] = m
    <3>1. CASE m = n
      BY <1>4, <1>6, <3>1
    <3>2. CASE m # n
      <4>1. m \in DOMAIN cl /\ clients'[m] = cl[m] /\ client[cl[m].kind] = m /\ m # 0
        BY <1>3, <1>6, <2>2, <3>2 DEF Linked
      <4>2. cl[m].kind \in Kinds
        <5>1. cl[m] \in ClientRecords
          BY <4>1
        <5>2. QED
          BY <5>1 DEF ClientRecords
      <4>3. cl[m].kind # k
        BY <1>1, <3>2, <4>1
      <4>4. QED
        BY <1>4, <4>1, <4>2, <4>3
    <3>3. QED
      BY <3>1, <3>2
  <2>3. QED
    BY <2>1, <2>2 DEF Linked
<1>9. /\ \A t \in Shareds \ {s} : shared'[t] = sh[t]
      /\ shared'[s] = [sh[s] EXCEPT !.sub = "subscribing", !.client = n]
  BY <1>2
<1>10. /\ shared'[s].channel = sh[s].channel /\ shared'[s].handlers = sh[s].handlers
       /\ shared'[s].epoch = sh[s].epoch /\ shared'[s].sub # "none" /\ shared'[s].client = n
  BY <1>3, <1>9 DEF Objects
<1>11. Kind(s)' = k
  BY <1>1, <1>10 DEF Kind
<1>12. QED
  BY <1>4, <1>6, <1>7, <1>8, <1>9, <1>10, <1>11

LEMMA DueStays ==
    ASSUME NEW t, shared'[t].epoch = shared[t].epoch,
           shared[t].sub # "none" => shared'[t].sub # "none",
           Members(loader.waiting) \subseteq Members(loader'.waiting),
           \A job \in Members(micro) : IsDueJob(job, t) /\ shared[t].sub = "none" => job \in Members(micro')
    PROVE  AttachmentDue(t) => AttachmentDue(t)'
<1>1. CASE shared[t].sub # "none"
  BY <1>1 DEF AttachmentDue
<1>2. CASE [s |-> t, epoch |-> shared[t].epoch] \in Members(loader.waiting)
  <2>1. [s |-> t, epoch |-> shared'[t].epoch] \in Members(loader'.waiting)
    BY <1>2
  <2>2. QED
    BY <2>1 DEF AttachmentDue, Members
<1>3. ASSUME NEW job \in Members(micro), IsDueJob(job, t), shared[t].sub = "none" PROVE AttachmentDue(t)'
  BY <1>3 DEF AttachmentDue, Members, IsDueJob, IsEntry
<1>4. QED
  BY <1>1, <1>2, <1>3, DueJobs

\* A step that attaches s to the current client of its kind; it was and stays in the
\* table of what is in use.
LEMMA ServedAttaches ==
    ASSUME ServedInv, CallsInv', NEW job \in Jobs, job = Head(micro), micro # <<>>, micro' = Tail(micro),
           UNCHANGED <<loader, auth, authChanges>>, AttachWhenLoaded(job), Attaches(job)
    PROVE  ServedInv'
<1>1. PICK s \in Shareds : s = job.s
  BY DEF AttachWhenLoaded, Jobs, Refusals
<1>2. /\ TypeOK /\ TablesInv /\ ClientsInv /\ LinksInv /\ DueInv /\ NoShared \notin Shareds
      /\ shared \in [Shareds -> Objects] /\ clients \in Seq(ClientRecords) /\ micro \in Seq(Jobs)
  BY RealtimeAssumption DEF ServedInv, CallsInv, AttachInv, TypeOK, ClientRecords
<1>3. /\ AttachNow(shared, s, clients) /\ UNCHANGED <<sharedSubs, pendingTeardowns, consumer>>
      /\ IsTracked(s) /\ shared[s].sub = "none" /\ shared[s].epoch = job.epoch /\ IsEntry(job)
  BY <1>1 DEF Attaches, IsAwaited, tables, AttachWhenLoaded, IsEntry
<1>4. /\ Linked(clients', client') /\ Lasts
      /\ \A t \in Shareds \ {s} : shared'[t] = shared[t]
      /\ shared'[s].channel = shared[s].channel /\ shared'[s].handlers = shared[s].handlers
      /\ shared'[s].epoch = shared[s].epoch /\ shared'[s].sub # "none"
      /\ shared'[s].client = client'[Kind(s)'] /\ clients'[shared'[s].client].kind = Kind(s)'
  BY <1>2, <1>3, LinkedNow, AttachNowLinked
<1>5. ~Unauthorized(shared[s].channel)
  <2>1. shared' # shared
    BY <1>3, <1>4
  <2>2. QED
    BY <1>1, <2>1 DEF AttachWhenLoaded, Untouched
<1>6. Kind(s)' = Kind(s) /\ ~Barred(s)
  BY <1>4, <1>5 DEF Kind, Barred, Unauthorized, KindOf
<1>7. ASSUME NEW t PROVE InTable(t)' = InTable(t) /\ Holding(t)' = Holding(t)
  BY <1>3 DEF InTable, Holding
<1>8. Members(micro) = {job} \cup Members(micro')
  BY <1>2, MembersTail
<1>9. TeardownsInv' /\ LoadInv'
  <2>1. \A t : Teardown(t) # job
    BY <1>3 DEF Teardown, IsEntry
  <2>2. QED
    BY <1>3, <1>8, <2>1 DEF ServedInv, TeardownsInv, LoadInv, Teardown
<1>10. ASSUME NEW t \in Shareds \ {s} PROVE AttachmentDue(t) => AttachmentDue(t)'
  <2>1. ~IsDueJob(job, t)
    BY <1>1 DEF IsDueJob
  <2>2. QED
    BY <1>4, <1>8, <2>1, DueStays
<1>11. authChanges <= 1 /\ s \in Tracked(sharedSubs)' => shared'[s].handlers # {}
  <2>1. Tracked(sharedSubs)' = Tracked(sharedSubs)
    BY <1>3 DEF Tracked
  <2>2. QED
    BY <1>2, <1>4, <1>6, <2>1 DEF DueInv
<1>12. AttachmentDue(s)'
  BY <1>4 DEF AttachmentDue
<1>13. InTable(s)' => Holding(s)' \subseteq shared'[s].handlers
  BY <1>4, <1>7 DEF ServedInv, HoldersInv
<1>14. ~auth /\ authChanges = 0 /\ InTable(s)' => Kind(s)' = "public"
  BY <1>6, <1>7 DEF ServedInv, GuestsInv
<1>15. QED
  BY <1>3, <1>4, <1>7, <1>9, <1>10, <1>11, <1>12, <1>13, <1>14, EnteredServed

LEMMA ServedRunMicrotask ==
    ASSUME ServedInv, CallsInv', RunMicrotask
    PROVE  ServedInv'
<1>1. PICK job : job = Head(micro)
  OBVIOUS
<1>2. /\ micro # <<>> /\ micro' = Tail(micro) /\ UNCHANGED <<loader, auth, authChanges>>
      /\ \/ AttachWhenLoaded(job) \/ TellLate(job) \/ TeardownDue(job)
         \/ Report(job) \/ StopClient(job) \/ StopSubscription(job)
  BY <1>1 DEF RunMicrotask
<1>3. job \in Jobs
  BY <1>1, <1>2, TailTypes DEF ServedInv, CallsInv, AttachInv, TypeOK
<1>4. CASE AttachWhenLoaded(job) /\ Attaches(job)
  BY <1>1, <1>2, <1>3, <1>4, ServedAttaches
<1>5. CASE ~(AttachWhenLoaded(job) /\ Attaches(job))
  BY <1>1, <1>2, <1>3, <1>5, ServedMicrotask
<1>6. QED
  BY <1>4, <1>5

-----------------------------------------------------------------------------
(* The disposer.                                                           *)

LEMMA ServedDispose ==
    ASSUME ServedInv, CallsInv', NEW c \in Consumers, Dispose(c)
    PROVE  ServedInv'
<1>1. /\ TypeOK /\ CountInv /\ TablesInv /\ ClientsInv /\ LinksInv /\ HoldersInv /\ DueInv
      /\ consumer \in [Consumers -> Closures] /\ consumer[c] \in Closures
      /\ shared \in [Shareds -> Objects] /\ micro \in Seq(Jobs) /\ NoShared \notin Shareds
      /\ sharedSubs \in [Channels -> Shareds \cup {NoShared}]
      /\ pendingTeardowns \in [Channels -> Shareds \cup {NoShared}]
  BY RealtimeAssumption DEF ServedInv, CallsInv, AttachInv, TypeOK
<1>2. PICK s \in Shareds : s = consumer[c].s /\ ~consumer[c].closed
  BY <1>1 DEF Dispose, Disposable, Closures
<1>3. /\ shared' = [shared EXCEPT ![s] = [shared[s] EXCEPT !.consumers = shared[s].consumers - 1,
                                                          !.handlers = shared[s].handlers \ {c}]]
      /\ consumer' = [consumer EXCEPT ![c] = [consumer[c] EXCEPT !.closed = TRUE]]
      /\ UNCHANGED <<client, loader, auth, authChanges, clients>>
  BY <1>2 DEF Dispose
<1>4. /\ consumer'[c].s = s /\ consumer'[c].closed
      /\ \A d \in Consumers \ {c} : consumer'[d] = consumer[d]
  BY <1>1, <1>2, <1>3 DEF Closures
<1>5. /\ shared'[s].handlers = shared[s].handlers \ {c} /\ shared'[s].channel = shared[s].channel
      /\ shared'[s].sub = shared[s].sub /\ shared'[s].client = shared[s].client
      /\ shared'[s].epoch = shared[s].epoch
      /\ \A t \in Shareds \ {s} : shared'[t] = shared[t]
  <2>1. shared[s] \in Objects
    BY <1>1
  <2>2. QED
    BY <1>1, <1>3, <2>1 DEF Objects
<1>6. c \in Holding(s) /\ Holding(s)' = Holding(s) \ {c} /\ \A t \in Shareds \ {s} : Holding(t)' = Holding(t)
  BY <1>2, <1>4 DEF Holding
<1>7. Kind(s)' = Kind(s) /\ Barred(s)' = Barred(s) /\ shared[s].channel \in Channels
  BY <1>1, <1>2, <1>3, <1>5 DEF Kind, Barred, CountInv
<1>8. /\ Linked(clients', client') /\ Lasts
      /\ shared'[s].sub = "none" => shared'[s].client = 0
      /\ shared'[s].sub # "none" => clients'[shared'[s].client].kind = Kind(s)'
      /\ InTable(s) /\ shared'[s].sub # "none" => shared'[s].client = client'[Kind(s)']
  BY <1>1, <1>3, <1>5, <1>7, LinkedNow DEF Lasts, LinksInv
<1>9. Members(micro) \subseteq Members(micro')
  <2>1. PICK job \in Jobs : job = Teardown(s)
    BY DEF Jobs, Teardown
  <2>2. micro' = micro \/ micro' = Append(micro, job)
    BY <1>2, <2>1 DEF Dispose, Later, Teardown
  <2>3. Members(Append(micro, job)) = Members(micro) \cup {job}
    BY <1>1, MembersAppend
  <2>4. QED
    BY <2>2, <2>3
<1>10. ASSUME NEW t \in Shareds PROVE AttachmentDue(t) => AttachmentDue(t)'
  <2>1. shared'[t].epoch = shared[t].epoch /\ shared'[t].sub = shared[t].sub /\ loader' = loader
    BY <1>3, <1>5
  <2>2. QED
    BY <1>9, <2>1, DueStays
<1>11. CASE shared[s].consumers <= 1 /\ IsTracked(s)
  <2>1. /\ sharedSubs' = Without(sharedSubs, {s})
        /\ pendingTeardowns' = [pendingTeardowns EXCEPT ![shared[s].channel] = s]
        /\ micro' = Append(micro, Teardown(s))
    BY <1>2, <1>11 DEF Dispose, Later, Teardown
  <2>2. /\ Tracked(sharedSubs)' = Tracked(sharedSubs) \ {s}
        /\ \A t \in Tracked(pendingTeardowns)' : t \in Tracked(pendingTeardowns) \/ t = s
    BY <1>1, <1>7, <2>1 DEF Tracked, Without
  <2>3. InTable(s) /\ \A t : InTable(t)' => InTable(t)
    <3>1. InTable(s)
      BY <1>1, <1>7, <1>11, TableFields DEF InTable
    <3>2. QED
      BY <2>2, <3>1 DEF InTable
  <2>4. TeardownsInv' /\ LoadInv'
    <3>1. Teardown(s) \in Members(micro')
      <4>1. Teardown(s) \in Jobs
        BY DEF Jobs, Teardown
      <4>2. QED
        BY <1>1, <2>1, <4>1, MembersAppend
    <3>2. \A t \in Tracked(pendingTeardowns)' : Teardown(t) \in Members(micro')
      BY <1>9, <2>2, <3>1 DEF ServedInv, TeardownsInv
    <3>3. QED
      BY <1>3, <3>2 DEF ServedInv, TeardownsInv, LoadInv, Teardown
  <2>5. /\ Holding(s)' \subseteq shared'[s].handlers
        /\ ~auth /\ authChanges = 0 => Kind(s)' = "public"
    BY <1>1, <1>5, <1>6, <1>7, <2>3 DEF HoldersInv, ServedInv, GuestsInv
  <2>6. QED
    BY <1>3, <1>5, <1>6, <1>8, <1>10, <2>2, <2>3, <2>4, <2>5, EnteredServed
<1>12. CASE ~(shared[s].consumers <= 1 /\ IsTracked(s))
  <2>1. UNCHANGED <<sharedSubs, pendingTeardowns, micro>>
    BY <1>2, <1>12 DEF Dispose, tables
  <2>2. ASSUME NEW t PROVE InTable(t)' = InTable(t)
    BY <2>1 DEF InTable
  <2>3. TeardownsInv' /\ LoadInv'
    BY <1>3, <2>1 DEF ServedInv, TeardownsInv, LoadInv, Teardown, Members
  <2>4. /\ InTable(s) => Holding(s)' \subseteq shared'[s].handlers
        /\ ~auth /\ authChanges = 0 /\ InTable(s) => Kind(s)' = "public"
    BY <1>1, <1>5, <1>6, <1>7 DEF HoldersInv, ServedInv, GuestsInv
  <2>5. ASSUME authChanges <= 1, s \in Tracked(sharedSubs)
        PROVE  (AttachmentDue(s)' \/ Barred(s)') /\ shared'[s].handlers # {}
    <3>1. IsTracked(s) /\ InTable(s)
      BY <1>1, <2>5, TableFields DEF InTable
    <3>2. AttachmentDue(s)' \/ Barred(s)'
      BY <1>1, <1>7, <1>10, <2>5 DEF DueInv
    <3>3. Holding(s)' # {}
      <4>1. Cardinality(Holding(s)) > 1
        BY <1>1, <1>12, <3>1, SharedFields DEF CountInv
      <4>2. Holding(s) # {c}
        <5>1. Cardinality({c}) = 1
          BY FS_Singleton
        <5>2. QED
          BY <4>1, <5>1
      <4>3. QED
        BY <1>6, <4>2
    <3>4. QED
      BY <2>4, <3>1, <3>2, <3>3
  <2>6. QED
    BY <1>3, <1>5, <1>6, <1>8, <1>10, <2>1, <2>2, <2>3, <2>4, <2>5, EnteredServed
<1>13. QED
  BY <1>11, <1>12

-----------------------------------------------------------------------------
(* subscribe().                                                            *)

LEMMA Entered ==
    ASSUME TypeOK, TablesInv, NEW ch \in Channels, NEW s \in Shareds, Finds(ch, s), Enters(ch, s)
    PROVE  /\ \A t \in Shareds \ {s} : /\ InTable(t)' => InTable(t)
                                       /\ t \in Tracked(sharedSubs)' => t \in Tracked(sharedSubs)
           /\ Tracked(pendingTeardowns)' \subseteq Tracked(pendingTeardowns)
           /\ shared[s].epoch > 0 => InTable(s)
<1>1. /\ NoShared \notin Shareds
      /\ sharedSubs \in [Channels -> Shareds \cup {NoShared}]
      /\ pendingTeardowns \in [Channels -> Shareds \cup {NoShared}]
  BY RealtimeAssumption DEF TypeOK
<1>2. ASSUME NEW t \in Shareds \ {s}, t \in Tracked(sharedSubs)' PROVE t \in Tracked(sharedSubs)
  BY <1>1, <1>2 DEF Tracked, Enters
<1>3. Tracked(pendingTeardowns)' \subseteq Tracked(pendingTeardowns)
  BY <1>1 DEF Tracked, Enters
<1>4. shared[s].epoch > 0 => InTable(s)
  BY <1>1 DEF InTable, Tracked, Finds
<1>5. QED
  BY <1>2, <1>3, <1>4 DEF InTable

LEMMA HeldHolding ==
    ASSUME TypeOK, NEW c \in Consumers, NEW s \in Shareds, Holds(c, s), consumer[c].s = NoShared, ~consumer[c].closed
    PROVE  Holding(s)' = Holding(s) \cup {c} /\ \A t \in Shareds \ {s} : Holding(t)' = Holding(t)
<1>1. consumer \in [Consumers -> Closures] /\ consumer[c] \in Closures /\ NoShared \notin Shareds
  BY RealtimeAssumption DEF TypeOK
<1>2. consumer'[c].s = s /\ ~consumer'[c].closed /\ \A d \in Consumers \ {c} : consumer'[d] = consumer[d]
  BY <1>1 DEF Holds, Closures
<1>3. QED
  BY <1>1, <1>2 DEF Holding

LEMMA ServedShare ==
    ASSUME ServedInv, CallsInv', NEW c \in Consumers, NEW ch \in Channels, NEW s \in Shareds,
           NEW sh \in {shared, Resumed(s)}, Share(c, s, sh), Holds(c, s),
           consumer[c].s = NoShared, ~consumer[c].closed, Finds(ch, s), Enters(ch, s), shared[s].epoch > 0,
           s \in Tracked(sharedSubs) \/ shared[s].sub # "none", UNCHANGED <<auth, authChanges>>
    PROVE  ServedInv'
<1>1. /\ TypeOK /\ TablesInv /\ ClientsInv /\ LinksInv /\ HoldersInv /\ GuestsInv /\ DueInv
      /\ micro \in Seq(Jobs)
  BY DEF ServedInv, CallsInv, AttachInv, TypeOK
<1>2. /\ \A t \in Shareds \ {s} : shared'[t] = shared[t]
      /\ Keeps(shared[s], shared'[s]) /\ shared'[s].epoch = shared[s].epoch
      /\ UNCHANGED <<client, loader>> /\ shared'[s].handlers = shared[s].handlers \cup {c}
  BY <1>1, ShareEffect, ShareHandlers
<1>3. /\ \A t \in Shareds \ {s} : /\ InTable(t)' => InTable(t)
                                  /\ t \in Tracked(sharedSubs)' => t \in Tracked(sharedSubs)
      /\ Tracked(pendingTeardowns)' \subseteq Tracked(pendingTeardowns) /\ InTable(s)
  BY <1>1, Entered
<1>4. Holding(s)' = Holding(s) \cup {c} /\ \A t \in Shareds \ {s} : Holding(t)' = Holding(t)
  BY <1>1, HeldHolding
<1>5. Kind(s)' = Kind(s) /\ Barred(s)' = Barred(s) /\ Kind(s) \in Kinds
  BY <1>1, <1>2, SharedFields DEF Keeps, Kind, Barred
<1>6. clients' = clients \/ clients' = Reconnected(client[Kind(s)], Kind(s))
  <2>1. clients' = Reconnected(shared[s].client, Kind(s))
    BY DEF Share
  <2>2. CASE shared[s].sub = "none"
    BY <1>1, <2>1, <2>2 DEF LinksInv, Reconnected
  <2>3. CASE shared[s].sub # "none"
    BY <1>1, <1>3, <2>1, <2>3 DEF LinksInv
  <2>4. QED
    BY <2>2, <2>3
<1>7. Linked(clients', client') /\ Lasts
  <2>1. Linked(clients, client) /\ clients \in Seq(ClientRecords)
    BY <1>1, LinkedNow DEF TypeOK, ClientRecords
  <2>2. CASE clients' = clients
    BY <1>2, <2>1, <2>2 DEF Lasts
  <2>3. CASE clients' = Reconnected(client[Kind(s)], Kind(s))
    <3>1. /\ clients' \in Seq(ClientRecords) /\ Len(clients') = Len(clients)
          /\ \A n \in DOMAIN clients : clients'[n].kind = clients[n].kind
          /\ Linked(clients', client)
      BY <1>1, <1>5, <2>1, <2>3, ReconnectedLinked
    <3>2. DOMAIN clients' = DOMAIN clients
      BY <2>1, <3>1
    <3>3. QED
      BY <1>2, <3>1, <3>2 DEF Lasts
  <2>4. QED
    BY <1>6, <2>2, <2>3
<1>8. Members(micro) \subseteq Members(micro')
  <2>1. PICK job \in Jobs : job = [do |-> "late", c |-> c, s |-> s, epoch |-> shared[s].subEpoch]
    BY <1>1, SharedFields DEF Jobs, Objects
  <2>2. micro' = micro \/ micro' = Append(micro, job)
    BY <2>1 DEF Share, Later
  <2>3. Members(Append(micro, job)) = Members(micro) \cup {job}
    BY <1>1, MembersAppend
  <2>4. QED
    BY <2>2, <2>3
<1>9. TeardownsInv' /\ LoadInv'
  <2>1. \A t \in Tracked(pendingTeardowns)' : Teardown(t) \in Members(micro')
    BY <1>3, <1>8 DEF ServedInv, TeardownsInv
  <2>2. QED
    BY <1>2, <2>1 DEF ServedInv, TeardownsInv, LoadInv, Teardown
<1>10. ASSUME NEW t \in Shareds PROVE AttachmentDue(t) => AttachmentDue(t)'
  <2>1. shared'[t].epoch = shared[t].epoch /\ (shared[t].sub # "none" => shared'[t].sub # "none")
        /\ loader' = loader
    BY <1>2 DEF Keeps
  <2>2. QED
    BY <1>8, <2>1, DueStays
<1>11. /\ shared'[s].sub = "none" => shared'[s].client = 0
       /\ shared'[s].sub # "none" => shared'[s].client = client'[Kind(s)']
  BY <1>1, <1>2, <1>3, <1>5 DEF LinksInv, Keeps
<1>12. shared'[s].sub # "none" => clients'[shared'[s].client].kind = Kind(s)'
  <2>1. shared'[s].sub # "none" => client'[Kind(s)] # 0
    BY <1>1, <1>2, <1>5, <1>11, SharedFields DEF ClientsInv, Keeps
  <2>2. QED
    BY <1>5, <1>7, <1>11, <2>1 DEF Linked
<1>13. Holding(s)' \subseteq shared'[s].handlers /\ (~auth /\ authChanges = 0 => Kind(s)' = "public")
  BY <1>1, <1>2, <1>3, <1>4, <1>5 DEF HoldersInv, GuestsInv
<1>14. authChanges <= 1 => (AttachmentDue(s)' \/ Barred(s)') /\ shared'[s].handlers # {}
  <2>1. authChanges <= 1 => AttachmentDue(s) \/ Barred(s)
    BY <1>1 DEF DueInv, AttachmentDue
  <2>2. QED
    BY <1>2, <1>5, <1>10, <2>1
<1>15. QED
  BY <1>2, <1>3, <1>4, <1>7, <1>9, <1>10, <1>11, <1>12, <1>13, <1>14, EnteredServed

LEMMA ServedAttaching ==
    ASSUME ServedInv, CallsInv', NEW c \in Consumers, NEW ch \in Channels, NEW s \in Shareds,
           NEW sh \in [Shareds -> Objects], \A t \in Shareds \ {s} : sh[t] = shared[t],
           sh[s].sub = "none", sh[s].client = 0, sh[s].channel = ch, Holding(s) \subseteq sh[s].handlers,
           Attach(c, s, sh), Holds(c, s), consumer[c].s = NoShared, ~consumer[c].closed,
           Finds(ch, s), Enters(ch, s), ~Unauthorized(ch), UNCHANGED <<auth, authChanges>>
    PROVE  ServedInv'
<1>1. /\ TypeOK /\ TablesInv /\ ClientsInv /\ LinksInv /\ HoldersInv /\ GuestsInv /\ DueInv
      /\ clients \in Seq(ClientRecords) /\ sh[s] \in Objects
  BY DEF ServedInv, CallsInv, AttachInv, TypeOK, ClientRecords
<1>2. Linked(clients, client)
  BY <1>1, LinkedNow
<1>3. PICK joined : joined = [sh EXCEPT ![s].epoch = @ + 1, ![s].consumers = @ + 1,
                                        ![s].handlers = @ \cup {c}]
  OBVIOUS
<1>4. /\ joined \in [Shareds -> Objects] /\ \A t \in Shareds \ {s} : joined[t] = shared[t]
      /\ joined[s].channel = ch /\ joined[s].sub = "none" /\ joined[s].client = 0
      /\ joined[s].handlers = sh[s].handlers \cup {c}
  <2>1. joined \in [Shareds -> Objects]
    BY <1>3, SharedTypes
  <2>2. QED
    BY <1>1, <1>3, <2>1 DEF Objects
<1>5. /\ \A t \in Shareds \ {s} : /\ InTable(t)' => InTable(t)
                                  /\ t \in Tracked(sharedSubs)' => t \in Tracked(sharedSubs)
      /\ Tracked(pendingTeardowns)' \subseteq Tracked(pendingTeardowns)
  BY <1>1, Entered
<1>6. Holding(s)' = Holding(s) \cup {c} /\ \A t \in Shareds \ {s} : Holding(t)' = Holding(t)
  BY <1>1, HeldHolding
<1>7. UNCHANGED micro
  BY DEF Attach
<1>8. TeardownsInv'
  <2>1. \A t \in Tracked(pendingTeardowns)' : Teardown(t) \in Members(micro')
    BY <1>5, <1>7 DEF ServedInv, TeardownsInv
  <2>2. QED
    BY <2>1 DEF TeardownsInv, Teardown
<1>9. CASE loader.state = "loaded"
  <2>1. PICK k \in Kinds : k = KindOf(ch)
    BY KindTypes
  <2>2. AttachNow(joined, s, Reconnected(client[k], k)) /\ UNCHANGED loader
    BY <1>3, <1>9, <2>1 DEF Attach
  <2>3. /\ Reconnected(client[k], k) \in Seq(ClientRecords)
        /\ Len(Reconnected(client[k], k)) = Len(clients)
        /\ \A n \in DOMAIN clients : Reconnected(client[k], k)[n].kind = clients[n].kind
        /\ Linked(Reconnected(client[k], k), client)
    BY <1>1, <1>2, ReconnectedLinked
  <2>4. /\ Linked(clients', client') /\ Lasts
        /\ \A t \in Shareds \ {s} : shared'[t] = joined[t]
        /\ shared'[s].channel = joined[s].channel /\ shared'[s].handlers = joined[s].handlers
        /\ shared'[s].sub # "none"
        /\ shared'[s].client = client'[Kind(s)'] /\ clients'[shared'[s].client].kind = Kind(s)'
    BY <1>1, <1>4, <2>2, <2>3, AttachNowLinked
  <2>5. LoadInv'
    BY <2>2 DEF ServedInv, LoadInv
  <2>6. ASSUME NEW t \in Shareds \ {s} PROVE AttachmentDue(t) => AttachmentDue(t)'
    BY <1>4, <1>7, <2>2, <2>4, DueStays
  <2>7. ~auth => Kind(s)' = "public"
    BY <1>4, <2>4 DEF Unauthorized, Kind, KindOf
  <2>8. AttachmentDue(s)' /\ Holding(s)' \subseteq shared'[s].handlers /\ shared'[s].handlers # {}
    BY <1>4, <1>6, <2>4 DEF AttachmentDue
  <2>9. \A t \in Shareds \ {s} : shared'[t] = shared[t]
    BY <1>4, <2>4
  <2>10. QED
    BY <1>5, <1>6, <1>8, <2>4, <2>5, <2>6, <2>7, <2>8, <2>9, EnteredServed
<1>10. CASE loader.state # "loaded"
  <2>1. PICK entry : entry = [s |-> s, epoch |-> joined[s].epoch]
    OBVIOUS
  <2>2. /\ shared' = joined /\ UNCHANGED <<client, clients>>
        /\ loader' = [state |-> "loading", waiting |-> Append(loader.waiting, entry)]
    BY <1>3, <1>10, <2>1 DEF Attach
  <2>3. Linked(clients', client') /\ Lasts
    BY <1>2, <2>2 DEF Lasts
  <2>4. LoadInv'
    BY <2>2 DEF LoadInv
  <2>5. Members(loader'.waiting) = Members(loader.waiting) \cup {entry}
    <3>1. PICK Pairs : Pairs = [s : Shareds, epoch : Nat]
      OBVIOUS
    <3>2. loader.waiting \in Seq(Pairs) /\ entry \in Pairs
      <4>1. joined[s].epoch \in Nat
        <5>1. joined[s] \in Objects
          BY <1>4
        <5>2. QED
          BY <5>1 DEF Objects
      <4>2. QED
        BY <1>1, <2>1, <3>1, <4>1 DEF TypeOK, Loaders
    <3>3. loader'.waiting = Append(loader.waiting, entry)
      BY <2>2
    <3>4. Members(Append(loader.waiting, entry)) = Members(loader.waiting) \cup {entry}
      BY <3>2, MembersAppend
    <3>5. QED
      BY <3>3, <3>4
  <2>6. ASSUME NEW t \in Shareds \ {s} PROVE AttachmentDue(t) => AttachmentDue(t)'
    BY <1>4, <1>7, <2>2, <2>5, DueStays
  <2>7. ~auth => Kind(s)' = "public"
    BY <1>4, <2>2 DEF Unauthorized, Kind, KindOf
  <2>8. AttachmentDue(s)'
    <3>1. entry \in Members(loader'.waiting) /\ entry = [s |-> s, epoch |-> shared'[s].epoch]
      BY <2>1, <2>2, <2>5
    <3>2. QED
      BY <3>1 DEF AttachmentDue, Members
  <2>9. Holding(s)' \subseteq shared'[s].handlers /\ shared'[s].handlers # {}
    BY <1>4, <1>6, <2>2
  <2>10. QED
    BY <1>4, <1>5, <1>6, <1>8, <2>2, <2>3, <2>4, <2>6, <2>7, <2>8, <2>9, EnteredServed
<1>11. QED
  BY <1>9, <1>10

\* A subscribe without authentication leaves the tables as they are, or keeps a channel
\* that was about to be torn down.
LEMMA RefusedHolding ==
    ASSUME TypeOK, NEW c \in Consumers, Refuse(c), consumer[c].s = NoShared
    PROVE  /\ UNCHANGED <<shared, client, clients, loader>> /\ Members(micro) \subseteq Members(micro')
           /\ \A t \in Shareds : Holding(t)' = Holding(t)
<1>1. consumer \in [Consumers -> Closures] /\ NoShared \notin Shareds /\ micro \in Seq(Jobs)
  BY RealtimeAssumption DEF TypeOK
<1>2. /\ UNCHANGED <<shared, client, clients, loader>>
      /\ consumer' = [consumer EXCEPT ![c] = [consumer[c] EXCEPT !.closed = TRUE]]
  BY DEF Refuse
<1>3. PICK job \in Jobs : job = [do |-> "report", c |-> c]
  BY DEF Jobs
<1>4. Members(micro') = Members(micro) \cup {job}
  BY <1>1, <1>3, MembersAppend DEF Refuse, Later
<1>5. consumer'[c].s = NoShared /\ \A d \in Consumers \ {c} : consumer'[d] = consumer[d]
  <2>1. consumer[c] \in Closures
    BY <1>1
  <2>2. QED
    BY <1>1, <1>2, <2>1 DEF Closures
<1>6. \A t \in Shareds : Holding(t)' = Holding(t)
  BY <1>1, <1>5 DEF Holding
<1>7. QED
  BY <1>2, <1>4, <1>6

LEMMA ServedRefuse ==
    ASSUME ServedInv, CallsInv', NEW c \in Consumers, Refuse(c), consumer[c].s = NoShared,
           UNCHANGED <<sharedSubs, pendingTeardowns, auth, authChanges>>
    PROVE  ServedInv'
<1>1. TypeOK
  BY DEF ServedInv, CallsInv, AttachInv
<1>2. /\ UNCHANGED <<shared, client, clients, loader>> /\ Members(micro) \subseteq Members(micro')
      /\ \A t \in Shareds : Holding(t)' = Holding(t)
  BY <1>1, RefusedHolding
<1>3. ASSUME NEW t PROVE /\ InTable(t)' = InTable(t) /\ Kind(t)' = Kind(t) /\ Barred(t)' = Barred(t)
                         /\ AttachmentDue(t) => AttachmentDue(t)'
  BY <1>2, DueStays DEF InTable, Kind, Barred
<1>4. LinksInv'
  BY <1>2, <1>3 DEF ServedInv, LinksInv
<1>5. HoldersInv' /\ GuestsInv'
  BY <1>2, <1>3 DEF ServedInv, HoldersInv, GuestsInv
<1>6. TeardownsInv' /\ LoadInv'
  BY <1>2 DEF ServedInv, TeardownsInv, LoadInv, Teardown
<1>7. DueInv'
  BY <1>2, <1>3 DEF ServedInv, DueInv
<1>8. QED
  BY <1>4, <1>5, <1>6, <1>7 DEF ServedInv

LEMMA ServedRevived ==
    ASSUME ServedInv, CallsInv', NEW c \in Consumers, NEW ch \in Channels, NEW s \in Shareds, Refuse(c),
           consumer[c].s = NoShared, Finds(ch, s), Enters(ch, s), shared[s].epoch > 0,
           shared[s].sub = "none", Unauthorized(ch), UNCHANGED <<auth, authChanges>>
    PROVE  ServedInv'
<1>1. TypeOK /\ TablesInv /\ ClientsInv /\ LinksInv /\ GuestsInv /\ shared[s].channel = ch
  BY DEF ServedInv, CallsInv, AttachInv, Finds
<1>2. /\ UNCHANGED <<shared, client, clients, loader>> /\ Members(micro) \subseteq Members(micro')
      /\ \A t \in Shareds : Holding(t)' = Holding(t)
  BY <1>1, RefusedHolding
<1>3. /\ \A t \in Shareds \ {s} : /\ InTable(t)' => InTable(t)
                                  /\ t \in Tracked(sharedSubs)' => t \in Tracked(sharedSubs)
      /\ Tracked(pendingTeardowns)' \subseteq Tracked(pendingTeardowns) /\ InTable(s)
  BY <1>1, Entered
<1>4. Linked(clients', client') /\ Lasts
  BY <1>1, <1>2, LinkedNow DEF Lasts
<1>5. TeardownsInv' /\ LoadInv'
  BY <1>2, <1>3 DEF ServedInv, TeardownsInv, LoadInv, Teardown
<1>6. ASSUME NEW t PROVE AttachmentDue(t) => AttachmentDue(t)'
  BY <1>2, DueStays
<1>7. Kind(s) = "private" /\ ~auth /\ Kind(s)' = Kind(s)
  BY <1>1, <1>2 DEF Unauthorized, Kind, KindOf
<1>8. authChanges > 0 /\ authChanges' = authChanges
  <2>1. authChanges # 0
    BY <1>1, <1>3, <1>7 DEF GuestsInv
  <2>2. QED
    BY <1>1, <2>1 DEF TypeOK
<1>9. Barred(s)'
  BY <1>7, <1>8 DEF Barred
<1>10. shared'[s].sub = "none" /\ shared'[s].client = 0 /\ Holding(s)' \subseteq shared'[s].handlers
  BY <1>1, <1>2, <1>3 DEF LinksInv, ServedInv, HoldersInv
<1>11. authChanges # 0
  BY <1>8
<1>12. \A t \in Shareds \ {s} : /\ shared'[t] = shared[t] /\ Holding(t)' \subseteq Holding(t)
                                /\ InTable(t)' => InTable(t)
                                /\ t \in Tracked(sharedSubs)' => t \in Tracked(sharedSubs)
                                /\ AttachmentDue(t) => AttachmentDue(t)'
  BY <1>2, <1>3, <1>6
<1>13. QED
  BY <1>4, <1>5, <1>9, <1>10, <1>11, <1>12, EnteredServed

LEMMA ServedSubscribe ==
    ASSUME ServedInv, CallsInv', NEW c \in Consumers, NEW ch \in Channels, Subscribe(c, ch)
    PROVE  ServedInv'
<1>1. /\ TypeOK /\ AttachInv /\ TablesInv /\ LinksInv /\ HoldersInv /\ NoShared \notin Shareds
      /\ shared \in [Shareds -> Objects]
      /\ sharedSubs \in [Channels -> Shareds \cup {NoShared}]
      /\ pendingTeardowns \in [Channels -> Shareds \cup {NoShared}]
      /\ consumer[c].s = NoShared /\ ~consumer[c].closed /\ UNCHANGED <<auth, authChanges>>
  BY RealtimeAssumption DEF ServedInv, CallsInv, AttachInv, TypeOK, Subscribe
<1>2. CASE SubscribeExisting(c, ch)
  <2>1. PICK s \in Shareds : s = sharedSubs[ch]
    BY <1>1, <1>2 DEF SubscribeExisting
  <2>2. Share(c, s, shared) /\ Holds(c, s) /\ UNCHANGED <<sharedSubs, pendingTeardowns>>
    BY <1>2, <2>1 DEF SubscribeExisting, tables
  <2>3. Finds(ch, s) /\ shared[s].epoch > 0 /\ pendingTeardowns[ch] = NoShared
    BY <1>1, <2>1 DEF TablesInv, Finds
  <2>4. Enters(ch, s) /\ s \in Tracked(sharedSubs)
    BY <1>1, <2>1, <2>2, <2>3 DEF Enters, Tracked
  <2>5. QED
    BY <1>1, <2>2, <2>3, <2>4, ServedShare
<1>3. CASE Revive(c, ch)
  <2>1. PICK s \in Shareds : s = pendingTeardowns[ch] /\ sharedSubs[ch] = NoShared
    BY <1>1, <1>3 DEF Revive
  <2>2. Enters(ch, s)
    BY <1>3, <2>1 DEF Revive, Enters
  <2>3. Finds(ch, s) /\ shared[s].epoch > 0 /\ shared[s].channel = ch
    BY <1>1, <2>1 DEF TablesInv, Finds
  <2>4. CASE shared[s].sub # "none" /\ Share(c, s, Resumed(s)) /\ Holds(c, s)
    BY <1>1, <2>2, <2>3, <2>4, ServedShare
  <2>5. CASE shared[s].sub = "none" /\ Unauthorized(ch) /\ Refuse(c)
    BY <1>1, <2>2, <2>3, <2>5, ServedRevived
  <2>6. CASE shared[s].sub = "none" /\ ~Unauthorized(ch) /\ Attach(c, s, shared) /\ Holds(c, s)
    <3>1. shared[s].client = 0 /\ Holding(s) \subseteq shared[s].handlers
      BY <1>1, <2>2, <2>3, <2>6, Entered DEF LinksInv, HoldersInv
    <3>2. QED
      BY <1>1, <2>2, <2>3, <2>6, <3>1, ServedAttaching
  <2>7. QED
    BY <1>3, <2>1, <2>4, <2>5, <2>6 DEF Revive
<1>4. CASE SubscribeNew(c, ch)
  <2>1. sharedSubs[ch] = NoShared /\ pendingTeardowns[ch] = NoShared /\ pendingTeardowns' = pendingTeardowns
    BY <1>4 DEF SubscribeNew
  <2>2. CASE Refuse(c) /\ UNCHANGED sharedSubs
    BY <1>1, <2>1, <2>2, ServedRefuse
  <2>3. ASSUME NEW s \in Shareds, shared[s].epoch = 0, sharedSubs' = [sharedSubs EXCEPT ![ch] = s],
               Attach(c, s, [shared EXCEPT ![s] = NewShared(ch)]), Holds(c, s), ~Unauthorized(ch)
        PROVE  ServedInv'
    <3>1. PICK sh : sh = [shared EXCEPT ![s] = NewShared(ch)]
      OBVIOUS
    <3>2. sh \in [Shareds -> Objects] /\ sh[s] = NewShared(ch) /\ \A t \in Shareds \ {s} : sh[t] = shared[t]
      BY <1>1, <3>1, NewSharedTypes
    <3>3. Holding(s) = {}
      <4>1. \A d \in Consumers : consumer[d].s # s
        BY <1>1, <2>3 DEF AttachInv, CountInv
      <4>2. QED
        BY <4>1 DEF Holding
    <3>4. Finds(ch, s) /\ Enters(ch, s)
      BY <1>1, <2>1, <2>3 DEF Finds, Enters
    <3>5. sh[s].sub = "none" /\ sh[s].channel = ch /\ sh[s].client = 0 /\ Holding(s) \subseteq sh[s].handlers
      BY <3>2, <3>3 DEF NewShared
    <3>6. QED
      BY <1>1, <2>3, <3>1, <3>2, <3>4, <3>5, ServedAttaching
  <2>4. QED
    BY <1>4, <2>2, <2>3 DEF SubscribeNew
<1>5. QED
  BY <1>2, <1>3, <1>4 DEF Subscribe

LEMMA StepServed == ServedInv /\ [Next]_vars => ServedInv'
<1> SUFFICES ASSUME ServedInv, [Next]_vars PROVE ServedInv'
  OBVIOUS
<1>1. CallsInv'
  BY StepCalls DEF ServedInv
<1>2. CASE Next
  <2>1. CASE App
    BY <1>1, <2>1, ServedDispose, ServedSubscribe, ServedDisconnect DEF App
  <2>2. CASE Events
    BY <1>1, <2>2, ServedLoader, ServedAuth, ServedEvents, ServedEnds DEF Events
  <2>3. QED
    BY <1>1, <1>2, <2>1, <2>2, ServedProceed, ServedRunMicrotask DEF Next
<1>3. CASE UNCHANGED vars
  <2>1. /\ UNCHANGED <<sharedSubs, pendingTeardowns, shared, client, consumer, loader, micro,
                       auth, clients, authChanges>> /\ TypeOK
    BY <1>3 DEF vars, tables, ServedInv, CallsInv, AttachInv
  <2>2. Calm
    BY <2>1, SameGoesOn, QuietCalm DEF tables
  <2>3. QED
    BY <1>1, <2>1, <2>2, SameGoesOn, SameFade, GrowJobs, QuietServed
<1>4. QED
  BY <1>2, <1>3

\* Between the tasks of the event loop, with authentication, every tracked channel is
\* attached to the current client of its kind, or awaits Centrifuge exactly once
\* (#attachSubscriptionWhenLoaded, disposers, disconnect() and terminations in any
\* order), as long as authentication has changed once at most.
THEOREM AlwaysAttachedHolds == Spec => [](authChanges <= 1 => AlwaysAttached)
<1>1. ServedInv => (authChanges <= 1 => AlwaysAttached)
  <2> SUFFICES ASSUME ServedInv, authChanges <= 1, Idle, auth, NEW s \in Tracked(sharedSubs)
               PROVE  IsAttached(s)
    BY DEF AlwaysAttached
  <2>1. TypeOK /\ LinksInv /\ LoadInv /\ EntriesInv /\ s \in Shareds /\ InTable(s) /\ micro = <<>>
    BY DEF ServedInv, CallsInv, AttachInv, TypeOK, Tracked, InTable, Idle
  <2>2. AttachmentDue(s)
    BY DEF ServedInv, DueInv, Barred
  <2>3. CASE shared[s].sub # "none"
    BY <2>1, <2>3 DEF LinksInv, IsAttached
  <2>4. CASE shared[s].sub = "none"
    <3>1. PICK i \in DOMAIN loader.waiting : loader.waiting[i] = [s |-> s, epoch |-> shared[s].epoch]
      BY <2>1, <2>2, <2>4 DEF AttachmentDue
    <3>2. loader.state = "loading"
      BY <2>1, <3>1 DEF LoadInv
    <3>3. {j \in DOMAIN loader.waiting : loader.waiting[j] = [s |-> s, epoch |-> shared[s].epoch]} = {i}
      BY <2>1, <3>1 DEF EntriesInv, Same
    <3>4. AwaitsLoader(s)
      BY <3>3, FS_Singleton DEF AwaitsLoader
    <3>5. QED
      BY <2>4, <3>2, <3>4 DEF IsAttached
  <2>5. QED
    BY <2>3, <2>4
<1>2. QED
  BY InitServed, StepServed, <1>1, PTL DEF Spec

\* An open connection is always one that the client knows and can close; and between
\* tasks no channel is subscribed that no consumer holds (disposers and their
\* microtasks, #disconnectClientIfIdle), as long as authentication has changed once at most.
THEOREM NothingLeaksHolds == Spec => [](authChanges <= 1 => NothingLeaks)
<1>1. ServedInv => (authChanges <= 1 => NothingLeaks)
  <2> SUFFICES ASSUME ServedInv, authChanges <= 1 PROVE NothingLeaks
    OBVIOUS
  <2>1. /\ TypeOK /\ TablesInv /\ ClientsInv /\ LinksInv /\ TeardownsInv /\ DueInv
        /\ clients \in Seq(ClientRecords)
    BY DEF ServedInv, CallsInv, AttachInv, TypeOK, ClientRecords
  <2>2. ASSUME Idle, NEW s \in Shareds, IsLive(s) PROVE IsTracked(s) /\ shared[s].handlers # {}
    <3>1. /\ shared[s].sub # "none" /\ clients[shared[s].client].state # "disconnected"
          /\ shared[s].client \in DOMAIN clients /\ shared[s].channel \in Channels
      BY <2>1, <2>2, SharedFields DEF IsLive, ClientsInv
    <3>2. shared[s].client = client[Kind(s)]
      BY <2>1, <3>1 DEF LinksInv
    <3>3. InTable(s)
      BY <2>1, <3>1, <3>2, TableFields DEF ClientsInv
    <3>4. Tracked(pendingTeardowns) = {}
      BY <2>1, <2>2, MembersFew DEF Idle, TeardownsInv
    <3>5. s \in Tracked(sharedSubs)
      BY <3>3, <3>4 DEF InTable
    <3>6. IsTracked(s)
      BY <2>1, <3>5, TableFields
    <3>7. QED
      BY <2>1, <3>1, <3>5, <3>6 DEF DueInv
  <2>3. QED
    BY <2>1, <2>2 DEF NothingLeaks, LinksInv
<1>2. QED
  BY InitServed, StepServed, <1>1, PTL DEF Spec

\* Of those two the first holds however often authentication changes: an open connection
\* is the current client of its kind (#ensureClientForChannel, #disconnectClient).
THEOREM OpenIsKnown ==
    Spec => [](\A n \in DOMAIN clients : clients[n].state # "disconnected" => client[clients[n].kind] = n)
<1>1. ServedInv => \A n \in DOMAIN clients : clients[n].state # "disconnected" => client[clients[n].kind] = n
  BY DEF ServedInv, LinksInv
<1>2. QED
  BY InitServed, StepServed, <1>1, PTL DEF Spec
=================================================================================
