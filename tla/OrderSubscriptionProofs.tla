----------------------- MODULE OrderSubscriptionProofs -----------------------
(* Proofs about OrderSubscription, for all subscriptions, account          *)
(* histories, catalogs and bounds.                                         *)
EXTENDS OrderSubscriptionProperties, SequenceTheorems, TLAPS

-----------------------------------------------------------------------------
(* The inductive invariant.                                                *)

\* A publication that goes on from a view at position n.
Follows(p, n) == \/ p.type = "snapshot" /\ n <= p.pos
                 \/ p.type = "unit" /\ n = p.pos - 1

\* Publications that go on from position n, and from one another, up to m.
Chain(q, n, m) == \A i \in 1 .. Len(q) :
                     /\ q[i].pos <= m
                     /\ Follows(q[i], IF i = 1 THEN n ELSE q[i - 1].pos)

\* A gate and its subscription.
GateOf(s) ==
    /\ sub[s].gate.state = "closed" <=> Ended(s)
    /\ sub[s].gate.state # "pending" => sub[s].gate.queue = <<>>
    /\ sub[s].state = "unused" => sub[s] = Unused /\ consumer[s] = Untold /\ stream[s] = Stream
    /\ sub[s].epoch <= epoch
    /\ flushing.s = s => sub[s].gate.state # "pending"
    /\ sub[s].gate.state = "open" \/ sub[s].ready = "resolved" \/ flushing.s = s => HasSnapshot(cat)
GateInv == \A s \in Subs : GateOf(s)

\* Nothing overtakes, repeats or goes missing between the stream and the consumer.
OrderOf(s) ==
    /\ consumer[s].at <= log /\ stream[s].pos <= log
    /\ Chain(Waiting(s), consumer[s].at, log)
    /\ ~Ended(s) => stream[s].pos = EndOf(Waiting(s), consumer[s].at)
OrderInv == \A s \in Subs : OrderOf(s)

\* What `live` and an untouched view are.
LiveOf(s) ==
    /\ consumer[s].at = NoCursor => sub[s].live = {} /\ consumer[s].view = EmptyView
    /\ consumer[s].at # NoCursor => sub[s].live = Ids(consumer[s].at)
LiveInv == \A s \in Subs : LiveOf(s)

-----------------------------------------------------------------------------
(* The account's history.                                                  *)

LEMMA HistoryTypes ==
    /\ Len(Units) \in Nat
    /\ \A n \in 1 .. Len(Units) : Units[n].put \subseteq OrderIds /\ Units[n].removed \subseteq OrderIds
<1>1. Len(Units) \in Nat
  BY UnitsAssumption
<1>2. ASSUME NEW n \in 1 .. Len(Units)
      PROVE  Units[n].put \subseteq OrderIds /\ Units[n].removed \subseteq OrderIds
  <2>1. Units[n] \in [put : SUBSET OrderIds, removed : SUBSET OrderIds]
    BY UnitsAssumption, ElementOfSeq
  <2>2. QED
    BY <2>1
<1>3. QED
  BY <1>1, <1>2

LEMMA ViewTypes ==
    ASSUME NEW n \in Positions
    PROVE  ViewAt(n) \in Views /\ Ids(n) \subseteq OrderIds
  BY DEF ViewAt, Views, Ids

-----------------------------------------------------------------------------
(* Types of the shared steps.                                              *)

LEMMA RecordTypes ==
    ASSUME NEW r \in Closures
    PROVE  /\ Terminated(r) \in Closures /\ Terminated(r).gate.queue = <<>>
           /\ \A x \in {"none", "due", "refresh", "resolved", "rejected", "done"} :
                 [r EXCEPT !.ready = x] \in Closures
           /\ \A x \in {"none", "loading", "loaded", "failed", "refused", "streaming", "gone"} :
                 [r EXCEPT !.link = x] \in Closures
           /\ Left(r.link) \in {"none", "loading", "loaded", "failed", "refused", "streaming", "gone"}
<1>1. Shut(r.gate) \in Gates /\ Shut(r.gate).queue = <<>>
  BY DEF Shut, Gates
<1>2. Left(r.link) \in {"none", "loading", "loaded", "failed", "refused", "streaming", "gone"}
  BY DEF Left, Closures
<1>3. Terminated(r) \in Closures /\ Terminated(r).gate = Shut(r.gate)
  BY <1>1, <1>2 DEF Closures, Terminated
<1>4. /\ \A x \in {"none", "due", "refresh", "resolved", "rejected", "done"} :
            [r EXCEPT !.ready = x] \in Closures
      /\ \A x \in {"none", "loading", "loaded", "failed", "refused", "streaming", "gone"} :
            [r EXCEPT !.link = x] \in Closures
  BY DEF Closures
<1>5. QED
  BY <1>1, <1>2, <1>3, <1>4

LEMMA EmptyFits == Len(<<>>) <= MaxPending
  BY GateAssumption

LEMMA LeavingTypes ==
    ASSUME NEW r \in Closures
    PROVE  /\ [r EXCEPT !.link = Left(@)] \in Closures
           /\ [r EXCEPT !.link = Left(@)].gate = r.gate
           /\ [r EXCEPT !.state = "disposed", !.gate = Shut(@), !.link = Left(@)] \in Closures
           /\ [r EXCEPT !.state = "disposed", !.gate = Shut(@), !.link = Left(@)].gate = Shut(r.gate)
           /\ Shut(r.gate).queue = <<>>
<1>1. Left(r.link) \in {"none", "loading", "loaded", "failed", "refused", "streaming", "gone"}
  BY RecordTypes
<1>2. Shut(r.gate) \in Gates /\ Shut(r.gate).queue = <<>>
  BY DEF Shut, Gates
<1>3. QED
  BY <1>1, <1>2 DEF Closures

LEMMA DeliverTypes ==
    ASSUME SubTypes, ConsumerTypes, NEW s \in Subs, NEW r \in Closures,
           Len(r.gate.queue) <= MaxPending, NEW p \in Publication, Deliver(s, r, p)
    PROVE  SubTypes' /\ ConsumerTypes'
<1>1. p.pos \in Positions /\ (p.type # "snapshot" => p.pos \in 1 .. Len(Units))
  BY HistoryTypes DEF Publication, Positions
<1>2. LiveAfter(r.live, p) \subseteq OrderIds
  BY <1>1, HistoryTypes DEF LiveAfter, Ids, Closures
<1>3. [r EXCEPT !.live = LiveAfter(@, p)] \in Closures
  BY <1>2 DEF Closures
<1>4. SubTypes'
  <2>1. sub' = [sub EXCEPT ![s] = [r EXCEPT !.live = LiveAfter(@, p)]]
    BY DEF Deliver
  <2>2. [r EXCEPT !.live = LiveAfter(@, p)].gate = r.gate
    BY DEF Closures
  <2>3. QED
    BY <1>3, <2>1, <2>2 DEF SubTypes
<1>5. ViewAfter(s, p) \in Views
  <2>1. \A o \in OrderIds : Version(p, o) \in SUBSET Nat
    <3>1. p.pos \in Nat
      BY <1>1, HistoryTypes DEF Positions
    <3>2. QED
      BY <1>1, <3>1, ViewTypes DEF Version, Views
  <2>2. \A o \in OrderIds : consumer[s].view[o] \in SUBSET Nat
    BY DEF ConsumerTypes, Hearers, Views
  <2>3. QED
    BY <2>1, <2>2 DEF ViewAfter, Views
<1>6. ConsumerTypes'
  <2>1. consumer' = [consumer EXCEPT ![s] = [consumer[s] EXCEPT !.view = ViewAfter(s, p), !.at = p.pos]]
    BY DEF Deliver, ConsumerTypes
  <2>2. [consumer[s] EXCEPT !.view = ViewAfter(s, p), !.at = p.pos] \in Hearers
    BY <1>1, <1>5 DEF ConsumerTypes, Hearers, Cursors
  <2>3. QED
    BY <2>1, <2>2 DEF ConsumerTypes
<1>7. QED
  BY <1>4, <1>6

LEMMA TellTypes ==
    ASSUME ConsumerTypes, NEW s \in Subs,
           \/ \E state \in {"connected", "disconnected"} : Tell(s, state)
           \/ \E e \in Errors : Report(s, e) \/ ReportAndClose(s, e)
    PROVE  ConsumerTypes'
<1>1. ASSUME NEW state \in {"connected", "disconnected"} PROVE [consumer[s] EXCEPT !.state = state] \in Hearers
  BY DEF ConsumerTypes, Hearers
<1>2. ASSUME NEW e \in Errors
      PROVE  /\ [consumer[s] EXCEPT !.errors = @ \cup {e}] \in Hearers
             /\ [consumer[s] EXCEPT !.errors = @ \cup {e}, !.state = "disconnected"] \in Hearers
  BY DEF ConsumerTypes, Hearers
<1>3. CASE \E state \in {"connected", "disconnected"} : Tell(s, state)
  BY <1>1, <1>3 DEF Tell, ConsumerTypes
<1>4. ASSUME NEW e \in Errors, Report(s, e) \/ ReportAndClose(s, e) PROVE ConsumerTypes'
  BY <1>2, <1>4 DEF Report, ReportAndClose, ConsumerTypes
<1>5. QED
  BY <1>3, <1>4

\* One subscription's closures are replaced by others of the type.
LEMMA SubTypesStep ==
    ASSUME SubTypes, NEW s \in Subs, NEW r \in Closures, Len(r.gate.queue) <= MaxPending,
           sub' = [sub EXCEPT ![s] = r]
    PROVE  SubTypes'
  BY DEF SubTypes

LEMMA FlushStep ==
    ASSUME NEW s \in Subs, NEW left \in Seq(Publication), Flush(s, left)
    PROVE  FlushTypes'
  BY DEF Flush, FlushTypes, Rest

LEMMA NewTypes ==
    ASSUME TypeOK
    PROVE  /\ Unused \in Closures /\ Unused.gate.queue = <<>>
           /\ \A link \in {"none", "loading", "loaded", "failed", "refused", "streaming", "gone"} :
                 Subscribed(link) \in Closures /\ Subscribed(link).gate.queue = <<>>
<1>1. NewGate \in Gates /\ NewGate.queue = <<>>
  BY DEF NewGate, Gates
<1>2. Unused \in Closures /\ Unused.gate = NewGate
  BY <1>1 DEF Unused, Closures
<1>3. ASSUME NEW link \in {"none", "loading", "loaded", "failed", "refused", "streaming", "gone"}
      PROVE  Subscribed(link) \in Closures /\ Subscribed(link).gate = NewGate
  BY <1>2 DEF Subscribed, Closures, TypeOK, ClientTypes
<1>4. QED
  BY <1>1, <1>2, <1>3

LEMMA CatalogTypes ==
    ASSUME NEW c \in Catalogs, NEW listing \in Listings
    PROVE  /\ SetSnapshot(c, listing) \in Catalogs /\ RefreshSucceeded(c, listing) \in Catalogs
           /\ HasSnapshot(SetSnapshot(c, listing)) /\ HasSnapshot(RefreshSucceeded(c, listing))
  BY DEF Catalogs, SetSnapshot, RefreshSucceeded, HasSnapshot

LEMMA CatalogKeeps ==
    ASSUME NEW c \in Catalogs
    PROVE  /\ Refreshing(c) \in Catalogs /\ RefreshFailed(c) \in Catalogs /\ Ensured(c) \in Catalogs
           /\ Awaited(c) \in {"resolved", "refresh"}
           /\ HasSnapshot(c) => HasSnapshot(Refreshing(c)) /\ HasSnapshot(RefreshFailed(c)) /\ HasSnapshot(Ensured(c))
           /\ Awaited(c) = "resolved" => HasSnapshot(Ensured(c))
  BY DEF Catalogs, Refreshing, RefreshFailed, Ensured, Awaited, HasSnapshot

-----------------------------------------------------------------------------
(* Types.                                                                  *)

LEMMA AppTypes ==
    ASSUME TypeOK, App
    PROVE  TypeOK'
<1>1. SubTypes /\ ConsumerTypes /\ StreamTypes /\ FlushTypes /\ ClientTypes
  BY DEF TypeOK
<1>2. UNCHANGED <<flushing, consumer, stream, log>>
  BY DEF App, Subscribe, Unsubscribe, Logout, Login, CallCatalog
<1>3. ConsumerTypes' /\ StreamTypes' /\ FlushTypes'
  BY <1>1, <1>2 DEF ConsumerTypes, StreamTypes, FlushTypes
<1>4. ASSUME NEW s \in Subs, Subscribe(s) PROVE SubTypes' /\ ClientTypes'
  <2>1. ClientTypes'
    BY <1>1, <1>4 DEF Subscribe, ClientTypes
  <2>2. loader' \in {"absent", "loading", "loaded", "failed"} \ {"absent"} \/ ~auth \/ loader = "loaded"
    BY <1>1, <1>4 DEF Subscribe, ClientTypes
  <2>3. CASE \E link \in {"streaming", "refused", "loading", "failed", "loaded"} :
               sub' = [sub EXCEPT ![s] = Subscribed(link)]
    <3>1. PICK link \in {"streaming", "refused", "loading", "failed", "loaded"} :
             sub' = [sub EXCEPT ![s] = Subscribed(link)]
      BY <2>3
    <3>2. Subscribed(link) \in Closures /\ Len(Subscribed(link).gate.queue) <= MaxPending
      BY NewTypes, GateAssumption
    <3>3. SubTypes'
      BY <1>1, <3>1, <3>2, SubTypesStep
    <3>4. QED
      BY <2>1, <3>3
  <2>4. CASE sub' = [sub EXCEPT ![s] = [Subscribed("gone") EXCEPT !.state = "disposed", !.gate = Shut(@)]]
    <3> DEFINE r == [Subscribed("gone") EXCEPT !.state = "disposed", !.gate = Shut(@)]
    <3>1. Subscribed("gone") \in Closures
      BY NewTypes
    <3>2. Shut(Subscribed("gone").gate) \in Gates /\ Shut(Subscribed("gone").gate).queue = <<>>
      BY DEF Shut, Gates
    <3>3. r \in Closures /\ r.gate.queue = <<>>
      BY <3>1, <3>2 DEF Closures
    <3>4. sub' = [sub EXCEPT ![s] = r]
      BY <2>4
    <3> HIDE DEF r
    <3>5. SubTypes'
      BY <1>1, <3>3, <3>4, SubTypesStep, EmptyFits
    <3>6. QED
      BY <2>1, <3>5
  <2>5. QED
    BY <1>4, <2>2, <2>3, <2>4 DEF Subscribe
<1>5. ASSUME NEW s \in Subs, Unsubscribe(s) PROVE SubTypes' /\ ClientTypes'
  <2> DEFINE r == [sub[s] EXCEPT !.state = "disposed", !.gate = Shut(@), !.link = Left(@)]
  <2>1. sub[s] \in Closures
    BY <1>1 DEF SubTypes
  <2>2. r \in Closures /\ r.gate.queue = <<>>
    BY <2>1, LeavingTypes
  <2>3. sub' = [sub EXCEPT ![s] = r]
    BY <1>1, <1>5 DEF Unsubscribe, SubTypes
  <2> HIDE DEF r
  <2>4. SubTypes'
    BY <1>1, <2>2, <2>3, SubTypesStep, EmptyFits
  <2>5. QED
    BY <1>1, <1>5, <2>4 DEF Unsubscribe, ClientTypes
<1>6. CASE Logout
  <2>1. ASSUME NEW s \in Subs
        PROVE  /\ [sub[s] EXCEPT !.link = Left(@)] \in Closures
               /\ [sub[s] EXCEPT !.link = Left(@)].gate = sub[s].gate
    BY <1>1, LeavingTypes DEF SubTypes
  <2>2. SubTypes'
    BY <1>1, <1>6, <2>1 DEF Logout, SubTypes
  <2>3. ClientTypes'
    <3>1. epoch' \in Nat /\ calls' \in Nat /\ auth' = FALSE /\ UNCHANGED <<cat, loader, faults>>
      BY <1>1, <1>6 DEF Logout, Call, ClientTypes
    <3>2. QED
      BY <1>1, <3>1 DEF ClientTypes
  <2>4. QED
    BY <1>3, <2>2, <2>3 DEF TypeOK
<1>7. CASE Login
  BY <1>1, <1>3, <1>7 DEF Login, ClientTypes, SubTypes, TypeOK
<1>8. CASE CallCatalog
  BY <1>1, <1>3, <1>8, CatalogTypes, CatalogKeeps DEF CallCatalog, Call, ClientTypes, SubTypes, TypeOK
<1>9. QED
  BY <1>3, <1>4, <1>5, <1>6, <1>7, <1>8 DEF App, TypeOK

LEMMA EventTypes ==
    ASSUME TypeOK, Events
    PROVE  TypeOK'
<1>1. SubTypes /\ ConsumerTypes /\ StreamTypes /\ FlushTypes /\ ClientTypes
  BY DEF TypeOK
<1>2. StreamTypes'
  BY <1>1 DEF Events, RefreshSettles, FlushNext, ModuleLoads, ModuleFails, CallReady, GateOpens, GateFails,
              JoinStream, HearOfFailure, HearOfRefusal, StreamTypes
<1>3. \A s \in Subs : sub[s] \in Closures /\ Len(sub[s].gate.queue) <= MaxPending
  BY <1>1 DEF SubTypes
<1>4. ASSUME NEW s \in Subs, CallReady(s) PROVE TypeOK'
  <2>1. Awaited(cat) \in {"resolved", "refresh"} /\ Ensured(cat) \in Catalogs
    BY <1>1, CatalogKeeps DEF ClientTypes
  <2>2. SubTypes'
    <3> DEFINE r == [sub[s] EXCEPT !.ready = Awaited(cat)]
    <3>1. r \in Closures /\ r.gate = sub[s].gate
      BY <1>3, <2>1 DEF Closures
    <3>2. sub' = [sub EXCEPT ![s] = r]
      BY <1>1, <1>4 DEF CallReady, SubTypes
    <3> HIDE DEF r
    <3>3. QED
      BY <1>1, <1>3, <3>1, <3>2, SubTypesStep
  <2>3. QED
    BY <1>1, <1>2, <1>4, <2>1, <2>2 DEF CallReady, TypeOK, ConsumerTypes, FlushTypes, ClientTypes
<1>5. CASE RefreshSettles
  <2>1. /\ cat' \in Catalogs /\ faults' \in Nat
        /\ UNCHANGED <<loader, epoch, auth, flushing, consumer, calls>>
    BY <1>1, <1>5, CatalogTypes, CatalogKeeps DEF RefreshSettles, Fault, ClientTypes
  <2>2. PICK outcome \in {"resolved", "rejected"} :
           sub' = [s \in Subs |-> IF sub[s].ready = "refresh"
                                  THEN [sub[s] EXCEPT !.ready = outcome] ELSE sub[s]]
    BY <1>5 DEF RefreshSettles
  <2>3. ASSUME NEW s \in Subs
        PROVE  sub'[s] \in Closures /\ sub'[s].gate = sub[s].gate
    BY <1>3, <2>2, <2>3 DEF Closures
  <2>4. SubTypes'
    BY <1>3, <2>2, <2>3 DEF SubTypes
  <2>5. QED
    BY <1>1, <1>2, <2>1, <2>4 DEF TypeOK, ConsumerTypes, FlushTypes, ClientTypes
<1>6. ASSUME NEW s \in Subs, GateOpens(s) PROVE TypeOK'
  <2> DEFINE open == [sub[s] EXCEPT !.ready = "done", !.gate = Opened(@)]
             done == [sub[s] EXCEPT !.ready = "done"]
             q    == sub[s].gate.queue
  <2>1. /\ Opened(sub[s].gate) \in Gates /\ Opened(sub[s].gate).queue = <<>>
        /\ open \in Closures /\ open.gate = Opened(sub[s].gate)
        /\ done \in Closures /\ done.gate = sub[s].gate
        /\ q \in Seq(Publication)
    <3>1. Opened(sub[s].gate) \in Gates /\ Opened(sub[s].gate).queue = <<>>
      BY DEF Opened, Gates
    <3>2. QED
      BY <1>3, <3>1 DEF Closures, Gates
  <2>2. UNCHANGED <<cat, loader, epoch, auth, faults, calls>>
    BY <1>6 DEF GateOpens
  <2>3. CASE UNCHANGED <<consumer, flushing>> /\ sub' \in {[sub EXCEPT ![s] = open], [sub EXCEPT ![s] = done]}
    <3> HIDE DEF open, done
    <3>1. SubTypes'
      BY <1>1, <1>3, <2>1, <2>3, SubTypesStep, EmptyFits
    <3>2. QED
      BY <1>1, <1>2, <2>2, <2>3, <3>1 DEF TypeOK, ConsumerTypes, FlushTypes, ClientTypes
  <2>4. CASE q # <<>> /\ Deliver(s, open, Head(q)) /\ Flush(s, Tail(q))
    <3>1. Head(q) \in Publication /\ Tail(q) \in Seq(Publication)
      BY <2>1, <2>4, HeadTailProperties
    <3> HIDE DEF open, q
    <3>2. SubTypes' /\ ConsumerTypes'
      BY <1>1, <2>1, <2>4, <3>1, DeliverTypes, EmptyFits
    <3>3. FlushTypes'
      BY <2>4, <3>1, FlushStep
    <3>4. QED
      BY <1>1, <1>2, <2>2, <3>2, <3>3 DEF TypeOK, ClientTypes
  <2>5. QED
    BY <1>1, <1>6, <2>3, <2>4 DEF GateOpens, SubTypes
<1>7. ASSUME NEW s \in Subs, GateFails(s) PROVE TypeOK'
  <2> DEFINE t    == [Terminated(sub[s]) EXCEPT !.ready = "done"]
             done == [sub[s] EXCEPT !.ready = "done"]
  <2>1. /\ t \in Closures /\ t.gate.queue = <<>>
        /\ done \in Closures /\ done.gate = sub[s].gate
    <3>1. Terminated(sub[s]) \in Closures /\ Terminated(sub[s]).gate.queue = <<>>
      BY <1>3, RecordTypes
    <3> HIDE DEF Terminated
    <3>2. QED
      BY <1>3, <3>1 DEF Closures
  <2>2. UNCHANGED <<cat, loader, epoch, auth, faults, calls, flushing>>
    BY <1>7 DEF GateFails
  <2>3. sub' \in {[sub EXCEPT ![s] = t], [sub EXCEPT ![s] = done]}
    BY <1>1, <1>7 DEF GateFails, SubTypes
  <2>4. SubTypes'
    <3> HIDE DEF t, done
    <3>1. QED
      BY <1>1, <1>3, <2>1, <2>3, SubTypesStep, EmptyFits
  <2>5. ConsumerTypes'
    <3>1. CASE UNCHANGED consumer
      BY <1>1, <3>1 DEF ConsumerTypes
    <3>2. CASE ReportAndClose(s, "publication_handler")
      BY <1>1, <3>2, TellTypes DEF Errors
    <3>3. QED
      BY <1>7, <3>1, <3>2 DEF GateFails
  <2>6. QED
    BY <1>1, <1>2, <2>2, <2>4, <2>5 DEF TypeOK, FlushTypes, ClientTypes
<1>8. CASE FlushNext
  <2>1. /\ flushing.s \in Subs /\ flushing.left \in Seq(Publication) /\ flushing.left # <<>>
    BY <1>1, <1>8 DEF FlushNext, Idle, FlushTypes
  <2>2. Head(flushing.left) \in Publication /\ Tail(flushing.left) \in Seq(Publication)
    BY <2>1, HeadTailProperties
  <2>3. SubTypes' /\ ConsumerTypes'
    BY <1>1, <1>3, <1>8, <2>1, <2>2, DeliverTypes DEF FlushNext
  <2>4. FlushTypes'
    BY <1>8, <2>1, <2>2, FlushStep DEF FlushNext
  <2>5. QED
    BY <1>1, <1>2, <1>8, <2>3, <2>4 DEF FlushNext, TypeOK, ClientTypes
<1>9. CASE ModuleLoads \/ ModuleFails
  <2>1. /\ loader' \in {"loaded", "failed"} /\ faults' \in Nat
        /\ UNCHANGED <<cat, epoch, auth, flushing, consumer, calls>>
    BY <1>1, <1>9 DEF ModuleLoads, ModuleFails, Fault, ClientTypes
  <2>2. PICK link \in {"loaded", "failed"} :
           sub' = [s \in Subs |-> IF sub[s].link = "loading" THEN [sub[s] EXCEPT !.link = link] ELSE sub[s]]
    BY <1>9 DEF ModuleLoads, ModuleFails
  <2>3. ASSUME NEW s \in Subs
        PROVE  sub'[s] \in Closures /\ sub'[s].gate = sub[s].gate
    BY <1>3, <2>2, <2>3 DEF Closures
  <2>4. SubTypes'
    BY <1>3, <2>2, <2>3 DEF SubTypes
  <2>5. QED
    BY <1>1, <1>2, <2>1, <2>4 DEF TypeOK, ConsumerTypes, FlushTypes, ClientTypes
<1>10. ASSUME NEW s \in Subs, JoinStream(s) \/ HearOfFailure(s) \/ HearOfRefusal(s) PROVE TypeOK'
  <2>1. PICK link \in {"streaming", "gone"} : sub' = [sub EXCEPT ![s] = [sub[s] EXCEPT !.link = link]]
    BY <1>1, <1>10 DEF JoinStream, HearOfFailure, HearOfRefusal, SubTypes
  <2>2. [sub[s] EXCEPT !.link = link] \in Closures /\ [sub[s] EXCEPT !.link = link].gate = sub[s].gate
    BY <1>3 DEF Closures
  <2>3. SubTypes'
    BY <1>1, <1>3, <2>1, <2>2, SubTypesStep
  <2>4. ConsumerTypes'
    <3>1. CASE UNCHANGED consumer
      BY <1>1, <3>1 DEF ConsumerTypes
    <3>2. CASE ReportAndClose(s, "transport_load") \/ Report(s, "auth")
      BY <1>1, <3>2, TellTypes DEF Errors
    <3>3. QED
      BY <1>10, <3>1, <3>2 DEF JoinStream, HearOfFailure, HearOfRefusal
  <2>5. loader' \in {loader, "absent"} /\ UNCHANGED <<cat, epoch, auth, flushing, faults, calls>>
    BY <1>10 DEF JoinStream, HearOfFailure, HearOfRefusal
  <2>6. QED
    BY <1>1, <1>2, <2>3, <2>4, <2>5 DEF TypeOK, FlushTypes, ClientTypes
<1>11. QED
  BY <1>4, <1>5, <1>6, <1>7, <1>8, <1>9, <1>10 DEF Events

\* What a stream may publish.
LEMMA PublishedTypes ==
    ASSUME TypeOK, NEW s \in Subs, NEW p \in Publications(s) \cup Resyncs(s)
    PROVE  p \in Publication /\ p.pos \in Positions /\ p.pos <= log /\ Follows(p, stream[s].pos)
<1>1. log \in 0 .. Len(Units) /\ stream[s].pos \in Int /\ Len(Units) \in Nat
  BY HistoryTypes DEF TypeOK, StreamTypes, Positions, Cursors, NoCursor
<1>2. CASE p.type = "snapshot"
  BY <1>1, <1>2 DEF Publications, Resyncs, Publication, Positions, Follows, NoCursor
<1>3. CASE p.type # "snapshot"
  BY <1>1, <1>3 DEF Publications, Resyncs, Publication, Positions, Follows
<1>4. QED
  BY <1>2, <1>3

\* A publication that a stream may send now goes through the gate.
LEMMA PassTypes ==
    ASSUME SubTypes, ConsumerTypes, NEW s \in Subs, NEW p \in Publication, Pass(s, p)
    PROVE  SubTypes' /\ ConsumerTypes'
<1>1. sub[s] \in Closures /\ Len(sub[s].gate.queue) <= MaxPending /\ sub[s].gate \in Gates
  BY DEF SubTypes, Closures
<1>2. CASE Deliver(s, sub[s], p)
  BY <1>1, <1>2, DeliverTypes
<1>3. CASE /\ sub' = [sub EXCEPT ![s].gate = Queued(sub[s].gate, p)]
           /\ ~IsFull(sub[s].gate) /\ UNCHANGED consumer
  <2> DEFINE g == Queued(sub[s].gate, p)
             r == [sub[s] EXCEPT !.gate = g]
  <2>1. /\ Append(sub[s].gate.queue, p) \in Seq(Publication)
        /\ Len(Append(sub[s].gate.queue, p)) = Len(sub[s].gate.queue) + 1
        /\ Len(sub[s].gate.queue) \in Nat
    BY <1>1, AppendProperties, LenProperties DEF Gates
  <2>2. g \in Gates /\ g.queue = Append(sub[s].gate.queue, p)
    BY <1>1, <2>1 DEF Queued, Gates
  <2>3. Len(g.queue) <= MaxPending
    BY <1>1, <1>3, <2>1, <2>2, GateAssumption DEF IsFull
  <2> HIDE DEF g
  <2>4. r \in Closures /\ r.gate = g
    BY <1>1, <2>2 DEF Closures
  <2>5. sub' = [sub EXCEPT ![s] = r]
    BY <1>3 DEF SubTypes, g
  <2> HIDE DEF r
  <2>6. QED
    BY <1>3, <2>3, <2>4, <2>5, SubTypesStep DEF ConsumerTypes
<1>4. CASE Terminate(s)
  <2>1. sub' = [sub EXCEPT ![s] = Terminated(sub[s])]
    BY <1>4 DEF Terminate, SubTypes
  <2>2. SubTypes'
    BY <1>1, <2>1, RecordTypes, SubTypesStep, EmptyFits
  <2>3. QED
    BY <1>4, <2>2, TellTypes DEF Terminate, Errors
<1>5. CASE UNCHANGED <<sub, consumer>>
  BY <1>5 DEF SubTypes, ConsumerTypes
<1>6. QED
  BY <1>2, <1>3, <1>4, <1>5 DEF Pass

LEMMA ExternalTypes ==
    ASSUME TypeOK, External
    PROVE  TypeOK'
<1>1. SubTypes /\ ConsumerTypes /\ StreamTypes /\ FlushTypes /\ ClientTypes
  BY DEF TypeOK
<1>2. UNCHANGED <<cat, loader, epoch, auth, flushing, calls>>
  BY DEF External, AccountMoves, StreamOpens, StreamCloses, StreamEnds, StreamPublishes, StreamResyncs
<1>3. FlushTypes'
  BY <1>1, <1>2 DEF FlushTypes
<1>4. ASSUME faults' \in Nat, SubTypes', ConsumerTypes', StreamTypes' PROVE TypeOK'
  BY <1>1, <1>2, <1>3, <1>4 DEF TypeOK, ClientTypes
<1>5. CASE AccountMoves
  <2>1. log' \in Positions
    BY <1>1, <1>5, HistoryTypes DEF AccountMoves, StreamTypes, Positions
  <2>2. QED
    BY <1>1, <1>4, <1>5, <2>1 DEF AccountMoves, ClientTypes, SubTypes, ConsumerTypes, StreamTypes
<1>6. ASSUME NEW s \in Subs, StreamOpens(s) \/ StreamCloses(s) PROVE TypeOK'
  <2>1. faults' \in Nat /\ UNCHANGED <<sub, log>>
    BY <1>1, <1>6 DEF StreamOpens, StreamCloses, Fault, ClientTypes
  <2>2. PICK open \in BOOLEAN : stream' = [stream EXCEPT ![s].open = open]
    BY <1>6 DEF StreamOpens, StreamCloses
  <2>3. StreamTypes'
    BY <1>1, <2>1, <2>2 DEF StreamTypes
  <2>4. ConsumerTypes'
    BY <1>1, <1>6, TellTypes DEF StreamOpens, StreamCloses
  <2>5. QED
    BY <1>1, <1>4, <2>1, <2>3, <2>4 DEF SubTypes
<1>7. ASSUME NEW s \in Subs, StreamEnds(s) PROVE TypeOK'
  <2>1. faults' \in Nat /\ UNCHANGED <<stream, log>>
    BY <1>1, <1>7 DEF StreamEnds, Fault, ClientTypes
  <2>2. sub[s] \in Closures /\ Len(sub[s].gate.queue) <= MaxPending
    BY <1>1 DEF SubTypes
  <2>3. [sub[s] EXCEPT !.link = "gone"] \in Closures /\ [sub[s] EXCEPT !.link = "gone"].gate = sub[s].gate
    BY <2>2 DEF Closures
  <2>4. sub' = [sub EXCEPT ![s] = [sub[s] EXCEPT !.link = "gone"]]
    BY <1>1, <1>7 DEF StreamEnds, SubTypes
  <2>5. SubTypes'
    BY <1>1, <2>2, <2>3, <2>4, SubTypesStep
  <2>6. ConsumerTypes'
    BY <1>1, <1>7, TellTypes DEF StreamEnds, Errors
  <2>7. QED
    BY <1>1, <1>4, <2>1, <2>5, <2>6 DEF StreamTypes
<1>8. ASSUME NEW s \in Subs, StreamPublishes(s) \/ StreamResyncs(s) PROVE TypeOK'
  <2>1. PICK p \in Publications(s) \cup Resyncs(s) :
           Pass(s, p) /\ stream' = [stream EXCEPT ![s].pos = p.pos]
    BY <1>8 DEF StreamPublishes, StreamResyncs
  <2>2. faults' \in Nat /\ log' = log
    BY <1>1, <1>8 DEF StreamPublishes, StreamResyncs, Fault, ClientTypes
  <2>3. p \in Publication /\ p.pos \in Positions
    BY <2>1, PublishedTypes
  <2>4. SubTypes' /\ ConsumerTypes'
    BY <1>1, <2>1, <2>3, PassTypes
  <2>5. StreamTypes'
    BY <1>1, <2>1, <2>2, <2>3 DEF StreamTypes, Cursors
  <2>6. QED
    BY <1>4, <2>2, <2>4, <2>5
<1>9. QED
  BY <1>5, <1>6, <1>7, <1>8 DEF External

LEMMA InitTypes == Init => TypeOK
<1> SUFFICES ASSUME Init PROVE TypeOK
  OBVIOUS
<1>1. Unused \in Closures /\ Unused.gate.queue = <<>>
  <2>1. NewGate \in Gates /\ NewGate.queue = <<>>
    BY DEF NewGate, Gates
  <2>2. QED
    BY <2>1 DEF Unused, Closures
<1>2. SubTypes
  BY <1>1, EmptyFits DEF Init, SubTypes
<1>3. ConsumerTypes
  BY DEF Init, ConsumerTypes, Hearers, Untold, EmptyView, Views, Cursors
<1>4. StreamTypes
  BY HistoryTypes DEF Init, StreamTypes, Stream, Cursors, Positions
<1>5. FlushTypes /\ ClientTypes
  BY DEF Init, FlushTypes, ClientTypes, EmptyCatalog, Catalogs
<1>6. QED
  BY <1>2, <1>3, <1>4, <1>5 DEF TypeOK

LEMMA StepTypes == TypeOK /\ [Next]_vars => TypeOK'
<1> SUFFICES ASSUME TypeOK, [Next]_vars PROVE TypeOK'
  OBVIOUS
<1>1. CASE UNCHANGED vars
  BY <1>1 DEF vars, TypeOK, SubTypes, ConsumerTypes, StreamTypes, FlushTypes, ClientTypes
<1>2. QED
  BY <1>1, AppTypes, EventTypes, ExternalTypes DEF Next

\* Every variable of an order subscription keeps its type, a gate's queue never
\* outgrows its bound, and a flush that goes on has something to deliver.
THEOREM TypesHold == Spec => []TypeOK
<1>1. QED
  BY InitTypes, StepTypes, PTL DEF Spec

-----------------------------------------------------------------------------
(* Gates.                                                                  *)

\* The catalog keeps a snapshot, and epochs only count up.
LEMMA ClientGoesOn ==
    ASSUME TypeOK, Next
    PROVE  /\ HasSnapshot(cat) => HasSnapshot(cat)'
           /\ epoch' >= epoch /\ epoch \in Nat /\ epoch' \in Nat
<1>1. cat \in Catalogs /\ epoch \in Nat
  BY DEF TypeOK, ClientTypes
<1>2. CASE cat' = cat
  <2>1. epoch' = epoch \/ epoch' = epoch + 1
    BY DEF Next, App, Events, External, Subscribe, Unsubscribe, Logout, Login, CallCatalog,
           RefreshSettles, FlushNext, ModuleLoads, ModuleFails, CallReady, GateOpens, GateFails,
           JoinStream, HearOfFailure, HearOfRefusal, AccountMoves, StreamOpens, StreamCloses, StreamEnds,
           StreamPublishes, StreamResyncs
  <2>2. QED
    BY <1>1, <1>2, <2>1
<1>3. CASE CallCatalog
  BY <1>1, <1>3, CatalogTypes, CatalogKeeps DEF CallCatalog
<1>4. CASE RefreshSettles
  BY <1>1, <1>4, CatalogTypes, CatalogKeeps DEF RefreshSettles
<1>5. ASSUME NEW s \in Subs, CallReady(s)
      PROVE  (HasSnapshot(cat) => HasSnapshot(cat)') /\ epoch' = epoch
  BY <1>1, <1>5, CatalogKeeps DEF CallReady
<1>6. CASE cat' # cat
  <2>1. CallCatalog \/ RefreshSettles \/ \E s \in Subs : CallReady(s)
    BY <1>6 DEF Next, App, Events, External, Subscribe, Unsubscribe, Logout, Login,
           FlushNext, ModuleLoads, ModuleFails, GateOpens, GateFails,
           JoinStream, HearOfFailure, HearOfRefusal, AccountMoves, StreamOpens, StreamCloses, StreamEnds,
           StreamPublishes, StreamResyncs
  <2>2. QED
    BY <1>1, <1>3, <1>4, <1>5, <2>1
<1>7. QED
  BY <1>2, <1>6

\* A subscription of which a step changes at most its link, its readiness or what
\* was published.
GateKept(s) ==
    /\ sub'[s].gate = sub[s].gate /\ sub'[s].state = sub[s].state /\ sub'[s].epoch = sub[s].epoch
    /\ sub'[s].ready = sub[s].ready \/ sub'[s].ready # "resolved" \/ HasSnapshot(cat)'
    /\ sub[s].state = "unused" => /\ sub'[s] = sub[s] /\ consumer'[s] = consumer[s]
                                  /\ stream'[s] = stream[s]
    /\ flushing'.s = s => flushing.s = s

LEMMA GateFrame ==
    ASSUME TypeOK, GateInv, Next, NEW s \in Subs, GateKept(s)
    PROVE  GateOf(s)'
<1>1. /\ HasSnapshot(cat) => HasSnapshot(cat)'
      /\ epoch' >= epoch /\ epoch \in Nat /\ epoch' \in Nat /\ sub[s].epoch \in Nat
  BY ClientGoesOn DEF TypeOK, SubTypes, Closures
<1>2. QED
  BY <1>1 DEF GateKept, GateInv, GateOf, Ended

\* A subscription that a step does not touch.
Untouched(s) == /\ sub'[s] = sub[s] /\ consumer'[s] = consumer[s] /\ stream'[s] = stream[s]
                /\ flushing'.s = s => flushing.s = s

LEMMA AppGates ==
    ASSUME TypeOK, GateInv, App
    PROVE  GateInv'
<1>0. Next
  BY DEF Next
<1>1. ASSUME NEW t \in Subs, Untouched(t) PROVE GateOf(t)'
  BY <1>0, <1>1, GateFrame DEF Untouched, GateKept
<1>2. \A t \in Subs : sub[t] \in Closures
  BY DEF TypeOK, SubTypes
<1>3. sub \in [Subs -> Closures]
  BY DEF TypeOK, SubTypes
<1>4. ASSUME NEW s \in Subs, Subscribe(s) PROVE GateInv'
  <2>1. UNCHANGED <<flushing, consumer, stream, epoch, cat>> /\ sub[s].state = "unused"
    BY <1>4 DEF Subscribe
  <2>2. PICK r \in {Subscribed(link) : link \in {"streaming", "refused", "loading", "failed", "loaded"}}
                      \cup {[Subscribed("gone") EXCEPT !.state = "disposed", !.gate = Shut(@)]} :
           sub' = [sub EXCEPT ![s] = r]
    BY <1>4 DEF Subscribe, TypeOK, ClientTypes
  <2>3. \A t \in Subs \ {s} : GateOf(t)'
    BY <1>1, <1>3, <2>1, <2>2 DEF Untouched
  <2>4. sub'[s] = r
    BY <1>3, <2>2
  <2>5. flushing.s # s
    BY <2>1 DEF GateInv, GateOf, Unused, NewGate
  <2>6. r.epoch = epoch /\ r.ready = "due" /\ r.gate.queue = <<>>
        /\ \/ r.state = "active" /\ r.gate.state = "pending"
           \/ r.state = "disposed" /\ r.gate.state = "closed"
    <3>1. ASSUME NEW link
          PROVE  /\ Subscribed(link).epoch = epoch /\ Subscribed(link).ready = "due"
                 /\ Subscribed(link).state = "active" /\ Subscribed(link).gate = NewGate
      BY DEF Subscribed, Unused
    <3>2. CASE \E link : r = Subscribed(link)
      BY <3>1, <3>2 DEF NewGate
    <3>3. CASE r = [Subscribed("gone") EXCEPT !.state = "disposed", !.gate = Shut(@)]
      <4>1. r.epoch = epoch /\ r.ready = "due" /\ r.state = "disposed" /\ r.gate = Shut(NewGate)
        BY <3>3 DEF Subscribed, Unused
      <4>2. QED
        BY <4>1 DEF Shut
    <3>4. QED
      BY <2>2, <3>2, <3>3
  <2>7. epoch \in Nat
    BY DEF TypeOK, ClientTypes
  <2>8. GateOf(s)'
    BY <2>1, <2>4, <2>5, <2>6, <2>7 DEF GateOf, Ended
  <2>9. QED
    BY <2>3, <2>8 DEF GateInv
<1>5. ASSUME NEW s \in Subs, Unsubscribe(s) PROVE GateInv'
  <2>1. UNCHANGED <<flushing, consumer, stream, epoch, cat>> /\ sub[s].state = "active"
    BY <1>5 DEF Unsubscribe
  <2>2. \A t \in Subs \ {s} : GateOf(t)'
    BY <1>1, <1>3, <1>5, <2>1 DEF Unsubscribe, Untouched
  <2>3. /\ sub'[s].state = "disposed" /\ sub'[s].gate = Shut(sub[s].gate) /\ sub'[s].ready = sub[s].ready
        /\ sub'[s].epoch = sub[s].epoch
    BY <1>2, <1>3, <1>5 DEF Unsubscribe, Closures
  <2>4. GateOf(s)'
    BY <2>1, <2>3 DEF GateInv, GateOf, Ended, Shut
  <2>5. QED
    BY <2>2, <2>4 DEF GateInv
<1>6. CASE Logout
  <2>1. ASSUME NEW t \in Subs PROVE GateKept(t)
    <3>1. sub'[t] = [sub[t] EXCEPT !.link = Left(@)]
      BY <1>6 DEF Logout
    <3>2. sub[t].state = "unused" => sub[t].link = "none" /\ Left("none") = "none"
      BY DEF GateInv, GateOf, Unused, Left
    <3>3. UNCHANGED <<flushing, consumer, stream>>
      BY <1>6 DEF Logout
    <3>4. QED
      BY <1>2, <3>1, <3>2, <3>3 DEF GateKept, Closures
  <2>2. QED
    BY <1>0, <2>1, GateFrame DEF GateInv
<1>7. CASE Login \/ CallCatalog
  BY <1>1, <1>7 DEF Login, CallCatalog, Untouched, GateInv
<1>8. QED
  BY <1>4, <1>5, <1>6, <1>7 DEF App

\* What a delivery leaves of the closures it was made with.
LEMMA DeliverLeaves ==
    ASSUME TypeOK, NEW s \in Subs, NEW r \in Closures, NEW p, Deliver(s, r, p)
    PROVE  /\ sub'[s].gate = r.gate /\ sub'[s].state = r.state /\ sub'[s].ready = r.ready
           /\ sub'[s].epoch = r.epoch /\ sub'[s].link = r.link /\ sub'[s].live = LiveAfter(r.live, p)
           /\ consumer'[s].view = ViewAfter(s, p) /\ consumer'[s].at = p.pos
           /\ \A t \in Subs \ {s} : sub'[t] = sub[t] /\ consumer'[t] = consumer[t]
<1>1. sub \in [Subs -> Closures] /\ consumer \in [Subs -> Hearers]
  BY DEF TypeOK, SubTypes, ConsumerTypes
<1>2. sub'[s] = [r EXCEPT !.live = LiveAfter(@, p)]
  BY <1>1 DEF Deliver
<1>3. /\ sub'[s].gate = r.gate /\ sub'[s].state = r.state /\ sub'[s].ready = r.ready
      /\ sub'[s].epoch = r.epoch /\ sub'[s].link = r.link /\ sub'[s].live = LiveAfter(r.live, p)
  BY <1>2 DEF Closures
<1>4. /\ consumer'[s].view = ViewAfter(s, p) /\ consumer'[s].at = p.pos
  <2>1. consumer'[s] = [consumer[s] EXCEPT !.view = ViewAfter(s, p), !.at = p.pos]
    BY <1>1 DEF Deliver
  <2>2. QED
    BY <1>1, <2>1 DEF Hearers
<1>5. \A t \in Subs \ {s} : sub'[t] = sub[t] /\ consumer'[t] = consumer[t]
  BY <1>1 DEF Deliver
<1>6. QED
  BY <1>2, <1>3, <1>4, <1>5

\* The subscription that is told something is one.
LEMMA NotUnused ==
    ASSUME GateInv, NEW s \in Subs, sub[s].link # "none" \/ sub[s].ready # "none" \/ flushing.s = s
    PROVE  sub[s].state # "unused"
  BY DEF GateInv, GateOf, Unused, NewGate

LEMMA EventGates ==
    ASSUME TypeOK, GateInv, Events
    PROVE  GateInv'
<1>0. Next
  BY DEF Next
<1>1. ASSUME NEW t \in Subs, Untouched(t) PROVE GateOf(t)'
  BY <1>0, <1>1, GateFrame DEF Untouched, GateKept
<1>2. (\A t \in Subs : sub[t] \in Closures) /\ sub \in [Subs -> Closures] /\ consumer \in [Subs -> Hearers]
  BY DEF TypeOK, SubTypes, ConsumerTypes
<1>3. \A t \in Subs : GateOf(t)
  BY DEF GateInv
<1>4. ASSUME NEW s \in Subs, CallReady(s) PROVE GateInv'
  <2>1. sub'[s] = [sub[s] EXCEPT !.ready = Awaited(cat)] /\ \A t \in Subs \ {s} : sub'[t] = sub[t]
    BY <1>2, <1>4 DEF CallReady
  <2>2. Awaited(cat) = "resolved" => HasSnapshot(cat)'
    BY <1>4, CatalogKeeps DEF CallReady, TypeOK, ClientTypes
  <2>3. UNCHANGED <<flushing, consumer, stream>> /\ sub[s].state # "unused"
    BY <1>4, NotUnused DEF CallReady
  <2>4. GateKept(s)
    BY <1>2, <2>1, <2>2, <2>3 DEF GateKept, Closures
  <2>5. QED
    BY <1>0, <1>1, <2>1, <2>3, <2>4, GateFrame DEF GateInv, Untouched
<1>5. CASE RefreshSettles
  <2>1. PICK outcome \in {"resolved", "rejected"} :
           /\ sub' = [s \in Subs |-> IF sub[s].ready = "refresh"
                                     THEN [sub[s] EXCEPT !.ready = outcome] ELSE sub[s]]
           /\ outcome = "resolved" => HasSnapshot(cat)'
    BY <1>5, CatalogTypes DEF RefreshSettles, TypeOK, ClientTypes
  <2>2. UNCHANGED <<flushing, consumer, stream>>
    BY <1>5 DEF RefreshSettles
  <2>3. ASSUME NEW t \in Subs PROVE GateKept(t)
    <3>1. CASE sub[t].ready = "refresh"
      <4>1. sub'[t] = [sub[t] EXCEPT !.ready = outcome] /\ sub[t].state # "unused"
        BY <2>1, <3>1, NotUnused
      <4>2. QED
        BY <1>2, <2>1, <2>2, <4>1 DEF GateKept, Closures
    <3>2. CASE sub[t].ready # "refresh"
      BY <2>1, <2>2, <3>2 DEF GateKept
    <3>3. QED
      BY <3>1, <3>2
  <2>4. QED
    BY <1>0, <2>3, GateFrame DEF GateInv
<1>6. ASSUME NEW s \in Subs, GateOpens(s) PROVE GateInv'
  <2> DEFINE open == [sub[s] EXCEPT !.ready = "done", !.gate = Opened(@)]
             done == [sub[s] EXCEPT !.ready = "done"]
             q    == sub[s].gate.queue
  <2>1. /\ open \in Closures /\ open.gate = Opened(sub[s].gate) /\ open.ready = "done"
        /\ open.state = sub[s].state /\ open.epoch = sub[s].epoch
    <3>1. Opened(sub[s].gate) \in Gates
      BY DEF Opened, Gates
    <3>2. QED
      BY <1>2, <3>1 DEF Closures
  <2>2. /\ HasSnapshot(cat) /\ HasSnapshot(cat)' /\ UNCHANGED <<cat, stream, epoch>> /\ flushing.s = NoSub
        /\ sub[s].state # "unused" /\ sub[s].ready = "resolved"
    BY <1>3, <1>6, NotUnused DEF GateOpens, GateOf, Idle, Rest, HasSnapshot
  <2>3. s # NoSub /\ \A t \in Subs : t # NoSub
    BY SubscriptionAssumption
  <2>4. CASE sub' = [sub EXCEPT ![s].ready = "done"] /\ UNCHANGED <<consumer, flushing>>
    <3>1. GateKept(s)
      BY <1>2, <2>2, <2>4 DEF GateKept, Closures
    <3>2. QED
      BY <1>0, <1>1, <1>2, <2>2, <2>4, <3>1, GateFrame DEF GateInv, Untouched
  <2>5. CASE /\ sub[s].gate.state = "pending"
             /\ sub'[s].gate = Opened(sub[s].gate) /\ sub'[s].state = sub[s].state
             /\ sub'[s].epoch = sub[s].epoch
             /\ \A t \in Subs \ {s} : sub'[t] = sub[t] /\ consumer'[t] = consumer[t] /\ flushing'.s # t
    <3>1. ~Ended(s) /\ sub'[s].gate.state = "open" /\ sub'[s].gate.queue = <<>> /\ sub[s].epoch <= epoch
      BY <1>3, <2>5 DEF GateOf, Opened
    <3>2. GateOf(s)'
      BY <2>2, <2>5, <3>1 DEF GateOf, Ended
    <3>3. QED
      BY <1>1, <2>2, <2>5, <3>2 DEF GateInv, Untouched
  <2>6. CASE sub[s].gate.state = "pending" /\ sub' = [sub EXCEPT ![s] = open] /\ UNCHANGED <<consumer, flushing>>
    <3> HIDE DEF open
    <3>1. QED
      BY <1>2, <2>1, <2>2, <2>3, <2>5, <2>6
  <2>7. CASE sub[s].gate.state = "pending" /\ Deliver(s, open, Head(q)) /\ Flush(s, Tail(q))
    <3>1. flushing'.s \in {s, NoSub}
      BY <2>7 DEF Flush, Rest
    <3> HIDE DEF open, q
    <3>2. QED
      BY <2>1, <2>3, <2>5, <2>7, <3>1, DeliverLeaves
  <2>8. QED
    BY <1>6, <2>4, <2>6, <2>7 DEF GateOpens
<1>7. ASSUME NEW s \in Subs, GateFails(s) PROVE GateInv'
  <2>1. /\ UNCHANGED <<cat, stream, epoch, flushing>> /\ flushing.s # s /\ sub[s].state # "unused"
    BY <1>7, NotUnused, SubscriptionAssumption DEF GateFails, Idle, Rest
  <2>2. \A t \in Subs \ {s} : sub'[t] = sub[t] /\ consumer'[t] = consumer[t]
    BY <1>2, <1>7 DEF GateFails, ReportAndClose
  <2>3. GateOf(s)'
    <3>1. CASE sub[s].gate.state = "pending"
      <4> DEFINE r == [Terminated(sub[s]) EXCEPT !.ready = "done"]
      <4>1. r.state = "terminal" /\ r.gate = Shut(sub[s].gate) /\ r.ready = "done" /\ r.epoch = sub[s].epoch
        BY <1>2 DEF Terminated, Closures
      <4>2. sub'[s] = r
        BY <1>2, <1>7, <3>1 DEF GateFails
      <4> HIDE DEF r
      <4>3. QED
        BY <1>3, <2>1, <4>1, <4>2 DEF GateOf, Ended, Shut
    <3>2. CASE sub[s].gate.state # "pending"
      <4>1. GateKept(s)
        BY <1>2, <1>7, <2>1, <3>2 DEF GateFails, GateKept, Closures
      <4>2. QED
        BY <1>0, <4>1, GateFrame
    <3>3. QED
      BY <3>1, <3>2
  <2>4. QED
    BY <1>1, <2>1, <2>2, <2>3 DEF GateInv, Untouched
<1>8. CASE FlushNext
  <2> DEFINE s == flushing.s
  <2>1. s \in Subs /\ s # NoSub
    BY <1>8, SubscriptionAssumption DEF FlushNext, Idle, TypeOK, FlushTypes
  <2>2. /\ sub'[s].gate = sub[s].gate /\ sub'[s].state = sub[s].state
        /\ sub'[s].ready = sub[s].ready /\ sub'[s].epoch = sub[s].epoch
        /\ \A t \in Subs \ {s} : sub'[t] = sub[t] /\ consumer'[t] = consumer[t]
    BY <1>2, <1>8, <2>1, DeliverLeaves DEF FlushNext
  <2>3. flushing'.s \in {s, NoSub} /\ stream' = stream /\ sub[s].state # "unused"
    BY <1>8, <2>1, NotUnused DEF FlushNext, Flush, Rest
  <2>4. GateKept(s)
    BY <2>1, <2>2, <2>3 DEF GateKept
  <2>5. \A t \in Subs \ {s} : Untouched(t)
    BY <2>2, <2>3, SubscriptionAssumption DEF Untouched
  <2>6. QED
    BY <1>0, <1>1, <2>1, <2>4, <2>5, GateFrame DEF GateInv
<1>9. CASE ModuleLoads \/ ModuleFails
  <2>1. PICK link \in {"loaded", "failed"} :
           sub' = [s \in Subs |-> IF sub[s].link = "loading" THEN [sub[s] EXCEPT !.link = link] ELSE sub[s]]
    BY <1>9 DEF ModuleLoads, ModuleFails
  <2>2. UNCHANGED <<flushing, consumer, stream>>
    BY <1>9 DEF ModuleLoads, ModuleFails
  <2>3. ASSUME NEW t \in Subs PROVE GateKept(t)
    <3>1. CASE sub[t].link = "loading"
      <4>1. sub'[t] = [sub[t] EXCEPT !.link = link] /\ sub[t].state # "unused"
        BY <2>1, <3>1, NotUnused
      <4>2. QED
        BY <1>2, <2>2, <4>1 DEF GateKept, Closures
    <3>2. CASE sub[t].link # "loading"
      BY <2>1, <2>2, <3>2 DEF GateKept
    <3>3. QED
      BY <3>1, <3>2
  <2>4. QED
    BY <1>0, <2>3, GateFrame DEF GateInv
<1>10. ASSUME NEW s \in Subs, JoinStream(s) \/ HearOfFailure(s) \/ HearOfRefusal(s) PROVE GateInv'
  <2>1. PICK link \in {"streaming", "gone"} : sub' = [sub EXCEPT ![s].link = link]
    BY <1>10 DEF JoinStream, HearOfFailure, HearOfRefusal
  <2>2. UNCHANGED <<flushing, stream>> /\ sub[s].state # "unused"
    BY <1>10, NotUnused DEF JoinStream, HearOfFailure, HearOfRefusal
  <2>3. GateKept(s)
    BY <1>2, <2>1, <2>2 DEF GateKept, Closures
  <2>4. \A t \in Subs \ {s} : sub'[t] = sub[t] /\ consumer'[t] = consumer[t]
    BY <1>2, <1>10, <2>1 DEF JoinStream, HearOfFailure, HearOfRefusal, ReportAndClose, Report
  <2>5. QED
    BY <1>0, <1>1, <2>2, <2>3, <2>4, GateFrame DEF GateInv, Untouched
<1>11. QED
  BY <1>4, <1>5, <1>6, <1>7, <1>8, <1>9, <1>10 DEF Events

LEMMA ExternalGates ==
    ASSUME TypeOK, GateInv, External
    PROVE  GateInv'
<1>0. Next
  BY DEF Next
<1>1. ASSUME NEW t \in Subs, Untouched(t) PROVE GateOf(t)'
  BY <1>0, <1>1, GateFrame DEF Untouched, GateKept
<1>2. /\ \A t \in Subs : sub[t] \in Closures
      /\ sub \in [Subs -> Closures] /\ consumer \in [Subs -> Hearers]
      /\ stream \in [Subs -> [open : BOOLEAN, pos : Cursors]]
  BY DEF TypeOK, SubTypes, ConsumerTypes, StreamTypes
<1>3. CASE AccountMoves
  BY <1>1, <1>3 DEF AccountMoves, Untouched, GateInv
<1>4. ASSUME NEW s \in Subs, StreamOpens(s) \/ StreamCloses(s) \/ StreamEnds(s) PROVE GateInv'
  <2>1. sub' = sub \/ sub' = [sub EXCEPT ![s].link = "gone"]
    BY <1>4 DEF StreamOpens, StreamCloses, StreamEnds
  <2>2. flushing' = flushing /\ sub[s].state # "unused"
    BY <1>4, NotUnused DEF StreamOpens, StreamCloses, StreamEnds, Streaming
  <2>3. \A t \in Subs \ {s} : sub'[t] = sub[t] /\ consumer'[t] = consumer[t] /\ stream'[t] = stream[t]
    BY <1>2, <1>4, <2>1 DEF StreamOpens, StreamCloses, StreamEnds, Tell, ReportAndClose
  <2>4. GateKept(s)
    BY <1>2, <2>1, <2>2 DEF GateKept, Closures
  <2>5. QED
    BY <1>0, <1>1, <2>2, <2>3, <2>4, GateFrame DEF GateInv, Untouched
<1>5. ASSUME NEW s \in Subs, StreamPublishes(s) \/ StreamResyncs(s) PROVE GateInv'
  <2>1. PICK p \in Publications(s) \cup Resyncs(s) :
           Pass(s, p) /\ stream' = [stream EXCEPT ![s].pos = p.pos]
    BY <1>5 DEF StreamPublishes, StreamResyncs
  <2>2. /\ UNCHANGED <<cat, epoch, flushing>> /\ sub[s].state # "unused" /\ flushing.s # s
    BY <1>5, NotUnused, SubscriptionAssumption DEF StreamPublishes, StreamResyncs, Streaming, Idle, Rest
  <2>3. \A t \in Subs \ {s} : sub'[t] = sub[t] /\ consumer'[t] = consumer[t] /\ stream'[t] = stream[t]
    <3>1. \A t \in Subs \ {s} : stream'[t] = stream[t]
      BY <1>2, <2>1
    <3>2. CASE Deliver(s, sub[s], p)
      BY <1>2, <3>1, <3>2, DeliverLeaves
    <3>3. CASE ~Deliver(s, sub[s], p)
      BY <1>2, <2>1, <3>1, <3>3 DEF Pass, Terminate, ReportAndClose
    <3>4. QED
      BY <3>2, <3>3
  <2>4. GateOf(s)'
    <3>1. CASE Deliver(s, sub[s], p)
      <4>1. GateKept(s)
        BY <1>2, <2>2, <3>1, DeliverLeaves DEF GateKept
      <4>2. QED
        BY <1>0, <4>1, GateFrame
    <3>2. CASE sub[s].gate.state = "pending" /\ sub' = [sub EXCEPT ![s].gate = Queued(sub[s].gate, p)]
      <4>1. /\ sub'[s].gate = Queued(sub[s].gate, p) /\ sub'[s].state = sub[s].state
            /\ sub'[s].ready = sub[s].ready /\ sub'[s].epoch = sub[s].epoch
        BY <1>2, <3>2 DEF Closures
      <4>2. Queued(sub[s].gate, p).state = "pending"
        BY <1>2, <3>2 DEF Queued, Closures, Gates
      <4>3. QED
        BY <2>2, <3>2, <4>1, <4>2 DEF GateInv, GateOf, Ended, HasSnapshot
    <3>3. CASE Terminate(s)
      <4>1. sub'[s] = Terminated(sub[s])
        BY <1>2, <3>3 DEF Terminate
      <4>2. /\ sub'[s].state = "terminal" /\ sub'[s].gate = Shut(sub[s].gate)
            /\ sub'[s].ready = sub[s].ready /\ sub'[s].epoch = sub[s].epoch
        BY <1>2, <4>1 DEF Terminated, Closures
      <4>3. QED
        BY <2>2, <4>2 DEF GateInv, GateOf, Ended, Shut, HasSnapshot
    <3>4. CASE UNCHANGED <<sub, consumer>>
      <4>1. GateKept(s)
        BY <2>2, <3>4 DEF GateKept
      <4>2. QED
        BY <1>0, <4>1, GateFrame
    <3>5. QED
      BY <2>1, <3>1, <3>2, <3>3, <3>4 DEF Pass
  <2>5. QED
    BY <1>1, <2>2, <2>3, <2>4 DEF GateInv, Untouched
<1>6. QED
  BY <1>3, <1>4, <1>5 DEF External

LEMMA InitGates == Init => GateInv
<1> SUFFICES ASSUME Init, NEW s \in Subs PROVE GateOf(s)
  BY DEF GateInv
<1>1. sub[s] = Unused /\ consumer[s] = Untold /\ stream[s] = Stream /\ epoch = 0
  BY DEF Init
<1>2. flushing.s # s
  BY SubscriptionAssumption DEF Init, Rest
<1>3. QED
  BY <1>1, <1>2 DEF GateOf, Unused, NewGate, Ended

LEMMA StepGates == TypeOK /\ GateInv /\ [Next]_vars => GateInv'
<1> SUFFICES ASSUME TypeOK, GateInv, [Next]_vars PROVE GateInv'
  OBVIOUS
<1>1. CASE UNCHANGED vars
  BY <1>1 DEF vars, GateInv, GateOf, Ended, HasSnapshot
<1>2. QED
  BY <1>1, AppGates, EventGates, ExternalGates DEF Next

-----------------------------------------------------------------------------
(* Streams.                                                                *)

\* The two halves of StreamsMatch, of one subscription.
Matched(s) ==
    /\ sub[s].link = "streaming" => sub[s].state = "active" /\ sub[s].epoch = epoch
    /\ sub[s].state = "active" /\ sub[s].link = "gone" => consumer[s].errors # {} \/ sub[s].epoch # epoch

\* A step that leaves a subscription's stream as it was, or ends it.
LinkKept(s) ==
    /\ sub'[s].epoch = sub[s].epoch
    /\ sub'[s].link = sub[s].link \/ sub'[s].link \notin {"streaming", "gone"}
    /\ sub'[s].state = sub[s].state \/ (sub'[s].state # "active" /\ sub'[s].link # "streaming")
    /\ consumer[s].errors \subseteq consumer'[s].errors
    /\ epoch' = epoch

LEMMA MatchFrame ==
    ASSUME StreamsMatch, NEW s \in Subs, LinkKept(s)
    PROVE  Matched(s)'
  BY DEF StreamsMatch, Matched, LinkKept

LEMMA StepStreams == TypeOK /\ GateInv /\ StreamsMatch /\ [Next]_vars => StreamsMatch'
<1> SUFFICES ASSUME TypeOK, GateInv, StreamsMatch, [Next]_vars, NEW s \in Subs PROVE Matched(s)'
  BY DEF StreamsMatch, Matched
<1>1. /\ sub[s] \in Closures /\ consumer[s] \in Hearers
      /\ sub \in [Subs -> Closures] /\ consumer \in [Subs -> Hearers]
  BY DEF TypeOK, SubTypes, ConsumerTypes
<1>2. ASSUME UNCHANGED <<epoch>>, sub'[s] = sub[s], consumer'[s].errors = consumer[s].errors PROVE Matched(s)'
  BY <1>2, MatchFrame DEF LinkKept
<1>3. ASSUME NEW t \in Subs, Subscribe(t) PROVE Matched(s)'
  <2>1. CASE t # s
    BY <1>1, <1>2, <1>3, <2>1 DEF Subscribe
  <2>2. CASE t = s
    <3>1. UNCHANGED <<epoch, consumer>>
      BY <1>3 DEF Subscribe
    <3>2. CASE \E link \in {"streaming", "refused", "loading", "failed", "loaded"} : sub'[s] = Subscribed(link)
      BY <3>1, <3>2 DEF Subscribed, Unused, Matched
    <3>3. CASE sub'[s] = [Subscribed("gone") EXCEPT !.state = "disposed", !.gate = Shut(@)]
      BY <3>1, <3>3 DEF Subscribed, Unused, Matched
    <3>4. QED
      BY <1>1, <1>3, <2>2, <3>2, <3>3 DEF Subscribe, TypeOK, ClientTypes
  <2>3. QED
    BY <2>1, <2>2
<1>4. ASSUME NEW t \in Subs, Unsubscribe(t) PROVE Matched(s)'
  <2>1. CASE t # s
    BY <1>1, <1>2, <1>4, <2>1 DEF Unsubscribe
  <2>2. CASE t = s
    <3>1. sub'[s].state = "disposed" /\ sub'[s].link = Left(sub[s].link)
      BY <1>1, <1>4, <2>2 DEF Unsubscribe, Closures
    <3>2. QED
      BY <3>1 DEF Matched, Left
  <2>3. QED
    BY <2>1, <2>2
<1>5. CASE Logout
  <2>1. sub'[s].link = Left(sub[s].link) /\ sub'[s].state = sub[s].state /\ sub'[s].epoch = sub[s].epoch
    BY <1>1, <1>5 DEF Logout, Closures
  <2>2. sub[s].epoch <= epoch /\ epoch' = epoch + 1 /\ sub[s].epoch \in Nat /\ epoch \in Nat
    BY <1>1, <1>5 DEF Logout, GateInv, GateOf, Closures, TypeOK, ClientTypes
  <2>3. QED
    BY <2>1, <2>2 DEF Matched, Left
<1>6. CASE Login \/ CallCatalog \/ AccountMoves \/ UNCHANGED vars
  BY <1>2, <1>6 DEF Login, CallCatalog, AccountMoves, vars
<1>7. ASSUME NEW t \in Subs, CallReady(t) PROVE Matched(s)'
  <2>1. LinkKept(s)
    BY <1>1, <1>7 DEF CallReady, LinkKept, Closures
  <2>2. QED
    BY <2>1, MatchFrame
<1>8. CASE RefreshSettles
  <2>1. PICK outcome : sub' = [t \in Subs |-> IF sub[t].ready = "refresh"
                                             THEN [sub[t] EXCEPT !.ready = outcome] ELSE sub[t]]
    BY <1>8 DEF RefreshSettles
  <2>2. LinkKept(s)
    BY <1>1, <1>8, <2>1 DEF RefreshSettles, LinkKept, Closures
  <2>3. QED
    BY <2>2, MatchFrame
<1>9. ASSUME NEW t \in Subs, NEW r \in Closures, NEW p, Deliver(t, r, p), epoch' = epoch,
             r.link = sub[t].link, r.state = sub[t].state, r.epoch = sub[t].epoch
      PROVE  Matched(s)'
  <2>1. /\ sub'[t].link = r.link /\ sub'[t].state = r.state /\ sub'[t].epoch = r.epoch
        /\ \A u \in Subs \ {t} : sub'[u] = sub[u] /\ consumer'[u] = consumer[u]
    BY <1>9, DeliverLeaves
  <2>2. consumer'[t].errors = consumer[t].errors
    BY <1>1, <1>9 DEF Deliver, Hearers
  <2>3. LinkKept(s)
    BY <1>9, <2>1, <2>2 DEF LinkKept
  <2>4. QED
    BY <2>3, MatchFrame
<1>10. ASSUME NEW t \in Subs, GateOpens(t) PROVE Matched(s)'
  <2> DEFINE open == [sub[t] EXCEPT !.ready = "done", !.gate = Opened(@)]
             done == [sub[t] EXCEPT !.ready = "done"]
  <2>1. /\ open \in Closures /\ open.link = sub[t].link /\ open.state = sub[t].state /\ open.epoch = sub[t].epoch
        /\ done.link = sub[t].link /\ done.state = sub[t].state /\ done.epoch = sub[t].epoch
    <3>1. Opened(sub[t].gate) \in Gates /\ sub[t] \in Closures
      BY <1>1 DEF Opened, Gates
    <3>2. QED
      BY <3>1 DEF Closures
  <2>2. epoch' = epoch
    BY <1>10 DEF GateOpens
  <2>3. CASE UNCHANGED consumer /\ sub' \in {[sub EXCEPT ![t] = open], [sub EXCEPT ![t] = done]}
    <3> HIDE DEF open, done
    <3>1. LinkKept(s)
      BY <1>1, <2>1, <2>2, <2>3 DEF LinkKept
    <3>2. QED
      BY <3>1, MatchFrame
  <2>4. CASE \E p : Deliver(t, open, p)
    <3> HIDE DEF open
    <3>1. QED
      BY <1>9, <2>1, <2>2, <2>4
  <2>5. QED
    BY <1>1, <1>10, <2>3, <2>4 DEF GateOpens
<1>11. CASE FlushNext
  <2>1. flushing.s \in Subs
    BY <1>11 DEF FlushNext, Idle, TypeOK, FlushTypes
  <2>2. QED
    BY <1>1, <1>9, <1>11, <2>1 DEF FlushNext
<1>12. ASSUME NEW t \in Subs, NEW r, r.link = Left(sub[t].link), r.state = "terminal", r.epoch = sub[t].epoch,
              sub' = [sub EXCEPT ![t] = r], epoch' = epoch,
              \E e : ReportAndClose(t, e)
       PROVE  Matched(s)'
  <2>1. CASE t # s
    BY <1>1, <1>2, <1>12, <2>1 DEF ReportAndClose
  <2>2. CASE t = s
    BY <1>1, <1>12, <2>2 DEF Matched, Left
  <2>3. QED
    BY <2>1, <2>2
<1>13. ASSUME NEW t \in Subs, GateFails(t) PROVE Matched(s)'
  <2>1. epoch' = epoch
    BY <1>13 DEF GateFails
  <2>2. CASE sub[t].gate.state = "pending"
    <3> DEFINE r == [Terminated(sub[t]) EXCEPT !.ready = "done"]
    <3>1. r.link = Left(sub[t].link) /\ r.state = "terminal" /\ r.epoch = sub[t].epoch
      BY <1>1 DEF Terminated, Closures
    <3>2. sub' = [sub EXCEPT ![t] = r] /\ \E e : ReportAndClose(t, e)
      BY <1>1, <1>13, <2>2 DEF GateFails
    <3> HIDE DEF r
    <3>3. QED
      BY <1>12, <2>1, <3>1, <3>2
  <2>3. CASE sub[t].gate.state # "pending"
    <3>1. LinkKept(s)
      BY <1>1, <1>13, <2>1, <2>3 DEF GateFails, LinkKept, Closures
    <3>2. QED
      BY <3>1, MatchFrame
  <2>4. QED
    BY <2>2, <2>3
<1>14. CASE ModuleLoads \/ ModuleFails
  <2>1. PICK link \in {"loaded", "failed"} :
           sub' = [t \in Subs |-> IF sub[t].link = "loading" THEN [sub[t] EXCEPT !.link = link] ELSE sub[t]]
    BY <1>14 DEF ModuleLoads, ModuleFails
  <2>2. UNCHANGED <<epoch, consumer>>
    BY <1>14 DEF ModuleLoads, ModuleFails
  <2>3. LinkKept(s)
    BY <1>1, <2>1, <2>2 DEF LinkKept, Closures
  <2>4. QED
    BY <2>3, MatchFrame
<1>15. ASSUME NEW t \in Subs, JoinStream(t) \/ HearOfFailure(t) \/ HearOfRefusal(t) PROVE Matched(s)'
  <2>1. CASE t # s
    BY <1>1, <1>2, <1>15, <2>1 DEF JoinStream, HearOfFailure, HearOfRefusal, ReportAndClose, Report
  <2>2. CASE t = s /\ JoinStream(t)
    <3>1. sub'[s] = [sub[s] EXCEPT !.link = IF StillWaits(sub[s]) THEN "streaming" ELSE "gone"] /\ epoch' = epoch
      BY <1>1, <2>2 DEF JoinStream
    <3>2. QED
      BY <1>1, <3>1 DEF StillWaits, Matched, Closures
  <2>3. CASE t = s /\ HearOfFailure(t)
    <3>1. sub'[s] = [sub[s] EXCEPT !.link = "gone"] /\ epoch' = epoch
      BY <1>1, <2>3 DEF HearOfFailure
    <3>2. StillWaits(sub[s]) => consumer'[s].errors # {}
      BY <1>1, <2>3 DEF HearOfFailure, ReportAndClose, Hearers
    <3>3. QED
      BY <1>1, <3>1, <3>2 DEF StillWaits, Matched, Closures
  <2>4. CASE t = s /\ HearOfRefusal(t)
    <3>1. sub'[s] = [sub[s] EXCEPT !.link = "gone"] /\ epoch' = epoch
      BY <1>1, <2>4 DEF HearOfRefusal
    <3>2. consumer'[s].errors # {}
      BY <1>1, <2>4 DEF HearOfRefusal, Report, Hearers
    <3>3. QED
      BY <1>1, <3>1, <3>2 DEF Matched, Closures
  <2>5. QED
    BY <1>15, <2>1, <2>2, <2>3, <2>4
<1>16. ASSUME NEW t \in Subs, StreamOpens(t) \/ StreamCloses(t) PROVE Matched(s)'
  <2>1. consumer'[s].errors = consumer[s].errors
    BY <1>1, <1>16 DEF StreamOpens, StreamCloses, Tell, Hearers
  <2>2. QED
    BY <1>2, <1>16, <2>1 DEF StreamOpens, StreamCloses
<1>17. ASSUME NEW t \in Subs, StreamEnds(t) PROVE Matched(s)'
  <2>1. CASE t # s
    BY <1>1, <1>2, <1>17, <2>1 DEF StreamEnds, ReportAndClose
  <2>2. CASE t = s
    <3>1. sub'[s] = [sub[s] EXCEPT !.link = "gone"]
      BY <1>1, <1>17, <2>2 DEF StreamEnds
    <3>2. consumer'[s].errors # {}
      BY <1>1, <1>17, <2>2 DEF StreamEnds, ReportAndClose, Hearers
    <3>3. QED
      BY <1>1, <3>1, <3>2 DEF Matched, Closures
  <2>3. QED
    BY <2>1, <2>2
<1>18. ASSUME NEW t \in Subs, StreamPublishes(t) \/ StreamResyncs(t) PROVE Matched(s)'
  <2>1. PICK p \in Publications(t) \cup Resyncs(t) : Pass(t, p)
    BY <1>18 DEF StreamPublishes, StreamResyncs
  <2>2. epoch' = epoch
    BY <1>18 DEF StreamPublishes, StreamResyncs
  <2>3. CASE Deliver(t, sub[t], p)
    BY <1>1, <1>9, <2>2, <2>3
  <2>4. CASE sub' = [sub EXCEPT ![t].gate = Queued(sub[t].gate, p)] /\ UNCHANGED consumer
    <3>1. LinkKept(s)
      BY <1>1, <2>2, <2>4 DEF LinkKept, Closures
    <3>2. QED
      BY <3>1, MatchFrame
  <2>5. CASE Terminate(t)
    <3>1. /\ Terminated(sub[t]).link = Left(sub[t].link) /\ Terminated(sub[t]).state = "terminal"
          /\ Terminated(sub[t]).epoch = sub[t].epoch
      BY <1>1 DEF Terminated, Closures
    <3>2. sub' = [sub EXCEPT ![t] = Terminated(sub[t])] /\ \E e : ReportAndClose(t, e)
      BY <1>1, <2>5 DEF Terminate
    <3>3. QED
      BY <1>12, <2>2, <3>1, <3>2
  <2>6. CASE UNCHANGED <<sub, consumer>>
    BY <1>2, <2>2, <2>6
  <2>7. QED
    BY <2>1, <2>3, <2>4, <2>5, <2>6 DEF Pass
<1>19. QED
  BY <1>3, <1>4, <1>5, <1>6, <1>7, <1>8, <1>10, <1>11, <1>13, <1>14, <1>15, <1>16, <1>17, <1>18
  DEF Next, App, Events, External

LEMMA InitStreams == Init => StreamsMatch
  BY DEF Init, StreamsMatch, Unused

\* Whenever its module loads, a stream is held only by a subscription that is
\* active; an active one that lost its stream was told, or privately disconnected.
THEOREM StreamsMatchHolds == Spec => []StreamsMatch
<1>1. Init => TypeOK /\ GateInv /\ StreamsMatch
  BY InitTypes, InitGates, InitStreams
<1>2. TypeOK /\ GateInv /\ StreamsMatch /\ [Next]_vars => (TypeOK /\ GateInv /\ StreamsMatch)'
  BY StepTypes, StepGates, StepStreams
<1>3. QED
  BY <1>1, <1>2, PTL DEF Spec

-----------------------------------------------------------------------------
(* Silence.                                                                *)

\* A delivery does not touch the link or the errors.
LEMMA DeliverKeeps ==
    ASSUME TypeOK, NEW s \in Subs, NEW r, NEW p, Deliver(s, r, p)
    PROVE  consumer'[s].state = consumer[s].state /\ consumer'[s].errors = consumer[s].errors
<1>1. consumer \in [Subs -> Hearers]
  BY DEF TypeOK, ConsumerTypes
<1>2. consumer'[s] = [consumer[s] EXCEPT !.view = ViewAfter(s, p), !.at = p.pos]
  BY <1>1 DEF Deliver
<1>3. QED
  BY <1>1, <1>2 DEF Hearers

\* What is still called of a subscription that has ended.
LEMMA StepQuiet ==
    ASSUME TypeOK, GateInv, StreamsMatch, [Next]_vars, NEW s \in Subs, Ended(s)
    PROVE  StaysQuiet(s) /\ consumer[s].errors \subseteq consumer'[s].errors
<1> DEFINE Quiet == StaysQuiet(s) /\ consumer[s].errors \subseteq consumer'[s].errors
<1>1. /\ sub[s] \in Closures /\ consumer[s] \in Hearers
      /\ sub \in [Subs -> Closures] /\ consumer \in [Subs -> Hearers]
  BY DEF TypeOK, SubTypes, ConsumerTypes
<1>2. sub[s].gate.state = "closed" /\ sub[s].state # "active" /\ sub[s].link # "streaming"
  BY DEF GateInv, GateOf, Ended, StreamsMatch
<1>3. ASSUME consumer'[s] = consumer[s] PROVE Quiet
  BY <1>3 DEF StaysQuiet
<1> SUFFICES Quiet
  BY DEF Quiet
<1> HIDE DEF Quiet
<1>4. CASE App \/ AccountMoves \/ UNCHANGED vars
  BY <1>3, <1>4 DEF App, Subscribe, Unsubscribe, Logout, Login, CallCatalog, AccountMoves, vars
<1>5. ASSUME NEW t \in Subs, NEW r \in Closures, NEW p, Deliver(t, r, p), t # s PROVE Quiet
  BY <1>3, <1>5, DeliverLeaves
<1>6. ASSUME NEW t \in Subs, NEW e, ReportAndClose(t, e), t # s PROVE Quiet
  BY <1>1, <1>3, <1>6 DEF ReportAndClose
<1>7. CASE RefreshSettles \/ ModuleLoads \/ ModuleFails
  BY <1>3, <1>7 DEF RefreshSettles, ModuleLoads, ModuleFails
<1>8. CASE FlushNext
  <2>1. flushing.s \in Subs
    BY <1>8 DEF FlushNext, Idle, TypeOK, FlushTypes
  <2>2. CASE flushing.s # s
    BY <1>1, <1>5, <1>8, <2>1, <2>2 DEF FlushNext
  <2>3. CASE flushing.s = s
    BY <1>8, <2>3, DeliverKeeps DEF FlushNext, StaysQuiet, Quiet
  <2>4. QED
    BY <2>2, <2>3
<1>9. ASSUME NEW t \in Subs, CallReady(t) \/ JoinStream(t) PROVE Quiet
  BY <1>3, <1>9 DEF CallReady, JoinStream
<1>10. ASSUME NEW t \in Subs, GateOpens(t) PROVE Quiet
  <2> DEFINE open == [sub[t] EXCEPT !.ready = "done", !.gate = Opened(@)]
  <2>1. open \in Closures
    <3>1. Opened(sub[t].gate) \in Gates /\ sub[t] \in Closures
      BY <1>1 DEF Opened, Gates
    <3>2. QED
      BY <3>1 DEF Closures
  <2>2. UNCHANGED consumer \/ (sub[t].gate.state = "pending" /\ \E p : Deliver(t, open, p))
    BY <1>10 DEF GateOpens
  <2> HIDE DEF open
  <2>3. QED
    BY <1>2, <1>3, <1>5, <2>1, <2>2
<1>11. ASSUME NEW t \in Subs, GateFails(t) PROVE Quiet
  BY <1>2, <1>3, <1>6, <1>11 DEF GateFails
<1>12. ASSUME NEW t \in Subs, HearOfFailure(t) PROVE Quiet
  BY <1>2, <1>3, <1>6, <1>12 DEF HearOfFailure, StillWaits
<1>13. ASSUME NEW t \in Subs, HearOfRefusal(t) PROVE Quiet
  <2>1. consumer' = [consumer EXCEPT ![t].errors = @ \cup {"auth"}] /\ sub[t].link = "refused"
    BY <1>13 DEF HearOfRefusal, Report
  <2>2. CASE t # s
    BY <1>1, <1>3, <2>1, <2>2
  <2>3. CASE t = s
    <3>1. consumer'[s] = [consumer[s] EXCEPT !.errors = @ \cup {"auth"}]
      BY <1>1, <2>1, <2>3
    <3>2. /\ consumer'[s].errors = consumer[s].errors \cup {"auth"}
          /\ consumer'[s].state = consumer[s].state
          /\ consumer'[s].view = consumer[s].view /\ consumer'[s].at = consumer[s].at
      BY <1>1, <3>1 DEF Hearers
    <3>3. QED
      BY <2>1, <2>3, <3>2 DEF StaysQuiet, Quiet
  <2>4. QED
    BY <2>2, <2>3
<1>14. ASSUME NEW t \in Subs, StreamOpens(t) \/ StreamCloses(t) \/ StreamEnds(t) PROVE Quiet
  <2>1. t # s
    BY <1>2, <1>14 DEF StreamOpens, StreamCloses, StreamEnds, Streaming
  <2>2. QED
    BY <1>1, <1>3, <1>6, <1>14, <2>1 DEF StreamOpens, StreamCloses, StreamEnds, Tell
<1>15. ASSUME NEW t \in Subs, StreamPublishes(t) \/ StreamResyncs(t) PROVE Quiet
  <2>1. t # s
    BY <1>2, <1>15 DEF StreamPublishes, StreamResyncs, Streaming
  <2>2. PICK p : Pass(t, p)
    BY <1>15 DEF StreamPublishes, StreamResyncs
  <2>3. CASE Deliver(t, sub[t], p)
    BY <1>1, <1>5, <2>1, <2>3
  <2>4. CASE Terminate(t)
    BY <1>6, <2>1, <2>4 DEF Terminate
  <2>5. CASE UNCHANGED consumer
    BY <1>3, <2>5
  <2>6. QED
    BY <2>2, <2>3, <2>4, <2>5 DEF Pass
<1>16. QED
  BY <1>4, <1>7, <1>8, <1>9, <1>10, <1>11, <1>12, <1>13, <1>14, <1>15 DEF Next, Events, External

\* A subscription that has ended is told nothing new, whatever still arrives or
\* loads for it: only a flush that has begun and a queued refusal go on.
THEOREM QuietHolds == Spec => QuietAfterTheEnd
<1>1. Init => TypeOK /\ GateInv /\ StreamsMatch
  BY InitTypes, InitGates, InitStreams
<1>2. TypeOK /\ GateInv /\ StreamsMatch /\ [Next]_vars => (TypeOK /\ GateInv /\ StreamsMatch)'
  BY StepTypes, StepGates, StepStreams
<1>3. TypeOK /\ GateInv /\ StreamsMatch /\ [Next]_vars
        => [\A s \in Subs : Ended(s) => StaysQuiet(s)]_vars
  BY StepQuiet
<1>4. QED
  BY <1>1, <1>2, <1>3, PTL DEF Spec, QuietAfterTheEnd

-----------------------------------------------------------------------------
(* Chains.                                                                 *)

LEMMA ChainEmpty ==
    ASSUME NEW n, NEW m
    PROVE  Chain(<<>>, n, m) /\ EndOf(<<>>, n) = n
  BY DEF Chain, EndOf

LEMMA ChainGrows ==
    ASSUME NEW q \in Seq(Publication), NEW n \in Cursors, NEW m \in Positions, Chain(q, n, m)
    PROVE  Chain(q, n, m + 1)
<1>1. ASSUME NEW i \in 1 .. Len(q) PROVE q[i].pos \in Int
  <2>1. q[i] \in Publication
    BY ElementOfSeq
  <2>2. QED
    BY <2>1, HistoryTypes DEF Publication, Positions
<1>2. QED
  BY <1>1, HistoryTypes DEF Chain, Positions

LEMMA ChainTail ==
    ASSUME NEW q \in Seq(Publication), NEW n \in Cursors, NEW m \in Positions, Chain(q, n, m), q # <<>>
    PROVE  /\ Head(q) \in Publication /\ Head(q).pos <= m /\ Follows(Head(q), n)
           /\ Chain(Tail(q), Head(q).pos, m) /\ EndOf(Tail(q), Head(q).pos) = EndOf(q, n)
<1>1. /\ Head(q) = q[1] /\ Head(q) \in Publication /\ Tail(q) \in Seq(Publication)
      /\ Len(Tail(q)) = Len(q) - 1 /\ Len(q) \in Nat /\ Len(q) >= 1
      /\ \A i \in 1 .. Len(Tail(q)) : Tail(q)[i] = q[i + 1]
  BY HeadTailProperties, LenProperties, EmptySeq
<1>2. Head(q).pos <= m /\ Follows(Head(q), n)
  BY <1>1 DEF Chain
<1>3. ASSUME NEW i \in 1 .. Len(Tail(q))
      PROVE  /\ Tail(q)[i].pos <= m
             /\ Follows(Tail(q)[i], IF i = 1 THEN Head(q).pos ELSE Tail(q)[i - 1].pos)
  <2>1. i + 1 \in 1 .. Len(q) /\ i + 1 # 1 /\ (i + 1) - 1 = i /\ i \in 1 .. Len(q)
    BY <1>1
  <2>2. q[i + 1].pos <= m /\ Follows(q[i + 1], q[i].pos)
    BY <2>1 DEF Chain
  <2>3. q[i] = IF i = 1 THEN Head(q) ELSE Tail(q)[i - 1]
    BY <1>1, <2>1
  <2>4. QED
    BY <1>1, <2>2, <2>3
<1>4. EndOf(Tail(q), Head(q).pos) = EndOf(q, n)
  <2> DEFINE t == Tail(q)
  <2>1. t = <<>> <=> Len(t) = 0
    BY <1>1, EmptySeq
  <2>2. Len(t) = Len(q) - 1 /\ \A i \in 1 .. Len(t) : t[i] = q[i + 1]
    BY <1>1
  <2> HIDE DEF t
  <2>3. CASE Len(q) = 1
    <3>1. EndOf(t, Head(q).pos) = q[1].pos
      BY <1>1, <2>1, <2>2, <2>3 DEF EndOf
    <3>2. EndOf(q, n) = q[1].pos
      BY <2>3 DEF EndOf
    <3>3. QED
      BY <3>1, <3>2 DEF t
  <2>4. CASE Len(q) # 1
    <3>1. Len(t) \in 1 .. Len(t) /\ Len(t) + 1 = Len(q) /\ Len(t) # 0
      BY <1>1, <2>2, <2>4
    <3>2. t[Len(t)] = q[Len(q)]
      BY <2>2, <3>1
    <3>3. EndOf(t, Head(q).pos) = q[Len(q)].pos
      BY <2>1, <3>1, <3>2 DEF EndOf
    <3>4. QED
      BY <3>3 DEF EndOf, t
  <2>5. QED
    BY <2>3, <2>4
<1>5. QED
  BY <1>1, <1>2, <1>3, <1>4 DEF Chain

LEMMA ChainAppend ==
    ASSUME NEW q \in Seq(Publication), NEW n \in Cursors, NEW m \in Positions, Chain(q, n, m),
           NEW p \in Publication, p.pos <= m, Follows(p, EndOf(q, n))
    PROVE  Chain(Append(q, p), n, m) /\ EndOf(Append(q, p), n) = p.pos
<1> DEFINE a == Append(q, p)
<1>1. /\ Len(q) \in Nat /\ Len(a) = Len(q) + 1 /\ a # <<>> /\ a[Len(a)] = p
      /\ \A i \in 1 .. Len(q) : a[i] = q[i]
      /\ q = <<>> <=> Len(q) = 0
  BY AppendProperties, LenProperties, EmptySeq
<1> HIDE DEF a
<1>2. ASSUME NEW i \in 1 .. Len(a)
      PROVE  a[i].pos <= m /\ Follows(a[i], IF i = 1 THEN n ELSE a[i - 1].pos)
  <2>1. CASE i \in 1 .. Len(q)
    <3>1. a[i] = q[i] /\ (i # 1 => i - 1 \in 1 .. Len(q) /\ a[i - 1] = q[i - 1])
      BY <1>1, <2>1
    <3>2. QED
      BY <2>1, <3>1 DEF Chain
  <2>2. CASE i = Len(q) + 1
    <3>1. a[i] = p /\ EndOf(q, n) = IF i = 1 THEN n ELSE a[i - 1].pos
      BY <1>1, <2>2 DEF EndOf
    <3>2. QED
      BY <3>1
  <2>3. QED
    BY <1>1, <2>1, <2>2
<1>3. EndOf(a, n) = p.pos
  BY <1>1 DEF EndOf
<1>4. QED
  BY <1>2, <1>3 DEF Chain, a

-----------------------------------------------------------------------------
(* What a step is to a subscription.                                       *)

\* It is given p, or nothing.
Given(s, p) ==
    /\ consumer'[s].at = p.pos /\ consumer'[s].view = ViewAfter(s, p)
    /\ sub'[s].live = LiveAfter(sub[s].live, p)
    /\ HasSnapshot(cat)
Spared(s) ==
    /\ consumer'[s].at = consumer[s].at /\ consumer'[s].view = consumer[s].view
    /\ sub'[s].live = sub[s].live

\* Nothing comes or goes, at most it ends.
Kept(s) ==
    /\ Spared(s)
    /\ stream'[s].pos = stream[s].pos /\ log' \in {log, log + 1}
    /\ Waiting(s)' = Waiting(s) \/ (Waiting(s)' = <<>> /\ Ended(s)')
    /\ Ended(s) => Ended(s)'

\* A flush gives it the next of those that wait.
Flushed(s) ==
    /\ Waiting(s) # <<>> /\ Given(s, Head(Waiting(s))) /\ Waiting(s)' = Tail(Waiting(s))
    /\ stream'[s].pos = stream[s].pos /\ log' = log
    /\ Ended(s) => Ended(s)'

\* Its stream publishes p, which is given, waits, or is the end of it.
Published(s, p) ==
    /\ stream'[s].pos = p.pos /\ log' = log
    /\ \/ /\ Waiting(s) = <<>> /\ Waiting(s)' = <<>> /\ ~Ended(s)
          /\ Given(s, p)
       \/ /\ Waiting(s)' = Append(Waiting(s), p) /\ ~Ended(s)
          /\ Spared(s)
       \/ /\ Waiting(s)' = <<>> /\ Ended(s)'
          /\ Spared(s)

Step(s) == \/ Kept(s) \/ Flushed(s)
           \/ \E p \in Publications(s) \cup Resyncs(s) : Published(s, p)

LEMMA KeptFrame ==
    ASSUME NEW s \in Subs, Spared(s), stream'[s].pos = stream[s].pos, log' \in {log, log + 1},
           sub'[s].gate.queue = sub[s].gate.queue,
           flushing' = flushing \/ (flushing.s # s /\ flushing'.s # s),
           Ended(s) => Ended(s)'
    PROVE  Kept(s)
  BY DEF Kept, Waiting

LEMMA StepShape ==
    ASSUME TypeOK, GateInv, [Next]_vars, NEW s \in Subs
    PROVE  Step(s)
<1>1. /\ sub[s] \in Closures /\ sub \in [Subs -> Closures] /\ consumer \in [Subs -> Hearers]
      /\ consumer[s] \in Hearers /\ stream \in [Subs -> [open : BOOLEAN, pos : Cursors]]
      /\ flushing \in {Rest} \cup [s : Subs, left : Seq(Publication) \ {<<>>}]
  BY DEF TypeOK, SubTypes, ConsumerTypes, StreamTypes, FlushTypes
<1>2. GateOf(s) /\ s # NoSub
  BY SubscriptionAssumption DEF GateInv
<1>3. ASSUME sub'[s] = sub[s], Spared(s), stream'[s].pos = stream[s].pos, log' \in {log, log + 1},
             flushing' = flushing \/ (flushing.s # s /\ flushing'.s # s)
      PROVE  Step(s)
  <2>1. Kept(s)
    BY <1>3, KeptFrame DEF Ended
  <2>2. QED
    BY <2>1 DEF Step
<1>4. ASSUME UNCHANGED <<consumer, stream, log, flushing>>, sub'[s].gate = sub[s].gate,
             sub'[s].live = sub[s].live, sub'[s].state = sub[s].state
      PROVE  Step(s)
  <2>1. Kept(s)
    BY <1>4, KeptFrame DEF Ended, Spared
  <2>2. QED
    BY <2>1 DEF Step
<1>5. CASE Login \/ CallCatalog \/ AccountMoves \/ UNCHANGED vars
  BY <1>3, <1>5 DEF Login, CallCatalog, AccountMoves, vars, Spared
<1>6. CASE Logout
  BY <1>1, <1>4, <1>6 DEF Logout, Closures
<1>7. ASSUME NEW t \in Subs, CallReady(t) \/ JoinStream(t) PROVE Step(s)
  BY <1>1, <1>4, <1>7 DEF CallReady, JoinStream, Closures
<1>8. CASE RefreshSettles
  <2>1. PICK outcome : sub' = [t \in Subs |-> IF sub[t].ready = "refresh"
                                              THEN [sub[t] EXCEPT !.ready = outcome] ELSE sub[t]]
    BY <1>8 DEF RefreshSettles
  <2>2. QED
    BY <1>1, <1>4, <1>8, <2>1 DEF RefreshSettles, Closures
<1>9. CASE ModuleLoads \/ ModuleFails
  BY <1>1, <1>4, <1>9 DEF ModuleLoads, ModuleFails, Closures
<1>10. ASSUME NEW t \in Subs, HearOfFailure(t) \/ HearOfRefusal(t) \/ StreamEnds(t) PROVE Step(s)
  <2>1. UNCHANGED <<stream, log, flushing>> /\ sub' = [sub EXCEPT ![t].link = "gone"]
    BY <1>10 DEF HearOfFailure, HearOfRefusal, StreamEnds
  <2>2. consumer'[s].at = consumer[s].at /\ consumer'[s].view = consumer[s].view
    BY <1>1, <1>10 DEF HearOfFailure, HearOfRefusal, StreamEnds, Report, ReportAndClose, Hearers
  <2>3. Kept(s)
    BY <1>1, <2>1, <2>2, KeptFrame DEF Ended, Spared, Closures
  <2>4. QED
    BY <2>3 DEF Step
<1>11. ASSUME NEW t \in Subs, StreamOpens(t) \/ StreamCloses(t) PROVE Step(s)
  <2>1. UNCHANGED <<sub, log, flushing>> /\ stream'[s].pos = stream[s].pos
    BY <1>1, <1>11 DEF StreamOpens, StreamCloses
  <2>2. consumer'[s].at = consumer[s].at /\ consumer'[s].view = consumer[s].view
    BY <1>1, <1>11 DEF StreamOpens, StreamCloses, Tell, Hearers
  <2>3. QED
    BY <1>3, <2>1, <2>2 DEF Spared
<1>12. ASSUME NEW t \in Subs, Subscribe(t) PROVE Step(s)
  <2>1. UNCHANGED <<consumer, stream, log, flushing>>
    BY <1>12 DEF Subscribe
  <2>2. CASE t # s
    <3>1. sub'[s] = sub[s]
      BY <1>1, <1>12, <2>2 DEF Subscribe
    <3>2. QED
      BY <1>4, <2>1, <3>1
  <2>3. CASE t = s
    <3>1. sub[s] = Unused
      BY <1>2, <1>12, <2>3 DEF Subscribe, GateOf
    <3>2. PICK link : \/ sub'[s] = Subscribed(link)
                      \/ sub'[s] = [Subscribed(link) EXCEPT !.state = "disposed", !.gate = Shut(@)]
      BY <1>1, <1>12, <2>3 DEF Subscribe
    <3>3. /\ Subscribed(link).live = {} /\ Subscribed(link).gate = NewGate
          /\ [Subscribed(link) EXCEPT !.state = "disposed", !.gate = Shut(@)].live = {}
          /\ [Subscribed(link) EXCEPT !.state = "disposed", !.gate = Shut(@)].gate = Shut(NewGate)
      BY DEF Subscribed, Unused
    <3>4. /\ sub'[s].gate.queue = <<>> /\ sub'[s].live = {}
          /\ sub[s].gate.queue = <<>> /\ sub[s].live = {} /\ ~Ended(s)
      <4>1. NewGate.queue = <<>> /\ Shut(NewGate).queue = <<>>
        BY DEF NewGate, Shut
      <4>2. sub[s].gate = NewGate /\ sub[s].live = {} /\ sub[s].state = "unused"
        BY <3>1 DEF Unused
      <4>3. sub'[s].gate \in {NewGate, Shut(NewGate)} /\ sub'[s].live = {}
        BY <3>2, <3>3
      <4>4. QED
        BY <4>1, <4>2, <4>3 DEF Ended
    <3>5. Kept(s)
      BY <2>1, <3>4, KeptFrame DEF Spared
    <3>6. QED
      BY <3>5 DEF Step
  <2>4. QED
    BY <2>2, <2>3
<1>13. ASSUME NEW t \in Subs, Unsubscribe(t) PROVE Step(s)
  <2>1. UNCHANGED <<consumer, stream, log, flushing>>
    BY <1>13 DEF Unsubscribe
  <2>2. CASE t # s
    BY <1>1, <1>4, <1>13, <2>1, <2>2 DEF Unsubscribe
  <2>3. CASE t = s
    <3>1. sub'[s].live = sub[s].live /\ sub'[s].gate = Shut(sub[s].gate) /\ sub'[s].state = "disposed"
      BY <1>1, <1>13, <2>3 DEF Unsubscribe, Closures
    <3>2. Kept(s)
      BY <2>1, <3>1 DEF Kept, Spared, Waiting, Ended, Shut
    <3>3. QED
      BY <3>2 DEF Step
  <2>4. QED
    BY <2>2, <2>3
<1>14. ASSUME NEW t \in Subs, NEW r \in Closures, NEW p, Deliver(t, r, p), t # s,
              UNCHANGED <<log>>, stream'[s].pos = stream[s].pos,
              flushing' = flushing \/ (flushing.s # s /\ flushing'.s # s)
       PROVE  Step(s)
  BY <1>3, <1>14, DeliverLeaves DEF Spared
<1>15. ASSUME NEW r \in Closures, NEW p, Deliver(s, r, p), r.live = sub[s].live, HasSnapshot(cat)
       PROVE  Given(s, p) /\ sub'[s].gate = r.gate /\ sub'[s].state = r.state
  <2>1. /\ sub'[s].live = LiveAfter(r.live, p) /\ sub'[s].gate = r.gate /\ sub'[s].state = r.state
        /\ consumer'[s].view = ViewAfter(s, p) /\ consumer'[s].at = p.pos
    <3>1. Deliver(s, r, p) /\ r \in Closures
      BY <1>15
    <3>2. QED
      BY <3>1, DeliverLeaves
  <2>2. QED
    BY <1>15, <2>1 DEF Given
<1>16. ASSUME NEW t \in Subs, GateOpens(t) PROVE Step(s)
  <2> DEFINE open == [sub[t] EXCEPT !.ready = "done", !.gate = Opened(@)]
             done == [sub[t] EXCEPT !.ready = "done"]
             q    == sub[t].gate.queue
  <2>1. /\ open \in Closures /\ open.gate = Opened(sub[t].gate) /\ open.live = sub[t].live
        /\ open.state = sub[t].state
        /\ done \in Closures /\ done.gate = sub[t].gate /\ done.live = sub[t].live /\ done.state = sub[t].state
    <3>1. Opened(sub[t].gate) \in Gates /\ sub[t] \in Closures
      BY <1>1 DEF Opened, Gates
    <3>2. QED
      BY <3>1 DEF Closures
  <2>2. flushing = Rest /\ sub[t].ready = "resolved" /\ UNCHANGED <<cat, stream, log>>
    BY <1>16 DEF GateOpens, Idle
  <2>3. \/ sub' = [sub EXCEPT ![t] = done] /\ UNCHANGED <<consumer, flushing>>
        \/ q = <<>> /\ sub' = [sub EXCEPT ![t] = open] /\ UNCHANGED <<consumer, flushing>>
        \/ q # <<>> /\ Deliver(t, open, Head(q)) /\ Flush(t, Tail(q))
    BY <1>1, <1>16 DEF GateOpens
  <2> HIDE DEF open, done
  <2>4. CASE sub' = [sub EXCEPT ![t] = done] /\ UNCHANGED <<consumer, flushing>>
    BY <1>1, <1>4, <2>1, <2>2, <2>4
  <2>5. CASE q = <<>> /\ sub' = [sub EXCEPT ![t] = open] /\ UNCHANGED <<consumer, flushing>>
    <3>1. /\ sub'[s].gate.queue = sub[s].gate.queue /\ sub'[s].live = sub[s].live
          /\ sub'[s].state = sub[s].state
      BY <1>1, <2>1, <2>5 DEF Opened
    <3>2. Kept(s)
      BY <2>2, <2>5, <3>1, KeptFrame DEF Spared, Ended
    <3>3. QED
      BY <3>2 DEF Step
  <2>6. CASE q # <<>> /\ Deliver(t, open, Head(q)) /\ Flush(t, Tail(q))
    <3>1. flushing.s = NoSub /\ flushing' = IF Tail(q) = <<>> THEN Rest ELSE [s |-> t, left |-> Tail(q)]
      BY <2>2, <2>6 DEF Flush, Rest
    <3>2. CASE t # s
      <4>1. flushing.s # s /\ flushing'.s # s
        BY <1>2, <3>1, <3>2 DEF Rest
      <4>2. QED
        BY <1>14, <2>1, <2>2, <2>6, <3>2, <4>1
    <3>3. CASE t = s
      <4>1. HasSnapshot(cat)
        BY <1>2, <2>2, <3>3 DEF GateOf
      <4>2. Given(s, Head(q)) /\ sub'[s].gate = Opened(sub[s].gate) /\ sub'[s].state = sub[s].state
        BY <1>15, <2>1, <2>6, <3>3, <4>1
      <4>3. Waiting(s) = q
        BY <1>2, <3>1, <3>3 DEF Waiting
      <4>4. Waiting(s)' = Tail(q)
        <5>1. sub'[s].gate.queue = <<>>
          BY <4>2 DEF Opened
        <5>2. CASE Tail(q) = <<>>
          BY <1>2, <3>1, <5>1, <5>2 DEF Waiting, Rest
        <5>3. CASE Tail(q) # <<>>
          <6> HIDE DEF q
          <6>1. QED
            BY <3>1, <3>3, <5>3 DEF Waiting
        <5>4. QED
          BY <5>2, <5>3
      <4>5. Flushed(s)
        BY <2>2, <2>6, <4>2, <4>3, <4>4 DEF Flushed, Ended
      <4>6. QED
        BY <4>5 DEF Step
    <3>4. QED
      BY <3>2, <3>3
  <2>7. QED
    BY <2>3, <2>4, <2>5, <2>6
<1>17. ASSUME NEW t \in Subs, GateFails(t) PROVE Step(s)
  <2>1. UNCHANGED <<stream, log, flushing>> /\ flushing = Rest
    BY <1>17 DEF GateFails, Idle
  <2>2. CASE t # s
    <3>1. sub'[s] = sub[s] /\ consumer'[s] = consumer[s]
      BY <1>1, <1>17, <2>2 DEF GateFails, ReportAndClose
    <3>2. QED
      BY <1>3, <2>1, <3>1 DEF Spared
  <2>3. CASE t = s /\ sub[s].gate.state = "pending"
    <3>1. sub'[s] = [Terminated(sub[s]) EXCEPT !.ready = "done"]
      BY <1>1, <1>17, <2>3 DEF GateFails
    <3>2. sub'[s].live = sub[s].live /\ sub'[s].gate = Shut(sub[s].gate) /\ sub'[s].state = "terminal"
      BY <1>1, <3>1 DEF Terminated, Closures
    <3>3. consumer'[s].at = consumer[s].at /\ consumer'[s].view = consumer[s].view
      BY <1>1, <1>17, <2>3 DEF GateFails, ReportAndClose, Hearers
    <3>4. Waiting(s)' = <<>> /\ Ended(s)'
      BY <1>2, <2>1, <3>2 DEF Waiting, Ended, Rest, Shut
    <3>5. Kept(s)
      BY <2>1, <3>2, <3>3, <3>4 DEF Kept, Spared
    <3>6. QED
      BY <3>5 DEF Step
  <2>4. CASE t = s /\ sub[s].gate.state # "pending"
    BY <1>1, <1>4, <1>17, <2>1, <2>4 DEF GateFails, Closures
  <2>5. QED
    BY <2>2, <2>3, <2>4
<1>18. CASE FlushNext
  <2>1. /\ flushing.s \in Subs /\ flushing.left # <<>> /\ UNCHANGED <<cat, stream, log>>
        /\ Deliver(flushing.s, sub[flushing.s], Head(flushing.left))
        /\ flushing' = IF Tail(flushing.left) = <<>> THEN Rest
                       ELSE [s |-> flushing.s, left |-> Tail(flushing.left)]
    BY <1>1, <1>18 DEF FlushNext, Idle, Flush
  <2>2. CASE flushing.s # s
    <3>1. flushing'.s # s
      BY <1>2, <2>1, <2>2 DEF Rest
    <3>2. QED
      BY <1>1, <1>14, <2>1, <2>2, <3>1
  <2>3. CASE flushing.s = s
    <3>1. HasSnapshot(cat) /\ sub[s].gate.queue = <<>>
      BY <1>2, <2>3 DEF GateOf
    <3>2. Given(s, Head(flushing.left)) /\ sub'[s].gate = sub[s].gate /\ sub'[s].state = sub[s].state
      BY <1>1, <1>15, <2>1, <2>3, <3>1
    <3>3. Waiting(s) = flushing.left
      BY <2>3 DEF Waiting
    <3>4. Waiting(s)' = Tail(flushing.left)
      BY <1>2, <2>1, <2>3, <3>1, <3>2 DEF Waiting, Rest
    <3>5. Flushed(s)
      BY <2>1, <3>2, <3>3, <3>4 DEF Flushed, Ended
    <3>6. QED
      BY <3>5 DEF Step
  <2>4. QED
    BY <2>2, <2>3
<1>19. ASSUME NEW t \in Subs, StreamPublishes(t) \/ StreamResyncs(t) PROVE Step(s)
  <2>1. /\ UNCHANGED <<cat, flushing, log>> /\ flushing.s # s
        /\ \E p \in Publications(t) \cup Resyncs(t) :
              Pass(t, p) /\ stream' = [stream EXCEPT ![t].pos = p.pos]
    BY <1>2, <1>19 DEF StreamPublishes, StreamResyncs, Streaming, Idle, Rest
  <2>2. PICK p \in Publications(t) \cup Resyncs(t) :
           Pass(t, p) /\ stream' = [stream EXCEPT ![t].pos = p.pos]
    BY <2>1
  <2>3. CASE t # s
    <3>1. stream'[s] = stream[s]
      BY <1>1, <2>2, <2>3
    <3>2. CASE Deliver(t, sub[t], p)
      BY <1>1, <1>14, <2>1, <2>3, <3>1, <3>2
    <3>3. CASE ~Deliver(t, sub[t], p)
      <4>1. sub'[s] = sub[s] /\ consumer'[s] = consumer[s]
        BY <1>1, <2>2, <2>3, <3>3 DEF Pass, Terminate, ReportAndClose
      <4>2. QED
        BY <1>3, <2>1, <3>1, <4>1 DEF Spared
    <3>4. QED
      BY <3>2, <3>3
  <2>4. CASE t = s
    <3>1. stream'[s].pos = p.pos /\ Waiting(s) = sub[s].gate.queue /\ Waiting(s)' = sub'[s].gate.queue
      BY <1>1, <2>1, <2>2, <2>4 DEF Waiting
    <3>2. CASE sub[s].gate.state = "open" /\ Deliver(s, sub[s], p)
      <4>1. HasSnapshot(cat) /\ sub[s].gate.queue = <<>> /\ ~Ended(s)
        BY <1>2, <3>2 DEF GateOf
      <4>2. Given(s, p) /\ sub'[s].gate = sub[s].gate
        BY <1>1, <1>15, <3>2, <4>1
      <4>3. Published(s, p)
        BY <2>1, <3>1, <4>1, <4>2 DEF Published
      <4>4. QED
        BY <2>4, <4>3 DEF Step
    <3>3. CASE /\ sub[s].gate.state = "pending" /\ UNCHANGED consumer
               /\ sub' = [sub EXCEPT ![s].gate = Queued(sub[s].gate, p)]
      <4>1. sub'[s].gate = Queued(sub[s].gate, p) /\ sub'[s].live = sub[s].live
        BY <1>1, <3>3 DEF Closures
      <4>2. Queued(sub[s].gate, p).queue = Append(sub[s].gate.queue, p) /\ ~Ended(s)
        BY <1>1, <1>2, <3>3 DEF Queued, Closures, Gates, GateOf
      <4>3. Published(s, p)
        BY <2>1, <3>1, <3>3, <4>1, <4>2 DEF Published, Spared
      <4>4. QED
        BY <2>4, <4>3 DEF Step
    <3>4. CASE Terminate(s)
      <4>1. sub'[s].live = sub[s].live /\ sub'[s].gate = Shut(sub[s].gate) /\ sub'[s].state = "terminal"
        BY <1>1, <3>4 DEF Terminate, Terminated, Closures
      <4>2. consumer'[s].at = consumer[s].at /\ consumer'[s].view = consumer[s].view
        BY <1>1, <3>4 DEF Terminate, ReportAndClose, Hearers
      <4>3. Published(s, p)
        BY <2>1, <3>1, <4>1, <4>2 DEF Published, Spared, Ended, Shut
      <4>4. QED
        BY <2>4, <4>3 DEF Step
    <3>5. CASE sub[s].gate.state = "closed" /\ UNCHANGED <<sub, consumer>>
      <4>1. Ended(s) /\ sub[s].gate.queue = <<>>
        BY <1>2, <3>5 DEF GateOf
      <4>2. Published(s, p)
        BY <2>1, <3>1, <3>5, <4>1 DEF Published, Spared, Ended
      <4>3. QED
        BY <2>4, <4>2 DEF Step
    <3>6. sub[s].gate.state \in {"pending", "open", "closed"}
      BY <1>1 DEF Closures, Gates
    <3>7. QED
      BY <2>2, <2>4, <3>2, <3>3, <3>4, <3>5, <3>6 DEF Pass
  <2>5. QED
    BY <2>3, <2>4
<1>20. QED
  BY <1>5, <1>6, <1>7, <1>8, <1>9, <1>10, <1>11, <1>12, <1>13, <1>16, <1>17, <1>18, <1>19
  DEF Next, App, Events, External

-----------------------------------------------------------------------------
(* Order.                                                                  *)

LEMMA WaitingTypes ==
    ASSUME TypeOK, NEW s \in Subs
    PROVE  Waiting(s) \in Seq(Publication)
<1>1. sub[s].gate.queue \in Seq(Publication)
  BY DEF TypeOK, SubTypes, Closures, Gates
<1>2. flushing.s = s => flushing.left \in Seq(Publication)
  BY SubscriptionAssumption DEF TypeOK, FlushTypes, Rest
<1>3. QED
  BY <1>1, <1>2 DEF Waiting

LEMMA InitOrder == Init => OrderInv
<1> SUFFICES ASSUME Init, NEW s \in Subs PROVE OrderOf(s)
  BY DEF OrderInv
<1>1. consumer[s].at = NoCursor /\ stream[s].pos = NoCursor /\ log = 0
  BY DEF Init, Untold, Stream
<1>2. Waiting(s) = <<>>
  BY SubscriptionAssumption DEF Init, Waiting, Rest, Unused, NewGate
<1>3. QED
  BY <1>1, <1>2, ChainEmpty DEF OrderOf, NoCursor

LEMMA StepOrder == TypeOK /\ GateInv /\ OrderInv /\ [Next]_vars => OrderInv'
<1> SUFFICES ASSUME TypeOK, GateInv, OrderInv, [Next]_vars, NEW s \in Subs PROVE OrderOf(s)'
  BY DEF OrderInv
<1> DEFINE q == Waiting(s)
           n == consumer[s].at
<1>1. /\ q \in Seq(Publication) /\ n \in Cursors /\ log \in Positions /\ stream[s].pos \in Cursors
      /\ n \in Int /\ log \in Int /\ stream[s].pos \in Int
  <2>1. q \in Seq(Publication) /\ n \in Cursors /\ log \in Positions /\ stream[s].pos \in Cursors
    BY WaitingTypes DEF TypeOK, ConsumerTypes, Hearers, StreamTypes
  <2>2. QED
    BY <2>1, HistoryTypes DEF Cursors, Positions, NoCursor
<1>2. n <= log /\ stream[s].pos <= log /\ Chain(q, n, log) /\ (~Ended(s) => stream[s].pos = EndOf(q, n))
  BY DEF OrderInv, OrderOf
<1> HIDE DEF q, n
<1>3. CASE Kept(s)
  <2>1. /\ consumer'[s].at = n /\ stream'[s].pos = stream[s].pos /\ log' \in {log, log + 1}
        /\ Waiting(s)' = q \/ (Waiting(s)' = <<>> /\ Ended(s)')
        /\ Ended(s) => Ended(s)'
    BY <1>3 DEF Kept, Spared, q, n
  <2>2. Chain(q, n, log') /\ Chain(<<>>, n, log')
    BY <1>1, <1>2, <2>1, ChainGrows, ChainEmpty
  <2>3. n <= log' /\ stream[s].pos <= log'
    BY <1>1, <1>2, <2>1
  <2>4. QED
    BY <1>2, <2>1, <2>2, <2>3 DEF OrderOf
<1>4. CASE Flushed(s)
  <2>1. /\ q # <<>> /\ consumer'[s].at = Head(q).pos /\ Waiting(s)' = Tail(q)
        /\ stream'[s].pos = stream[s].pos /\ log' = log /\ (Ended(s) => Ended(s)')
    BY <1>4 DEF Flushed, Given, q
  <2>2. /\ Head(q).pos <= log /\ Chain(Tail(q), Head(q).pos, log)
        /\ EndOf(Tail(q), Head(q).pos) = EndOf(q, n)
    BY <1>1, <1>2, <2>1, ChainTail
  <2>3. QED
    BY <1>2, <2>1, <2>2 DEF OrderOf
<1>5. ASSUME NEW p \in Publications(s) \cup Resyncs(s), Published(s, p) PROVE OrderOf(s)'
  <2>1. p \in Publication /\ p.pos <= log /\ Follows(p, stream[s].pos)
    BY PublishedTypes
  <2>2. stream'[s].pos = p.pos /\ log' = log
    BY <1>5 DEF Published
  <2>3. CASE /\ Waiting(s)' = <<>> /\ Given(s, p)
    BY <2>1, <2>2, <2>3, ChainEmpty DEF OrderOf, Given
  <2>4. CASE Waiting(s)' = Append(q, p) /\ ~Ended(s) /\ Spared(s)
    <3>1. Chain(Append(q, p), n, log) /\ EndOf(Append(q, p), n) = p.pos
      BY <1>1, <1>2, <2>1, <2>4, ChainAppend
    <3>2. QED
      BY <1>2, <2>1, <2>2, <2>4, <3>1 DEF OrderOf, Spared, n
  <2>5. CASE Waiting(s)' = <<>> /\ Ended(s)' /\ Spared(s)
    BY <1>2, <2>1, <2>2, <2>5, ChainEmpty DEF OrderOf, Spared, n
  <2>6. QED
    BY <1>5, <2>3, <2>4, <2>5 DEF Published, q
<1>6. QED
  BY <1>3, <1>4, <1>5, StepShape DEF Step

-----------------------------------------------------------------------------
(* Giving up.                                                              *)

\* Only a gate whose catalog failed and a full one end a subscription with an
\* error, and both tell its consumer.
LEMMA TerminalStep ==
    ASSUME TypeOK, GateInv, [Next]_vars, NEW s \in Subs,
           sub'[s].state = "terminal", sub[s].state # "terminal"
    PROVE  ReportAndClose(s, "publication_handler")
<1> DEFINE Told == ReportAndClose(s, "publication_handler")
<1>1. /\ sub \in [Subs -> Closures] /\ \A t \in Subs : sub[t] \in Closures /\ GateOf(t)
      /\ flushing \in {Rest} \cup [s : Subs, left : Seq(Publication) \ {<<>>}]
  BY DEF TypeOK, SubTypes, FlushTypes, GateInv
<1>2. ASSUME sub'[s].state = sub[s].state PROVE Told
  BY <1>2
<1> SUFFICES Told
  BY DEF Told
<1> HIDE DEF Told
<1>3. CASE Login \/ CallCatalog \/ AccountMoves \/ UNCHANGED vars
  BY <1>2, <1>3 DEF Login, CallCatalog, AccountMoves, vars
<1>4. CASE Logout
  <2>1. sub'[s] = [sub[s] EXCEPT !.link = Left(@)]
    BY <1>4 DEF Logout
  <2>2. QED
    BY <1>1, <1>2, <2>1 DEF Closures
<1>5. CASE RefreshSettles
  <2>1. PICK outcome : sub'[s] = IF sub[s].ready = "refresh"
                                 THEN [sub[s] EXCEPT !.ready = outcome] ELSE sub[s]
    BY <1>5 DEF RefreshSettles
  <2>2. QED
    BY <1>1, <1>2, <2>1 DEF Closures
<1>6. CASE ModuleLoads \/ ModuleFails
  <2>1. PICK link : sub'[s] = [sub[s] EXCEPT !.link = link] \/ sub'[s] = sub[s]
    BY <1>6 DEF ModuleLoads, ModuleFails
  <2>2. QED
    BY <1>1, <1>2, <2>1 DEF Closures
<1>7. ASSUME NEW t \in Subs, CallReady(t) \/ JoinStream(t) \/ HearOfFailure(t) \/ HearOfRefusal(t) \/ StreamEnds(t)
      PROVE  Told
  <2>1. PICK r : \/ sub' = [sub EXCEPT ![t].ready = r]
                 \/ sub' = [sub EXCEPT ![t].link = r]
    BY <1>7 DEF CallReady, JoinStream, HearOfFailure, HearOfRefusal, StreamEnds
  <2>2. sub'[s].state = sub[s].state
    BY <1>1, <2>1 DEF Closures
  <2>3. QED
    BY <1>2, <2>2
<1>8. ASSUME NEW t \in Subs, StreamOpens(t) \/ StreamCloses(t) PROVE Told
  BY <1>2, <1>8 DEF StreamOpens, StreamCloses
<1>9. ASSUME NEW t \in Subs, Subscribe(t) PROVE Told
  <2>1. CASE t # s
    <3>1. sub'[s] = sub[s]
      BY <1>1, <1>9, <2>1 DEF Subscribe
    <3>2. QED
      BY <1>2, <3>1
  <2>2. CASE t = s
    <3>1. PICK link : \/ sub'[s] = Subscribed(link)
                      \/ sub'[s] = [Subscribed(link) EXCEPT !.state = "disposed", !.gate = Shut(@)]
      BY <1>1, <1>9, <2>2 DEF Subscribe
    <3>2. /\ Subscribed(link).state = "active"
          /\ [Subscribed(link) EXCEPT !.state = "disposed", !.gate = Shut(@)].state = "disposed"
      BY DEF Subscribed, Unused
    <3>3. sub'[s].state # "terminal"
      BY <3>1, <3>2
    <3>4. QED
      BY <3>3
  <2>3. QED
    BY <2>1, <2>2
<1>10. ASSUME NEW t \in Subs, Unsubscribe(t) PROVE Told
  <2>1. CASE t # s
    <3>1. sub'[s] = sub[s]
      BY <1>1, <1>10, <2>1 DEF Unsubscribe
    <3>2. QED
      BY <1>2, <3>1
  <2>2. CASE t = s
    <3>1. sub'[s].state = "disposed"
      BY <1>1, <1>10, <2>2 DEF Unsubscribe, Closures
    <3>2. QED
      BY <3>1
  <2>3. QED
    BY <2>1, <2>2
<1>11. ASSUME NEW t \in Subs, NEW r \in Closures, NEW p, Deliver(t, r, p), r.state = sub[t].state
       PROVE  Told
  <2>1. sub'[s].state = sub[s].state
    BY <1>11, DeliverLeaves
  <2>2. QED
    BY <1>2, <2>1
<1>12. ASSUME NEW t \in Subs, GateOpens(t) PROVE Told
  <2> DEFINE open == [sub[t] EXCEPT !.ready = "done", !.gate = Opened(@)]
  <2>1. open \in Closures /\ open.state = sub[t].state
    <3>1. Opened(sub[t].gate) \in Gates /\ sub[t] \in Closures
      BY <1>1 DEF Opened, Gates
    <3>2. QED
      BY <3>1 DEF Closures
  <2>2. \/ sub' = [sub EXCEPT ![t].ready = "done"] \/ sub' = [sub EXCEPT ![t] = open]
        \/ \E p : Deliver(t, open, p)
    BY <1>12 DEF GateOpens
  <2> HIDE DEF open
  <2>3. CASE sub' = [sub EXCEPT ![t].ready = "done"] \/ sub' = [sub EXCEPT ![t] = open]
    <3>1. sub'[s].state = sub[s].state
      BY <1>1, <2>1, <2>3 DEF Closures
    <3>2. QED
      BY <1>2, <3>1
  <2>4. QED
    BY <1>11, <2>1, <2>2, <2>3
<1>13. ASSUME NEW t \in Subs, GateFails(t) PROVE Told
  <2>1. CASE t # s
    <3>1. sub'[s] = sub[s]
      BY <1>1, <1>13, <2>1 DEF GateFails
    <3>2. QED
      BY <1>2, <3>1
  <2>2. CASE t = s /\ sub[s].gate.state = "pending"
    BY <1>13, <2>2 DEF GateFails, Told
  <2>3. CASE t = s /\ sub[s].gate.state # "pending"
    <3>1. sub'[s].state = sub[s].state
      BY <1>1, <1>13, <2>3 DEF GateFails, Closures
    <3>2. QED
      BY <1>2, <3>1
  <2>4. QED
    BY <2>1, <2>2, <2>3
<1>14. CASE FlushNext
  <2>1. flushing.s \in Subs /\ Deliver(flushing.s, sub[flushing.s], Head(flushing.left))
    BY <1>1, <1>14 DEF FlushNext, Idle
  <2>2. QED
    BY <1>1, <1>11, <2>1
<1>15. ASSUME NEW t \in Subs, StreamPublishes(t) \/ StreamResyncs(t) PROVE Told
  <2>1. PICK p : Pass(t, p)
    BY <1>15 DEF StreamPublishes, StreamResyncs
  <2>2. CASE Deliver(t, sub[t], p)
    BY <1>1, <1>11, <2>2
  <2>3. CASE Terminate(t)
    <3>1. CASE t = s
      BY <2>3, <3>1 DEF Terminate, Told
    <3>2. CASE t # s
      <4>1. sub'[s] = sub[s]
        BY <1>1, <2>3, <3>2 DEF Terminate
      <4>2. QED
        BY <1>2, <4>1
    <3>3. QED
      BY <3>1, <3>2
  <2>4. CASE sub' = sub \/ sub' = [sub EXCEPT ![t].gate = Queued(sub[t].gate, p)]
    <3>1. sub'[s].state = sub[s].state
      BY <1>1, <2>4 DEF Closures
    <3>2. QED
      BY <1>2, <3>1
  <2>5. QED
    BY <2>1, <2>2, <2>3, <2>4 DEF Pass
<1>16. QED
  BY <1>3, <1>4, <1>5, <1>6, <1>7, <1>8, <1>9, <1>10, <1>12, <1>13, <1>14, <1>15
  DEF Next, App, Events, External

\* A gate that gave up has told its consumer, and nothing takes that back.
ToldInv == \A s \in Subs : sub[s].state = "terminal" =>
              "publication_handler" \in consumer[s].errors /\ consumer[s].state = "disconnected"

LEMMA StepTold == TypeOK /\ GateInv /\ StreamsMatch /\ ToldInv /\ [Next]_vars => ToldInv'
<1> SUFFICES ASSUME TypeOK, GateInv, StreamsMatch, ToldInv, [Next]_vars,
                    NEW s \in Subs, sub'[s].state = "terminal"
             PROVE  "publication_handler" \in consumer'[s].errors /\ consumer'[s].state = "disconnected"
  BY DEF ToldInv
<1>1. CASE sub[s].state = "terminal"
  <2>1. "publication_handler" \in consumer[s].errors /\ consumer[s].state = "disconnected"
    BY <1>1 DEF ToldInv
  <2>2. consumer'[s].state = consumer[s].state /\ consumer[s].errors \subseteq consumer'[s].errors
    BY <1>1, StepQuiet DEF Ended, StaysQuiet
  <2>3. QED
    BY <2>1, <2>2
<1>2. CASE sub[s].state # "terminal"
  <2>1. consumer[s] \in Hearers /\ consumer \in [Subs -> Hearers]
    BY DEF TypeOK, ConsumerTypes
  <2>2. ReportAndClose(s, "publication_handler")
    BY <1>2, TerminalStep
  <2>3. consumer'[s] = [consumer[s] EXCEPT !.errors = @ \cup {"publication_handler"}, !.state = "disconnected"]
    BY <2>1, <2>2 DEF ReportAndClose
  <2>4. QED
    BY <2>1, <2>3 DEF Hearers
<1>3. QED
  BY <1>1, <1>2

LEMMA InitTold == Init => ToldInv
  BY DEF Init, ToldInv, Unused

\* The gate drops nothing of an active subscription, whatever it holds back, and
\* one that gave up has told its consumer of the error and of the close.
THEOREM UnbrokenHolds == Spec => []UnbrokenOrTold
<1> DEFINE IInv == TypeOK /\ GateInv /\ StreamsMatch /\ OrderInv /\ ToldInv
<1>1. Init => IInv
  BY InitTypes, InitGates, InitStreams, InitOrder, InitTold
<1>2. IInv /\ [Next]_vars => IInv'
  BY StepTypes, StepGates, StepStreams, StepOrder, StepTold
<1>3. IInv => UnbrokenOrTold
  BY DEF UnbrokenOrTold, OrderInv, OrderOf, ToldInv, Ended
<1>4. QED
  BY <1>1, <1>2, <1>3, PTL DEF Spec

-----------------------------------------------------------------------------
(* Views.                                                                  *)

\* What a unit does to the account's live view.
LEMMA ViewStep ==
    ASSUME NEW n \in 1 .. Len(Units), NEW o \in OrderIds
    PROVE  ViewAt(n)[o] = IF o \in Units[n].removed THEN {}
                          ELSE IF o \in Units[n].put THEN {n} ELSE ViewAt(n - 1)[o]
<1>1. n \in Nat /\ n >= 1
  BY HistoryTypes
<1>2. /\ ViewAt(n)[o] = {m \in 1 .. n : /\ o \in Units[m].put \ Units[m].removed
                                       /\ \A k \in (m + 1) .. n : ~Touched(o, k)}
      /\ ViewAt(n - 1)[o] = {m \in 1 .. n - 1 : /\ o \in Units[m].put \ Units[m].removed
                                               /\ \A k \in (m + 1) .. n - 1 : ~Touched(o, k)}
  BY DEF ViewAt
<1>3. ASSUME NEW m \in 1 .. n - 1
      PROVE  m \in 1 .. n /\ m # n /\ n \in (m + 1) .. n
             /\ (m + 1) .. n = ((m + 1) .. n - 1) \cup {n}
  BY <1>1
<1>4. CASE o \in Units[n].removed
  <2>1. Touched(o, n)
    BY <1>4 DEF Touched
  <2>2. \A m \in 1 .. n : m = n \/ m \in 1 .. n - 1
    BY <1>1
  <2>3. ViewAt(n)[o] = {}
    BY <1>2, <1>3, <1>4, <2>1, <2>2
  <2>4. QED
    BY <1>4, <2>3
<1>5. CASE o \notin Units[n].removed /\ o \in Units[n].put
  <2>1. Touched(o, n)
    BY <1>5 DEF Touched
  <2>2. \A m \in 1 .. n : m = n \/ m \in 1 .. n - 1
    BY <1>1
  <2>3. (n + 1) .. n = {} /\ n \in 1 .. n
    BY <1>1
  <2>4. ViewAt(n)[o] = {n}
    BY <1>2, <1>3, <1>5, <2>1, <2>2, <2>3
  <2>5. QED
    BY <1>5, <2>4
<1>6. CASE ~Touched(o, n)
  <2>1. \A m \in 1 .. n : m = n \/ m \in 1 .. n - 1
    BY <1>1
  <2>2. o \notin Units[n].removed /\ o \notin Units[n].put
    BY <1>6 DEF Touched
  <2>3. ViewAt(n)[o] = ViewAt(n - 1)[o]
    BY <1>2, <1>3, <1>6, <2>1, <2>2
  <2>4. QED
    BY <2>2, <2>3
<1>7. QED
  BY <1>4, <1>5, <1>6 DEF Touched

\* What ViewIsLive says of one subscription.
Truthful(s) ==
    consumer[s].at # NoCursor =>
        \A o \in OrderIds : LET true == ViewAt(consumer[s].at)[o]
                            IN  /\ true = {} => consumer[s].view[o] = {}
                                /\ o \in AlwaysListed => consumer[s].view[o] = true

LEMMA SparedViews ==
    ASSUME LiveInv, ViewIsLive, NEW s \in Subs, Spared(s)
    PROVE  LiveOf(s)' /\ Truthful(s)'
<1>1. LiveOf(s) /\ Truthful(s)
  BY DEF LiveInv, ViewIsLive, Truthful
<1>2. LiveOf(s)'
  BY <1>1 DEF LiveOf, Spared
<1>3. Truthful(s)'
  BY <1>1 DEF Truthful, Spared
<1>4. QED
  BY <1>2, <1>3

LEMMA AllList ==
    ASSUME TypeOK, HasSnapshot(cat), NEW o \in AlwaysListed
    PROVE  Lists(cat, o)
<1>1. PICK listing \in cat.listed : listing \in Listings
  BY DEF HasSnapshot, TypeOK, ClientTypes, Catalogs
<1>2. QED
  BY <1>1 DEF AlwaysListed, Lists

LEMMA GivenViews ==
    ASSUME TypeOK, LiveInv, ViewIsLive, NEW s \in Subs, NEW p \in Publication,
           Follows(p, consumer[s].at), Given(s, p)
    PROVE  LiveOf(s)' /\ Truthful(s)'
<1> DEFINE n == consumer[s].at
<1>1. /\ p.pos \in Positions /\ p.pos # NoCursor
      /\ p.type # "snapshot" => p.type = "unit" /\ p.pos \in 1 .. Len(Units) /\ n = p.pos - 1 /\ n # NoCursor
      /\ n \in Int
  <2>1. n \in Cursors
    BY DEF TypeOK, ConsumerTypes, Hearers
  <2>2. QED
    BY <2>1, HistoryTypes DEF Publication, Positions, NoCursor, Follows, Cursors
<1>2. LiveOf(s) /\ Truthful(s)
  BY DEF LiveInv, ViewIsLive, Truthful
<1>3. /\ consumer'[s].at = p.pos /\ consumer'[s].view = ViewAfter(s, p)
      /\ sub'[s].live = LiveAfter(sub[s].live, p)
  BY DEF Given
<1>4. LiveAfter(sub[s].live, p) = Ids(p.pos)
  <2>1. CASE p.type = "snapshot"
    BY <2>1 DEF LiveAfter
  <2>2. CASE p.type # "snapshot"
    <3>1. sub[s].live = Ids(n) /\ Units[p.pos].put \subseteq OrderIds
      BY <1>1, <1>2, <2>2, HistoryTypes DEF LiveOf
    <3>2. ASSUME NEW o \in OrderIds
          PROVE  o \in Ids(p.pos) <=> o \in (Ids(n) \cup Units[p.pos].put) \ Units[p.pos].removed
      <4>1. ViewAt(p.pos)[o] = IF o \in Units[p.pos].removed THEN {}
                               ELSE IF o \in Units[p.pos].put THEN {p.pos} ELSE ViewAt(n)[o]
        BY <1>1, <2>2, ViewStep
      <4> HIDE DEF n
      <4>2. /\ o \in Ids(p.pos) <=> ViewAt(p.pos)[o] # {}
            /\ o \in Ids(n) <=> ViewAt(n)[o] # {}
        BY DEF Ids
      <4>3. QED
        BY <4>1, <4>2
    <3>3. Ids(p.pos) = (Ids(n) \cup Units[p.pos].put) \ Units[p.pos].removed
      BY <3>1, <3>2 DEF Ids
    <3>4. QED
      BY <2>2, <3>1, <3>3 DEF LiveAfter
  <2>3. QED
    BY <2>1, <2>2
<1>5. LiveOf(s)'
  BY <1>1, <1>3, <1>4 DEF LiveOf
<1>6. ASSUME NEW o \in OrderIds
      PROVE  /\ ViewAt(p.pos)[o] = {} => ViewAfter(s, p)[o] = {}
             /\ o \in AlwaysListed => ViewAfter(s, p)[o] = ViewAt(p.pos)[o]
  <2>1. ViewAfter(s, p)[o] =
          IF o \in RemovedBy(sub[s].live, p) THEN {}
          ELSE IF o \in Known(p) THEN Version(p, o)
          ELSE IF s \in WithSnapshots /\ p.type = "snapshot" THEN {}
          ELSE consumer[s].view[o]
    BY DEF ViewAfter
  <2>2. o \in AlwaysListed => Lists(cat, o)
    BY AllList DEF Given
  <2>3. CASE p.type = "snapshot"
    <3>1. /\ o \in RemovedBy(sub[s].live, p) <=> o \in sub[s].live /\ ViewAt(p.pos)[o] = {}
          /\ o \in Known(p) <=> Lists(cat, o) /\ ViewAt(p.pos)[o] # {}
          /\ Version(p, o) = ViewAt(p.pos)[o]
      BY <2>3 DEF RemovedBy, Known, Version, Ids
    <3>2. o \notin sub[s].live => consumer[s].view[o] = {}
      BY <1>2 DEF LiveOf, Truthful, Ids, EmptyView
    <3>3. QED
      BY <2>1, <2>2, <3>1, <3>2
  <2>4. CASE p.type # "snapshot"
    <3>1. /\ o \in RemovedBy(sub[s].live, p) <=> o \in Units[p.pos].removed
          /\ o \in Known(p) <=> Lists(cat, o) /\ o \in Units[p.pos].put
          /\ Version(p, o) = {p.pos}
      BY <1>1, <2>4 DEF RemovedBy, Known, Version
    <3>2. /\ ViewAt(n)[o] = {} => consumer[s].view[o] = {}
          /\ o \in AlwaysListed => consumer[s].view[o] = ViewAt(n)[o]
      BY <1>1, <1>2, <2>4 DEF Truthful
    <3>3. ViewAt(p.pos)[o] = IF o \in Units[p.pos].removed THEN {}
                             ELSE IF o \in Units[p.pos].put THEN {p.pos} ELSE ViewAt(n)[o]
      BY <1>1, <2>4, ViewStep
    <3> HIDE DEF n
    <3>4. QED
      BY <2>1, <2>2, <2>4, <3>1, <3>2, <3>3
  <2>5. QED
    BY <2>3, <2>4
<1>7. Truthful(s)'
  BY <1>1, <1>3, <1>6 DEF Truthful
<1>8. QED
  BY <1>5, <1>7

LEMMA StepViews == TypeOK /\ GateInv /\ OrderInv /\ LiveInv /\ ViewIsLive /\ [Next]_vars => LiveInv' /\ ViewIsLive'
<1> SUFFICES ASSUME TypeOK, GateInv, OrderInv, LiveInv, ViewIsLive, [Next]_vars, NEW s \in Subs
             PROVE  LiveOf(s)' /\ Truthful(s)'
  BY DEF LiveInv, ViewIsLive, Truthful
<1>1. CASE Spared(s)
  BY <1>1, SparedViews
<1>2. CASE Flushed(s)
  <2>1. /\ Waiting(s) \in Seq(Publication) /\ Waiting(s) # <<>> /\ log \in Positions
        /\ consumer[s].at \in Cursors /\ Given(s, Head(Waiting(s)))
    BY <1>2, WaitingTypes DEF Flushed, TypeOK, StreamTypes, ConsumerTypes, Hearers
  <2>2. Head(Waiting(s)) \in Publication /\ Follows(Head(Waiting(s)), consumer[s].at)
    BY <2>1, ChainTail DEF OrderInv, OrderOf
  <2>3. QED
    BY <2>1, <2>2, GivenViews
<1>3. ASSUME NEW p \in Publications(s) \cup Resyncs(s), Published(s, p) PROVE LiveOf(s)' /\ Truthful(s)'
  <2>1. CASE Waiting(s) = <<>> /\ ~Ended(s) /\ Given(s, p)
    <3>1. stream[s].pos = consumer[s].at
      BY <2>1, ChainEmpty DEF OrderInv, OrderOf
    <3>2. p \in Publication /\ Follows(p, consumer[s].at)
      BY <3>1, PublishedTypes
    <3>3. QED
      BY <2>1, <3>2, GivenViews
  <2>2. QED
    BY <1>1, <1>3, <2>1 DEF Published
<1>4. QED
  BY <1>1, <1>2, <1>3, StepShape DEF Step, Kept

LEMMA InitViews == Init => LiveInv /\ ViewIsLive
  BY DEF Init, LiveInv, LiveOf, ViewIsLive, Untold, Unused

\* A consumer shows no order that has left the account's live view, and shows as
\* it is there every order whose symbol all catalogs know.
THEOREM ViewIsLiveHolds == Spec => []ViewIsLive
<1> DEFINE IInv == TypeOK /\ GateInv /\ OrderInv /\ LiveInv /\ ViewIsLive
<1>1. Init => IInv
  BY InitTypes, InitGates, InitOrder, InitViews
<1>2. IInv /\ [Next]_vars => IInv'
  BY StepTypes, StepGates, StepOrder, StepViews
<1>3. QED
  BY <1>1, <1>2, PTL DEF Spec

-----------------------------------------------------------------------------
(* The feed.                                                               *)

\* A step of which the feed of a subscription shows nothing.
SameFeed(t) == /\ consumer'[t].state = consumer[t].state /\ consumer'[t].at = consumer[t].at
               /\ sub'[t].state = "unused" <=> sub[t].state = "unused"
Alone(s) == log' = log /\ \A t \in Subs \ {s} : SameFeed(t)

Attaches(s) == /\ sub[s].state = "unused" /\ sub'[s].state # "unused"
               /\ consumer'[s] = consumer[s]
Shows(s)    == /\ sub[s].state # "unused" /\ sub'[s].state # "unused"
               /\ consumer'[s].state = consumer[s].state
Switches(s) == /\ sub[s].state # "unused" /\ sub'[s].state # "unused"
               /\ consumer'[s].at = consumer[s].at
               /\ consumer'[s].state \in {"connected", "disconnected"}

\* At most one subscription is shown something, and of one kind.
FeedShape == \/ UNCHANGED <<consumer, sub>> /\ log < Len(Units) /\ log' = log + 1
             \/ log' = log /\ \A t \in Subs : SameFeed(t)
             \/ \E s \in Subs : Alone(s) /\ (Attaches(s) \/ Shows(s) \/ Switches(s))

LEMMA StepFeedShape ==
    ASSUME TypeOK, GateInv, [Next]_vars
    PROVE  FeedShape
<1>1. /\ sub \in [Subs -> Closures] /\ consumer \in [Subs -> Hearers]
      /\ \A t \in Subs : sub[t] \in Closures /\ consumer[t] \in Hearers
  BY DEF TypeOK, SubTypes, ConsumerTypes
<1>2. ASSUME UNCHANGED <<log, consumer>>, \A t \in Subs : sub'[t].state = sub[t].state PROVE FeedShape
  BY <1>2 DEF FeedShape, SameFeed
<1>3. CASE AccountMoves
  BY <1>3 DEF AccountMoves, FeedShape
<1>4. CASE Login \/ CallCatalog \/ UNCHANGED vars
  BY <1>2, <1>4 DEF Login, CallCatalog, vars
<1>5. CASE Logout
  BY <1>1, <1>2, <1>5 DEF Logout, Closures
<1>6. ASSUME NEW s \in Subs, CallReady(s) \/ JoinStream(s) PROVE FeedShape
  BY <1>1, <1>2, <1>6 DEF CallReady, JoinStream, Closures
<1>7. CASE RefreshSettles
  <2>1. PICK outcome : sub' = [t \in Subs |-> IF sub[t].ready = "refresh"
                                              THEN [sub[t] EXCEPT !.ready = outcome] ELSE sub[t]]
    BY <1>7 DEF RefreshSettles
  <2>2. QED
    BY <1>1, <1>2, <1>7, <2>1 DEF RefreshSettles, Closures
<1>8. CASE ModuleLoads \/ ModuleFails
  BY <1>1, <1>2, <1>8 DEF ModuleLoads, ModuleFails, Closures
<1>9. ASSUME NEW s \in Subs, Alone(s), Attaches(s) \/ Shows(s) \/ Switches(s) PROVE FeedShape
  BY <1>9 DEF FeedShape
<1>10. ASSUME NEW s \in Subs, NEW r, NEW state, UNCHANGED log,
              sub' = [sub EXCEPT ![s] = r], consumer' = [consumer EXCEPT ![s] = state]
       PROVE  Alone(s)
  BY <1>1, <1>10 DEF Alone, SameFeed
<1>11. ASSUME NEW s \in Subs, Subscribe(s) PROVE FeedShape
  <2>1. UNCHANGED <<consumer, log>> /\ sub[s].state = "unused"
    BY <1>11 DEF Subscribe
  <2>2. \A t \in Subs \ {s} : sub'[t] = sub[t]
    BY <1>1, <1>11 DEF Subscribe
  <2>3. PICK link : \/ sub'[s] = Subscribed(link)
                    \/ sub'[s] = [Subscribed(link) EXCEPT !.state = "disposed", !.gate = Shut(@)]
    BY <1>1, <1>11 DEF Subscribe
  <2>4. sub'[s].state # "unused"
    BY <2>3 DEF Subscribed, Unused
  <2>5. QED
    BY <1>9, <2>1, <2>2, <2>4 DEF Alone, SameFeed, Attaches
<1>12. ASSUME NEW s \in Subs, Unsubscribe(s) PROVE FeedShape
  <2>1. UNCHANGED <<consumer, log>> /\ sub[s].state # "unused"
    BY <1>12 DEF Unsubscribe
  <2>2. (\A t \in Subs \ {s} : sub'[t] = sub[t]) /\ sub'[s].state # "unused"
    BY <1>1, <1>12 DEF Unsubscribe, Closures
  <2>3. QED
    BY <1>9, <2>1, <2>2 DEF Alone, SameFeed, Shows
<1>13. ASSUME NEW s \in Subs, NEW r \in Closures, NEW p, Deliver(s, r, p), UNCHANGED log,
              r.state = sub[s].state, sub[s].state # "unused"
       PROVE  FeedShape
  <2>1. sub'[s].state = sub[s].state /\ \A t \in Subs \ {s} : sub'[t] = sub[t] /\ consumer'[t] = consumer[t]
    BY <1>13, DeliverLeaves
  <2>2. consumer'[s].state = consumer[s].state
    BY <1>1, <1>13 DEF Deliver, Hearers
  <2>3. QED
    BY <1>9, <1>13, <2>1, <2>2 DEF Alone, SameFeed, Shows
<1>14. ASSUME NEW s \in Subs, GateOpens(s) PROVE FeedShape
  <2> DEFINE open == [sub[s] EXCEPT !.ready = "done", !.gate = Opened(@)]
             done == [sub[s] EXCEPT !.ready = "done"]
  <2>1. open \in Closures /\ open.state = sub[s].state /\ done.state = sub[s].state
    <3>1. Opened(sub[s].gate) \in Gates /\ sub[s] \in Closures
      BY <1>1 DEF Opened, Gates
    <3>2. QED
      BY <3>1 DEF Closures
  <2>2. UNCHANGED log /\ sub[s].state # "unused"
    BY <1>14, NotUnused DEF GateOpens
  <2>3. \/ UNCHANGED consumer /\ sub' \in {[sub EXCEPT ![s] = done], [sub EXCEPT ![s] = open]}
        \/ \E p : Deliver(s, open, p)
    BY <1>1, <1>14 DEF GateOpens
  <2> HIDE DEF open, done
  <2>4. CASE UNCHANGED consumer /\ sub' \in {[sub EXCEPT ![s] = done], [sub EXCEPT ![s] = open]}
    BY <1>1, <1>2, <2>1, <2>2, <2>4
  <2>5. QED
    BY <1>13, <2>1, <2>2, <2>3, <2>4
<1>15. CASE FlushNext
  <2>1. flushing.s \in Subs /\ sub[flushing.s].state # "unused"
    BY <1>15, NotUnused DEF FlushNext, Idle, TypeOK, FlushTypes
  <2>2. QED
    BY <1>1, <1>13, <1>15, <2>1 DEF FlushNext
<1>16. ASSUME NEW s \in Subs, NEW e, ReportAndClose(s, e), UNCHANGED log, sub[s].state # "unused",
              sub'[s].state # "unused", \A t \in Subs \ {s} : sub'[t] = sub[t]
       PROVE  FeedShape
  <2>1. consumer'[s].state = "disconnected" /\ consumer'[s].at = consumer[s].at
    BY <1>1, <1>16 DEF ReportAndClose, Hearers
  <2>2. \A t \in Subs \ {s} : consumer'[t] = consumer[t]
    BY <1>1, <1>16 DEF ReportAndClose
  <2>3. QED
    BY <1>9, <1>16, <2>1, <2>2 DEF Alone, SameFeed, Switches
<1>17. ASSUME NEW s \in Subs, GateFails(s) PROVE FeedShape
  <2>1. UNCHANGED log /\ sub[s].state # "unused" /\ \A t \in Subs \ {s} : sub'[t] = sub[t]
    BY <1>1, <1>17, NotUnused DEF GateFails
  <2>2. CASE sub[s].gate.state = "pending"
    <3>1. sub'[s] = [Terminated(sub[s]) EXCEPT !.ready = "done"]
      BY <1>1, <1>17, <2>2 DEF GateFails
    <3>2. sub'[s].state = "terminal"
      BY <1>1, <3>1 DEF Terminated, Closures
    <3>3. QED
      BY <1>16, <1>17, <2>1, <2>2, <3>2 DEF GateFails
  <2>3. CASE sub[s].gate.state # "pending"
    BY <1>1, <1>2, <1>17, <2>3 DEF GateFails, Closures
  <2>4. QED
    BY <2>2, <2>3
<1>18. ASSUME NEW s \in Subs, HearOfFailure(s) \/ HearOfRefusal(s) \/ StreamEnds(s) PROVE FeedShape
  <2>1. UNCHANGED log /\ sub' = [sub EXCEPT ![s].link = "gone"] /\ sub[s].state # "unused"
    BY <1>18, NotUnused DEF HearOfFailure, HearOfRefusal, StreamEnds, Streaming
  <2>2. \A t \in Subs : sub'[t].state = sub[t].state /\ (t # s => sub'[t] = sub[t])
    BY <1>1, <2>1 DEF Closures
  <2>3. CASE \E e : ReportAndClose(s, e)
    BY <1>16, <2>1, <2>2, <2>3
  <2>4. CASE UNCHANGED consumer
    BY <1>2, <2>1, <2>2, <2>4
  <2>5. CASE \E e : Report(s, e)
    <3>1. PICK e : consumer' = [consumer EXCEPT ![s].errors = @ \cup {e}]
      BY <2>5 DEF Report
    <3>2. \A t \in Subs : consumer'[t].state = consumer[t].state /\ consumer'[t].at = consumer[t].at
      BY <1>1, <3>1 DEF Hearers
    <3>3. QED
      BY <2>1, <2>2, <3>2 DEF FeedShape, SameFeed
  <2>6. QED
    BY <1>18, <2>3, <2>4, <2>5 DEF HearOfFailure, HearOfRefusal, StreamEnds
<1>19. ASSUME NEW s \in Subs, StreamOpens(s) \/ StreamCloses(s) PROVE FeedShape
  <2>1. UNCHANGED <<log, sub>> /\ sub[s].state # "unused"
    BY <1>19, NotUnused DEF StreamOpens, StreamCloses, Streaming
  <2>2. CASE UNCHANGED consumer
    BY <1>2, <2>1, <2>2
  <2>3. CASE \E state \in {"connected", "disconnected"} : consumer' = [consumer EXCEPT ![s].state = state]
    <3>1. PICK state \in {"connected", "disconnected"} : consumer' = [consumer EXCEPT ![s].state = state]
      BY <2>3
    <3>2. /\ consumer'[s].state = state /\ consumer'[s].at = consumer[s].at
          /\ \A t \in Subs \ {s} : consumer'[t] = consumer[t]
      BY <1>1, <3>1 DEF Hearers
    <3>3. QED
      BY <1>9, <2>1, <3>2 DEF Alone, SameFeed, Switches
  <2>4. QED
    BY <1>19, <2>2, <2>3 DEF StreamOpens, StreamCloses, Tell
<1>20. ASSUME NEW s \in Subs, StreamPublishes(s) \/ StreamResyncs(s) PROVE FeedShape
  <2>1. UNCHANGED log /\ sub[s].state # "unused"
    BY <1>20, NotUnused DEF StreamPublishes, StreamResyncs, Streaming
  <2>2. PICK p : Pass(s, p)
    BY <1>20 DEF StreamPublishes, StreamResyncs
  <2>3. CASE Deliver(s, sub[s], p)
    BY <1>1, <1>13, <2>1, <2>3
  <2>4. CASE sub' = [sub EXCEPT ![s].gate = Queued(sub[s].gate, p)] /\ UNCHANGED consumer
    BY <1>1, <1>2, <2>1, <2>4 DEF Closures
  <2>5. CASE Terminate(s)
    <3>1. sub'[s] = Terminated(sub[s]) /\ \A t \in Subs \ {s} : sub'[t] = sub[t]
      BY <1>1, <2>5 DEF Terminate
    <3>2. sub'[s].state = "terminal"
      BY <1>1, <3>1 DEF Terminated, Closures
    <3>3. QED
      BY <1>16, <2>1, <2>5, <3>1, <3>2 DEF Terminate
  <2>6. CASE UNCHANGED <<sub, consumer>>
    BY <1>2, <2>1, <2>6
  <2>7. QED
    BY <2>2, <2>3, <2>4, <2>5, <2>6 DEF Pass
<1>21. QED
  BY <1>3, <1>4, <1>5, <1>6, <1>7, <1>8, <1>11, <1>12, <1>14, <1>15, <1>17, <1>18, <1>19, <1>20
  DEF Next, App, Events, External

\* A view only goes on, within the log.
LEMMA AtGoesOn ==
    ASSUME TypeOK, GateInv, OrderInv, [Next]_vars, NEW s \in Subs
    PROVE  \/ consumer'[s].at = consumer[s].at
           \/ consumer'[s].at \in 0 .. log /\ consumer'[s].at > consumer[s].at
<1>1. /\ Waiting(s) \in Seq(Publication) /\ consumer[s].at \in Cursors /\ log \in Positions
      /\ Chain(Waiting(s), consumer[s].at, log)
  BY WaitingTypes DEF TypeOK, ConsumerTypes, Hearers, StreamTypes, OrderInv, OrderOf
<1>2. ASSUME NEW p \in Publication, p.pos <= log, Follows(p, consumer[s].at), Given(s, p)
      PROVE  \/ consumer'[s].at = consumer[s].at
             \/ consumer'[s].at \in 0 .. log /\ consumer'[s].at > consumer[s].at
  <2>1. consumer'[s].at = p.pos
    BY <1>2 DEF Given
  <2>2. p.pos \in Nat /\ consumer[s].at \in Int /\ log \in Nat
    BY <1>1, HistoryTypes DEF Publication, Positions, Cursors, NoCursor
  <2>3. p.pos >= consumer[s].at
    BY <1>2, <2>2 DEF Follows
  <2>4. QED
    BY <1>2, <2>1, <2>2, <2>3
<1>3. CASE Spared(s)
  BY <1>3 DEF Spared
<1>4. CASE Flushed(s)
  <2>1. /\ Head(Waiting(s)) \in Publication /\ Head(Waiting(s)).pos <= log
        /\ Follows(Head(Waiting(s)), consumer[s].at) /\ Given(s, Head(Waiting(s)))
    BY <1>1, <1>4, ChainTail DEF Flushed
  <2>2. QED
    BY <1>2, <2>1
<1>5. ASSUME NEW p \in Publications(s) \cup Resyncs(s), Published(s, p)
      PROVE  \/ consumer'[s].at = consumer[s].at
             \/ consumer'[s].at \in 0 .. log /\ consumer'[s].at > consumer[s].at
  <2>1. CASE Waiting(s) = <<>> /\ ~Ended(s) /\ Given(s, p)
    <3>1. stream[s].pos = consumer[s].at
      BY <2>1, ChainEmpty DEF OrderInv, OrderOf
    <3>2. p \in Publication /\ p.pos <= log /\ Follows(p, consumer[s].at)
      BY <3>1, PublishedTypes
    <3>3. QED
      BY <1>2, <2>1, <3>2
  <2>2. QED
    BY <1>3, <1>5, <2>1 DEF Published
<1>6. QED
  BY <1>3, <1>4, <1>5, StepShape DEF Step, Kept

LEMMA SameFeedMap ==
    ASSUME NEW t \in Subs, SameFeed(t)
    PROVE  (ConsumerFeed')[t] = ConsumerFeed[t]
  BY DEF SameFeed, ConsumerFeed

LEMMA AloneMap ==
    ASSUME NEW s \in Subs, Alone(s)
    PROVE  ConsumerFeed' = [ConsumerFeed EXCEPT ![s] = (ConsumerFeed')[s]]
<1>1. \A t \in Subs \ {s} : (ConsumerFeed')[t] = ConsumerFeed[t]
  BY SameFeedMap DEF Alone
<1>2. /\ ConsumerFeed = [t \in Subs |-> ConsumerFeed[t]]
      /\ ConsumerFeed' = [t \in Subs |-> (ConsumerFeed')[t]]
  BY DEF ConsumerFeed
<1>3. QED
  BY <1>1, <1>2

LEMMA InitFeed == Init => Feed!Init
  BY DEF Init, Feed!Init, Feed!Nowhere, ConsumerFeed, Unused, Untold, NoCursor

LEMMA StepFeed ==
    ASSUME TypeOK, GateInv, OrderInv, [Next]_vars
    PROVE  [Feed!Next]_Feed!feedVars
<1> DEFINE F == ConsumerFeed
           L == [a \in {Account} |-> log]
<1>1. FeedShape
  BY StepFeedShape
<1>2. CASE UNCHANGED <<consumer, sub>> /\ log < Len(Units) /\ log' = log + 1
  <2>1. F' = F
    BY <1>2 DEF ConsumerFeed
  <2>2. L[Account] < Len(Units) /\ L' = [L EXCEPT ![Account] = @ + 1]
    BY <1>2
  <2>3. Feed!Move(Account)
    BY <2>1, <2>2 DEF Feed!Move
  <2>4. QED
    BY <2>3 DEF Feed!Next
<1>3. CASE log' = log /\ \A t \in Subs : SameFeed(t)
  <2>1. F' = F
    BY <1>3, SameFeedMap DEF ConsumerFeed, SameFeed
  <2>2. QED
    BY <1>3, <2>1 DEF Feed!feedVars
<1>4. ASSUME NEW s \in Subs, Alone(s), Attaches(s) \/ Shows(s) \/ Switches(s)
      PROVE  Feed!Next \/ UNCHANGED Feed!feedVars
  <2>1. L' = L /\ L[Account] = log
    BY <1>4 DEF Alone
  <2>2. F' = [F EXCEPT ![s] = F'[s]] /\ F \in [Subs -> [channel : {Account, NoAccount}, state : {"pending", "connected", "disconnected"}, at : Cursors]]
    <3>1. F' = [F EXCEPT ![s] = F'[s]]
      BY <1>4, AloneMap
    <3>2. \A t \in Subs : consumer[t].state \in {"pending", "connected", "disconnected"} /\ consumer[t].at \in Cursors
      BY DEF TypeOK, ConsumerTypes, Hearers
    <3>3. QED
      BY <3>1, <3>2 DEF ConsumerFeed
  <2>3. /\ F[s].channel = IF sub[s].state = "unused" THEN NoAccount ELSE Account
        /\ F[s].at = consumer[s].at /\ F[s].state = consumer[s].state
        /\ F'[s] = [channel |-> IF sub'[s].state = "unused" THEN NoAccount ELSE Account,
                    state |-> consumer'[s].state, at |-> consumer'[s].at]
    BY DEF ConsumerFeed
  <2> HIDE DEF F, L
  <2>4. CASE Attaches(s)
    <3>1. F'[s] = [F[s] EXCEPT !.channel = Account] /\ F[s].channel = NoAccount
      BY <2>2, <2>3, <2>4 DEF Attaches
    <3>2. F' = [F EXCEPT ![s].channel = Account]
      BY <2>2, <3>1
    <3>3. Feed!Attach(s, Account)
      BY <2>1, <3>1, <3>2 DEF Feed!Attach, F, L
    <3>4. QED
      BY <3>3 DEF Feed!Next
  <2>5. ASSUME NEW m, consumer'[s].at = m, m # consumer[s].at, Shows(s)
        PROVE  Feed!Next
    <3>1. m \in 0 .. log /\ m > F[s].at
      BY <2>3, <2>5, AtGoesOn
    <3>2. F'[s] = [F[s] EXCEPT !.at = m] /\ F[s].channel = Account
      BY <2>2, <2>3, <2>5 DEF Shows
    <3>3. F' = [F EXCEPT ![s].at = m]
      BY <2>2, <3>2
    <3>4. Feed!Show(s)
      BY <2>1, <3>1, <3>2, <3>3 DEF Feed!Show, F, L
    <3>5. QED
      BY <3>4 DEF Feed!Next
  <2>6. ASSUME NEW x \in {"connected", "disconnected"}, consumer'[s].state = x, x # consumer[s].state, Switches(s)
        PROVE  Feed!Next
    <3>1. F[s].state # x /\ F'[s] = [F[s] EXCEPT !.state = x] /\ F[s].channel = Account
      BY <2>2, <2>3, <2>6 DEF Switches
    <3>2. F' = [F EXCEPT ![s].state = x]
      BY <2>2, <3>1
    <3>3. Feed!Switch(s, x)
      BY <2>1, <3>1, <3>2 DEF Feed!Switch, F, L
    <3>4. QED
      BY <3>3 DEF Feed!Next
  <2>7. CASE /\ sub[s].state # "unused" /\ sub'[s].state # "unused"
             /\ consumer'[s].at = consumer[s].at /\ consumer'[s].state = consumer[s].state
    <3>1. F'[s] = F[s]
      BY <2>2, <2>3, <2>7
    <3>2. F' = F
      BY <2>2, <3>1
    <3>3. QED
      BY <2>1, <3>2 DEF Feed!feedVars, F, L
  <2>8. QED
    BY <1>4, <2>4, <2>5, <2>6, <2>7 DEF Shows, Switches
<1>5. QED
  BY <1>1, <1>2, <1>3, <1>4 DEF FeedShape

\* What a consumer behind the gate is told is an account's order feed: views that
\* only go on, none of a position the account has not reached.
THEOREM SubscriptionImplementsOrderFeed == Spec => ImplementsOrderFeed
<1> DEFINE IInv == TypeOK /\ GateInv /\ OrderInv
<1>1. Init => IInv /\ Feed!Init
  BY InitTypes, InitGates, InitOrder, InitFeed
<1>2. IInv /\ [Next]_vars => IInv'
  BY StepTypes, StepGates, StepOrder
<1>3. IInv /\ [Next]_vars => [Feed!Next]_Feed!feedVars
  BY StepFeed
<1>4. QED
  BY <1>1, <1>2, <1>3, PTL DEF Spec, ImplementsOrderFeed, Feed!Spec
==============================================================================
