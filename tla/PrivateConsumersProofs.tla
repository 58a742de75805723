----------------------- MODULE PrivateConsumersProofs -----------------------
(***************************************************************************)
(* Proofs about what the streams of PrivateOrders come to and what their   *)
(* consumers are told, for all values of the constants: the client makes   *)
(* one attempt at what it lacks, neither none nor two; a stream's orders   *)
(* are the live view at its cursor; between turns every consumer knows     *)
(* what its stream knows, was told nothing it knew already, and is not     *)
(* left believing in a stream that ended; and the server keeps no          *)
(* subscription that nobody uses.                                          *)
(***************************************************************************)
EXTENDS PrivateOrdersProofs, MCPrivateOrdersLeaving

-----------------------------------------------------------------------------
(* Nothing is lost.  What answers a refresh answers no other request.      *)

AnswersInv ==
    \A id \in Renewed(net) :
       /\ id <= req.seq
       /\ \A p \in req.pending : p.kind = "subscribe" => p.id # id

LEMMA AnswersShrink ==
    ASSUME TypeOK, TypeOK', AnswersInv, req.seq <= req'.seq, Renewed(net') \subseteq Renewed(net),
           \A p \in req'.pending : p.kind = "subscribe" => p \in req.pending \/ p.id > req.seq
    PROVE  AnswersInv'
<1>1. req.seq \in Nat /\ req'.seq \in Nat /\ \A id \in Renewed(net) : id \in Nat
  BY FetchNumbers, NetFields DEF TypeOK, Tables, Renewed, Renewing
<1>2. \A p \in req'.pending : p.id \in Nat
  BY DEF TypeOK, Tables, Requests
<1> QED BY <1>1, <1>2 DEF AnswersInv

LEMMA AnswersEmpty ==
    ASSUME net'.wire = <<>>
    PROVE  AnswersInv'
BY DEF AnswersInv, Renewed, Renewing

LEMMA OutcomeKeepsAnswers ==
    ASSUME TypeOK, TypeOK', RequestsInv, AnswersInv, Outcome
    PROVE  AnswersInv'
<1>1. req.seq \in Nat /\ \A id \in Renewed(net) : id \in Nat
  BY FetchNumbers, NetFields DEF TypeOK, Renewed, Renewing
<1>2. CASE Quiet \/ \E s \in Streams : Leaves(s) \/ Waits(s)
  BY <1>2, AnswersShrink DEF Quiet, Leaves, Waits, NetKept, Calm, Fewer
<1>3. CASE Ends \/ Connects
  BY <1>3, AnswersEmpty DEF Ends, Connects, Offline
<1>4. CASE Dials
  BY <1>1, <1>4, AnswersShrink DEF Dials
<1>5. ASSUME NEW s \in Streams, Asks(s)
      PROVE  AnswersInv'
  <2>1. req'.seq \in Nat /\ req.seq < req'.seq /\ Renewed(net') \subseteq Renewed(net)
    BY <1>5 DEF Asks, NetKept, Calm, TypeOK, Tables
  <2>2. \A p \in req'.pending : p \in req.pending \/ p.id = req'.seq
    BY <1>5 DEF Asks, Request
  <2> QED BY <1>1, <2>1, <2>2, AnswersShrink
<1>6. ASSUME NEW s \in Streams, Refreshes(s)
      PROVE  AnswersInv'
  <2>1. /\ req'.seq = req.seq + 1 /\ Renewed(net') \subseteq Renewed(net) \cup {req.seq + 1}
        /\ \A p \in req'.pending : p.kind = "subscribe" => p \in req.pending
    BY <1>6 DEF Refreshes, Request
  <2>2. \A p \in req.pending : p.id \in Nat /\ p.id <= req.seq
    BY DEF TypeOK, Tables, Requests, RequestsInv, IdsInv
  <2> QED BY <1>1, <2>1, <2>2 DEF AnswersInv
<1>7. CASE \E s \in Streams, id \in Nat : Confirms(s, id)
  BY <1>1, <1>7, AnswersShrink DEF Confirms, NetKept, Calm
<1>8. CASE \E f \in fetches : Accepts(f) \/ Fails(f)
  BY <1>1, <1>8, AnswersShrink DEF Accepts, Fails, NetKept, Calm
<1> QED BY <1>2, <1>3, <1>4, <1>5, <1>6, <1>7, <1>8 DEF Outcome

LEMMA StepKeepsAnswers ==
    ASSUME TypeOK, Created, LinkInv, RequestsInv, AnswersInv, [Next]_vars
    PROVE  AnswersInv'
<1>1. TypeOK'
  BY StepKeepsTypes
<1>2. ASSUME SocketOpens
      PROVE  AnswersInv'
  <2>1. net.phase = "connecting" /\ net' = [net EXCEPT !.phase = "open"]
    BY <1>2 DEF SocketOpens
  <2>2. net.wire = <<>> /\ net'.wire = net.wire
    BY <2>1 DEF RequestsInv, SocketsInv, TypeOK, Network
  <2> QED BY <2>2, AnswersEmpty
<1> QED BY <1>1, <1>2, StepDoes, OutcomeKeepsAnswers

-----------------------------------------------------------------------------
(* Every current stream of an authenticated socket is seen to, and the     *)
(* client seeks a link while it has streams.                               *)

Handled(s) == \E j \in Due : j.s = s /\ j.do \in {"terminate", "finish", "retry"}
Tended(s)  == stream[s].sub # 0 \/ Asking(s) # {} \/ stream[s].retryTimer # 0 \/ Handled(s)
AllTended  == conn.authSent => \A s \in Current : Tended(s)

Linked   == conn.ws # 0 \/ conn.connecting \/ conn.timer \/ conn.strays > 0
GivingUp == \E i \in DOMAIN micro : micro[i].do = "terminateAll"
Waiting  == \E j \in Due : j.do = "schedule"
Ending(s) == \E j \in Due : \/ j.s = s /\ j.do \in {"terminate", "finish"}
                            \/ j.do = "terminateAll" /\ s \in j.left
LinkSought == Linked \/ GivingUp \/ Waiting \/ \A s \in Current : Ending(s)

\* A stream that is left alone, with what it asked for.
Same(s) == s \in Current /\ Kept(s) /\ Asking(s) \subseteq req'.pending

LEMMA TendedStays ==
    ASSUME TypeOK, AllTended, conn'.authSent => conn.authSent,
           \A s \in Current' : Tended(s)' \/ (Same(s) /\ (Handled(s) => Handled(s)'))
    PROVE  AllTended'
<1>1. \A s : Asking(s) \subseteq req'.pending /\ Asking(s) # {} => Asking(s)' # {}
  BY DEF Asking
<1> QED BY <1>1 DEF AllTended, Tended, Same, Kept

LEMMA NothingDue ==
    /\ turn = <<>> => Due = {} /\ ~Waiting /\ \A s : ~Handled(s) /\ ~Ending(s)
    /\ turn' = turn => Due' = Due
    /\ Due \subseteq Due' => (Waiting => Waiting') /\ \A s : (Handled(s) => Handled(s)') /\ (Ending(s) => Ending(s)')
    /\ \A j : turn' = <<j>> \/ (\E i : turn' = <<i, j>>) => j \in Due'
<1>1. turn = <<>> => Due = {} /\ ~Waiting /\ \A s : ~Handled(s) /\ ~Ending(s)
  BY DEF Due, Waiting, Handled, Ending
<1>2. turn' = turn => Due' = Due
  BY DEF Due
<1>3. Due \subseteq Due' => (Waiting => Waiting') /\ \A s : (Handled(s) => Handled(s)') /\ (Ending(s) => Ending(s)')
  BY DEF Waiting, Handled, Ending
<1>4. ASSUME NEW j, turn' = <<j>> PROVE j \in Due'
  BY <1>4 DEF Due
<1>5. ASSUME NEW j, NEW i, turn' = <<i, j>> PROVE j \in Due'
  BY <1>5 DEF Due
<1> QED BY <1>1, <1>2, <1>3, <1>4, <1>5

LEMMA PushDue ==
    ASSUME TypeOK, turn # <<>>, NEW jobs \in Seq(Jobs), Push(jobs)
    PROVE  /\ Head(turn) \in Due
           /\ \A j \in Due : j = Head(turn) \/ j \in Due'
           /\ \A i \in DOMAIN jobs : jobs[i] \in Due'
<1>1. /\ turn \in Seq(Jobs) /\ Len(turn) \in Nat /\ Len(turn) # 0
      /\ Tail(turn) \in Seq(Jobs) /\ Len(Tail(turn)) = Len(turn) - 1
      /\ \A i \in 1 .. (Len(turn) - 1) : Tail(turn)[i] = turn[i + 1]
      /\ DOMAIN turn = 1 .. Len(turn) /\ DOMAIN Tail(turn) = 1 .. (Len(turn) - 1)
      /\ Head(turn) = turn[1]
  BY HeadTailProperties, EmptySeq, LenProperties DEF TypeOK
<1> DEFINE rest == Tail(turn)
<1>2. /\ Len(jobs) \in Nat /\ DOMAIN jobs = 1 .. Len(jobs)
      /\ turn' = jobs \o rest /\ DOMAIN (jobs \o rest) = 1 .. (Len(jobs) + Len(rest))
      /\ \A i \in 1 .. Len(jobs) : (jobs \o rest)[i] = jobs[i]
      /\ \A i \in (Len(jobs) + 1) .. (Len(jobs) + Len(rest)) : (jobs \o rest)[i] = rest[i - Len(jobs)]
  BY <1>1, ConcatProperties, LenProperties DEF Push
<1>3. ASSUME NEW i \in DOMAIN turn, i # 1
      PROVE  turn[i] \in Due'
  <2> DEFINE k == Len(jobs) + (i - 1)
  <2>1. k \in (Len(jobs) + 1) .. (Len(jobs) + Len(rest)) /\ k - Len(jobs) = i - 1 /\ k \in DOMAIN turn'
    BY <1>1, <1>2, <1>3
  <2>2. turn'[k] = turn[i]
    BY <1>1, <1>2, <1>3, <2>1
  <2> QED BY <2>1, <2>2 DEF Due
<1>4. \A i \in DOMAIN jobs : jobs[i] \in Due'
  BY <1>1, <1>2 DEF Due
<1>5. Head(turn) \in Due
  BY <1>1 DEF Due
<1> QED BY <1>1, <1>3, <1>4, <1>5 DEF Due

Watched == AllTended /\ LinkSought

LEMMA LinkStays ==
    ASSUME LinkSought, Linked => Linked' \/ GivingUp', GivingUp => GivingUp', Waiting => Waiting' \/ Linked',
           Current' \subseteq Current, \A s \in Current' : Ending(s) => Ending(s)'
    PROVE  LinkSought'
BY DEF LinkSought

LEMMA SameLink == UNCHANGED <<conn, micro>> => (Linked' <=> Linked) /\ (GivingUp' <=> GivingUp)
BY DEF Linked, GivingUp

\* The link and the jobs that are due stay; each stream is left alone or seen to.
LEMMA WatchStays ==
    ASSUME TypeOK, Watched, UNCHANGED <<subs, conn, micro>>, Due \subseteq Due',
           \A s \in Current : Same(s) \/ Tended(s)'
    PROVE  Watched'
<1>1. Current' = Current /\ conn' = conn
  BY SameCurrent
<1>2. (Waiting => Waiting') /\ \A s : (Handled(s) => Handled(s)') /\ (Ending(s) => Ending(s)')
  BY NothingDue
<1>3. AllTended'
  BY <1>1, <1>2, TendedStays DEF Watched
<1>4. LinkSought'
  BY <1>1, <1>2, SameLink, LinkStays DEF Watched
<1> QED BY <1>3, <1>4 DEF Watched

LEMMA Queued ==
    ASSUME TypeOK, NEW task \in Tasks, micro' = Append(micro, task)
    PROVE  (GivingUp => GivingUp') /\ (task.do = "terminateAll" => GivingUp')
<1>1. /\ micro \in Seq(Tasks) /\ Len(micro) \in Nat /\ DOMAIN micro = 1 .. Len(micro)
      /\ DOMAIN micro' = 1 .. (Len(micro) + 1) /\ micro'[Len(micro) + 1] = task
      /\ \A i \in 1 .. Len(micro) : micro'[i] = micro[i]
  BY AppendProperties, LenProperties DEF TypeOK
<1>2. Len(micro) + 1 \in DOMAIN micro' /\ \A i \in DOMAIN micro : i \in DOMAIN micro'
  BY <1>1
<1> QED BY <1>1, <1>2 DEF GivingUp

LEMMA Unqueued ==
    ASSUME TypeOK, micro # <<>>, micro' = Tail(micro), GivingUp
    PROVE  Head(micro).do = "terminateAll" \/ GivingUp'
<1>1. /\ micro \in Seq(Tasks) /\ Len(micro) \in Nat /\ DOMAIN micro = 1 .. Len(micro) /\ Head(micro) = micro[1]
      /\ DOMAIN micro' = 1 .. (Len(micro) - 1) /\ Len(micro) # 0
      /\ \A i \in 1 .. (Len(micro) - 1) : micro'[i] = micro[i + 1]
  BY HeadTailProperties, EmptySeq, LenProperties DEF TypeOK
<1>2. ASSUME NEW i \in DOMAIN micro, i # 1
      PROVE  i - 1 \in DOMAIN micro' /\ micro'[i - 1] = micro[i]
  BY <1>1, <1>2
<1> QED BY <1>1, <1>2 DEF GivingUp

\* A connection is dialled, or every stream is given up.
LEMMA OpenSeeks ==
    ASSUME TypeOK, NEW c \in Connection, Open(c)
    PROVE  (Linked' \/ GivingUp') /\ (GivingUp => GivingUp') /\ conn'.authSent = c.authSent
<1>1. CASE conn' = [c EXCEPT !.connecting = TRUE, !.opens = @ + 1] /\ UNCHANGED micro
  BY <1>1 DEF Linked, GivingUp, Connection
<1>2. CASE conn' = c /\ micro' = Append(micro, Task("terminateAll", NoStream, {}))
  <2> DEFINE task == Task("terminateAll", NoStream, {})
  <2>1. task \in Tasks /\ task.do = "terminateAll"
    BY DEF Task, Tasks
  <2> QED BY <1>2, <2>1, Queued
<1> QED BY <1>1, <1>2 DEF Open

-----------------------------------------------------------------------------
(* Action by action: calls, microtasks, tokens and timers.                 *)

LEMMA ConnectWatched ==
    ASSUME TypeOK, RequestsInv, Watched, NEW c \in Consumers, NEW ch \in Channels, Connect(c, ch)
    PROVE  Watched'
<1>1. UNCHANGED turn /\ Due' = Due /\ (conn.authSent => conn.ws # 0)
  BY NothingDue DEF Connect, RequestsInv, SocketsInv
<1>2. ASSUME subs[ch] # NoStream, Join(c, subs[ch])
      PROVE  Watched'
  <2>1. UNCHANGED <<subs, req, conn>> /\ \A s \in Streams : Kept(s)
    BY <1>2 DEF Join, Kept, TypeOK, StreamObject
  <2>2. Current' = Current /\ \A s \in Current : Same(s)
    BY <2>1, SameCurrent, CurrentStreams DEF Same, Asking
  <2>3. Task("catchUp", subs[ch], {c}) \in Tasks
    BY <1>2 DEF Task, Tasks, TypeOK, MaybeStream
  <2>4. GivingUp => GivingUp'
    BY <1>2, <2>3, Queued DEF Join
  <2>5. Linked' = Linked
    BY <2>1 DEF Linked
  <2>6. (Waiting => Waiting') /\ \A s : (Handled(s) => Handled(s)') /\ (Ending(s) => Ending(s)')
    BY <1>1, NothingDue
  <2>7. AllTended'
    BY <2>1, <2>2, <2>6, TendedStays DEF Watched
  <2>8. LinkSought'
    BY <2>2, <2>4, <2>5, <2>6, LinkStays DEF Watched
  <2> QED BY <2>7, <2>8 DEF Watched
<1>3. ASSUME NEW s \in Streams, subs[ch] = NoStream, Establish(c, ch, s)
      PROVE  Watched'
  <2>1. Places(s, ch)
    BY <1>3 DEF Establish, Places, Others, Kept, TypeOK, StreamObject
  <2>2. Current' = Current \cup {s} /\ s \notin Current
    BY <2>1, PlacesCurrent DEF RequestsInv
  <2>3. \A t : Handled(t) => Handled(t)'
    BY <1>1, NothingDue
  <2>4. \A t \in Current : Kept(t)
    BY <2>1, <2>2, CurrentStreams DEF Places, Others
  <2>5. CASE conn.ws # 0 /\ conn.authSent /\ StartSubscribe(s, req) /\ UNCHANGED conn
    <3> DEFINE p == Request(req.seq + 1, "subscribe", s)
    <3>1. req'.pending = req.pending \cup {p} /\ p.s = s /\ p.kind = "subscribe"
      BY <2>5 DEF StartSubscribe, TypeOK, Tables, Request
    <3> HIDE DEF p
    <3>2. Tended(s)'
      BY <3>1 DEF Tended, Asking
    <3>3. \A t \in Current : Same(t)
      BY <2>4, <3>1 DEF Same, Asking
    <3>4. AllTended'
      BY <2>2, <2>3, <2>5, <3>2, <3>3, TendedStays DEF Watched
    <3> QED BY <2>5, <3>4 DEF Watched, LinkSought, Linked
  <2>6. CASE conn.ws = 0 /\ Open(conn)
    <3>1. ~conn'.authSent /\ LinkSought'
      BY <1>1, <2>6, OpenSeeks DEF TypeOK, LinkSought
    <3> QED BY <3>1 DEF Watched, AllTended
  <2>7. CASE UNCHANGED conn /\ IF conn.ws = 0 THEN conn.connecting \/ conn.timer ELSE ~conn.authSent
    <3>1. ~conn'.authSent /\ Linked'
      BY <1>1, <2>7 DEF Linked
    <3> QED BY <3>1 DEF Watched, AllTended, LinkSought
  <2> QED BY <1>3, <2>5, <2>6, <2>7 DEF Establish
<1> QED BY <1>2, <1>3 DEF Connect

LEMMA AppWatched ==
    ASSUME TypeOK, RequestsInv, Watched, App
    PROVE  Watched'
<1>1. ASSUME NEW c \in Consumers, Remove(c)
      PROVE  Watched'
  <2>1. PICK s \in Streams :
           micro' = IF stream[s].consumers = {c} THEN Append(micro, Task("teardown", s, {})) ELSE micro
    BY <1>1 DEF Remove
  <2>2. UNCHANGED <<subs, req, conn, turn>> /\ \A t \in Streams : Kept(t)
    BY <1>1 DEF Remove, Kept, TypeOK, StreamObject
  <2>3. Current' = Current /\ \A t \in Current : Same(t)
    BY <2>2, SameCurrent, CurrentStreams DEF Same, Asking
  <2>4. Task("teardown", s, {}) \in Tasks
    BY DEF Task, Tasks
  <2>5. GivingUp => GivingUp'
    BY <2>1, <2>4, Queued DEF GivingUp
  <2>6. Linked' = Linked
    BY <2>2 DEF Linked
  <2>7. (Waiting => Waiting') /\ \A t : (Handled(t) => Handled(t)') /\ (Ending(t) => Ending(t)')
    BY <2>2, NothingDue
  <2>8. AllTended'
    BY <2>2, <2>3, <2>7, TendedStays DEF Watched
  <2>9. LinkSought'
    BY <2>3, <2>5, <2>6, <2>7, LinkStays DEF Watched
  <2> QED BY <2>8, <2>9 DEF Watched
<1>2. CASE Disconnect
  <2>1. Current' = {} /\ ~conn'.authSent
    BY <1>2 DEF Disconnect, Current, ShutDown, TypeOK, Connection
  <2> QED BY <2>1 DEF Watched, AllTended, LinkSought
<1> QED BY <1>1, <1>2, ConnectWatched DEF App

\* The last stream takes the connection with it, another only what is its own.
LEMMA TeardownSpares ==
    ASSUME TypeOK, RequestsInv, NEW s \in Streams, IsCurrent(s), NEW r \in StreamObject,
           r.channel = stream[s].channel, Teardown(s, r)
    PROVE  \/ Current' = {} /\ ~conn'.authSent
           \/ Current' = Current \ {s} /\ UNCHANGED conn /\ \A t \in Current' : Same(t)
<1>1. \A ch \in Channels : subs'[ch] = IF subs[ch] = s THEN NoStream ELSE subs[ch]
  BY OwnNames DEF Teardown, TypeOK
<1>2. Current' = Current \ {s}
  BY <1>1, SentinelAssumption DEF Current
<1>3. CASE Current = {s}
  BY <1>2, <1>3 DEF Teardown, ShutDown, TypeOK, Connection
<1>4. CASE Current # {s}
  <2>1. UNCHANGED conn /\ \E q : q.pending = req.pending /\ req' = WithoutThoseOf(q, s) /\ q \in Tables
    <3>1. CASE conn.ws # 0 /\ r.sub # 0
      <4>1. req' = WithoutThoseOf(Unsubscribing(req, r.sub), s) /\ UNCHANGED conn
        BY <1>4, <3>1 DEF Teardown
      <4>2. Unsubscribing(req, r.sub) \in Tables /\ Unsubscribing(req, r.sub).pending = req.pending
        BY TableTypes DEF Unsubscribing, TypeOK, Tables, StreamObject
      <4> QED BY <4>1, <4>2
    <3>2. CASE ~(conn.ws # 0 /\ r.sub # 0)
      BY <1>4, <3>2 DEF Teardown, TypeOK
    <3> QED BY <3>1, <3>2
  <2>2. req'.pending = {p \in req.pending : p.s # s}
    BY <2>1 DEF WithoutThoseOf, Tables
  <2>3. \A t \in Streams \ {s} : Kept(t)
    BY DEF Teardown, TypeOK, Kept
  <2> QED BY <1>2, <2>1, <2>2, <2>3, CurrentStreams DEF Same, Asking
<1> QED BY <1>3, <1>4

LEMMA RunMicrotaskWatched ==
    ASSUME TypeOK, RequestsInv, Watched, RunMicrotask
    PROVE  Watched'
<1> DEFINE task == Head(micro)
<1>1. /\ task \in Tasks /\ turn = <<>> /\ micro # <<>> /\ micro' = Tail(micro)
      /\ ~Waiting /\ \A s : ~Handled(s) /\ ~Ending(s)
  BY HeadTailProperties, NothingDue DEF RunMicrotask, TypeOK
<1>2. ASSUME UNCHANGED core
      PROVE  AllTended' /\ Current' = Current /\ Linked' = Linked
  <2>1. UNCHANGED <<subs, stream, req, conn>> /\ Current' = Current
    BY <1>2, SameCurrent DEF core
  <2>2. \A s \in Current : Same(s)
    BY <2>1, CurrentStreams, AllKept DEF Same, Asking
  <2> QED BY <1>1, <2>1, <2>2, TendedStays DEF Watched, Linked
<1>3. ASSUME task.do # "terminateAll", Current' \subseteq Current, Linked' = Linked
      PROVE  LinkSought'
  BY <1>1, <1>3, Unqueued, LinkStays DEF Watched
<1>4. CASE task.do # "terminateAll" /\ UNCHANGED core
  BY <1>2, <1>3, <1>4 DEF Watched
<1>5. CASE task.do = "teardown" /\ IsCurrent(task.s) /\ Teardown(task.s, stream[task.s])
  <2>1. task.s \in Streams /\ stream[task.s] \in StreamObject
    BY <1>1, <1>5 DEF Tasks, TypeOK
  <2>2. \/ Current' = {} /\ ~conn'.authSent
        \/ Current' \subseteq Current /\ UNCHANGED conn /\ \A t \in Current' : Same(t)
    BY <1>5, <2>1, TeardownSpares
  <2>3. CASE Current' = {} /\ ~conn'.authSent
    BY <2>3 DEF Watched, AllTended, LinkSought
  <2>4. CASE Current' \subseteq Current /\ UNCHANGED conn /\ \A t \in Current' : Same(t)
    <3>1. AllTended'
      BY <1>1, <2>4, TendedStays DEF Watched
    <3>2. Linked' = Linked
      BY <2>4 DEF Linked
    <3> QED BY <1>3, <1>5, <2>4, <3>1, <3>2 DEF Watched
  <2> QED BY <2>2, <2>3, <2>4
<1>6. CASE turn' = <<Every("terminateAll")>> /\ UNCHANGED core
  <2>1. Every("terminateAll") \in Due'
    BY <1>6, NothingDue
  <2>2. Every("terminateAll").do = "terminateAll" /\ Every("terminateAll").left = Current
    BY DEF Every, Job
  <2>3. \A s \in Current' : Ending(s)'
    BY <1>2, <1>6, <2>1, <2>2 DEF Ending
  <2> QED BY <1>2, <1>6, <2>3 DEF Watched, LinkSought
<1>7. \/ task.do # "terminateAll" /\ UNCHANGED core
      \/ task.do = "teardown" /\ IsCurrent(task.s) /\ Teardown(task.s, stream[task.s])
      \/ turn' = <<Every("terminateAll")>> /\ UNCHANGED core
  BY DEF RunMicrotask, core
<1> QED BY <1>4, <1>5, <1>6, <1>7

\* Between turns: the link and the streams stay, each is left alone or seen to.
LEMMA IdleWatch ==
    ASSUME TypeOK, Watched, turn = <<>>, UNCHANGED <<subs, conn, micro>>,
           \A s \in Current : Same(s) \/ Tended(s)'
    PROVE  Watched'
BY NothingDue, WatchStays

LEMMA IdleUnchanged ==
    ASSUME TypeOK, Watched, turn = <<>>, UNCHANGED <<subs, conn, micro>>,
           \A s \in Streams : Kept(s), req.pending \subseteq req'.pending
    PROVE  Watched'
<1>1. \A s \in Current : Same(s)
  BY CurrentStreams DEF Same, Asking
<1> QED BY <1>1, IdleWatch

LEMMA FetchWatched ==
    ASSUME TypeOK, LinkInv, RequestsInv, Watched, FetchSettles
    PROVE  Watched'
<1>1. PICK f \in fetches :
         \/ /\ Wanted(f)
            /\ \/ f.kind = "connect"   /\ ConnectToken(f)
               \/ f.kind = "reauth"    /\ ReauthToken
               \/ f.kind = "subscribe" /\ SubscribeToken(f)
               \/ f.kind = "refresh"   /\ RefreshToken(f)
         \/ ~Wanted(f) /\ UNCHANGED core
  BY DEF FetchSettles
<1>2. turn = <<>> /\ UNCHANGED micro
  BY DEF FetchSettles
<1>3. CASE UNCHANGED core
  BY <1>2, <1>3, AllKept, IdleUnchanged DEF core
<1>4. CASE ReauthToken
  BY <1>3, <1>4 DEF ReauthToken
<1>5. CASE RefreshToken(f)
  <2>1. UNCHANGED <<subs, stream, conn>> /\ req.pending \subseteq req'.pending
    BY <1>5 DEF RefreshToken, TypeOK, Tables
  <2> QED BY <1>2, <2>1, AllKept, IdleUnchanged
<1>6. ASSUME f.kind = "subscribe", SubscribeToken(f)
      PROVE  Watched'
  <2> DEFINE p == Request(f.id, "subscribe", f.s)
  <2>1. UNCHANGED <<subs, stream, conn>> /\ (\A s \in Streams : Kept(s)) /\ p.s = f.s
    BY <1>6, AllKept DEF SubscribeToken, Request
  <2>2. CASE UNCHANGED req
    BY <1>2, <2>1, <2>2, IdleUnchanged
  <2>3. ASSUME req' = [req EXCEPT !.pending = @ \ {p}], NEW terminal \in BOOLEAN,
               turn' = IF terminal THEN <<Step("terminate", f.s)>>
                       ELSE <<Report(f.s), Job("retry", f.s, Link("disconnected"), {f.ws})>>
        PROVE  Watched'
    <3>1. req'.pending = req.pending \ {p}
      BY <2>3 DEF TypeOK, Tables
    <3>2. \E j \in Due' : j.s = f.s /\ j.do \in {"terminate", "retry"}
      <4>1. Step("terminate", f.s) \in Due' \/ Job("retry", f.s, Link("disconnected"), {f.ws}) \in Due'
        BY <2>3, NothingDue
      <4>2. /\ Step("terminate", f.s).s = f.s /\ Step("terminate", f.s).do = "terminate"
            /\ LET k == Job("retry", f.s, Link("disconnected"), {f.ws}) IN k.s = f.s /\ k.do = "retry"
        BY DEF Step, Job
      <4> QED BY <4>1, <4>2
    <3>3. Tended(f.s)'
      BY <3>2 DEF Tended, Handled
    <3>4. \A s \in Current : s # f.s => Same(s)
      BY <2>1, <3>1, CurrentStreams DEF Same, Asking
    <3> QED BY <1>2, <2>1, <3>3, <3>4, IdleWatch
  <2>4. \/ UNCHANGED req
        \/ \E terminal \in BOOLEAN :
              /\ req' = [req EXCEPT !.pending = @ \ {p}]
              /\ turn' = IF terminal THEN <<Step("terminate", f.s)>>
                         ELSE <<Report(f.s), Job("retry", f.s, Link("disconnected"), {f.ws})>>
    BY <1>6 DEF SubscribeToken
  <2> QED BY <2>2, <2>3, <2>4
<1>7. ASSUME f.kind = "connect", Wanted(f), ConnectToken(f)
      PROVE  Watched'
  <2>1. f \in Opening /\ f.ws # 0
    BY <1>7 DEF Opening, Dialled, Wanted, LinkInv, DialledBefore
  <2>2. conn.ws = 0 /\ ~conn.authSent
    BY <2>1, OneConnectionByDialled DEF DialledOnce, LinkInv, RequestsInv, SocketsInv
  <2>3. UNCHANGED <<subs, stream, req>> /\ Current' = Current
    BY <1>7, SameCurrent DEF ConnectToken
  <2>4. ~conn'.authSent
    BY <1>7, <2>2 DEF ConnectToken, TypeOK, Connection
  <2>5. LinkSought'
    <3>1. CASE conn' = [[conn EXCEPT !.connecting = FALSE] EXCEPT !.ws = f.ws, !.authSent = FALSE]
      <4>1. conn'.ws # 0
        BY <2>1, <3>1 DEF TypeOK, Connection
      <4> QED BY <4>1 DEF LinkSought, Linked
    <3>2. CASE turn' = <<Every("terminateAll")>>
      <4>1. Every("terminateAll") \in Due' /\ Every("terminateAll").do = "terminateAll"
            /\ Every("terminateAll").left = Current
        BY <3>2, NothingDue DEF Every, Job
      <4> QED BY <2>3, <4>1 DEF LinkSought, Ending
    <3>3. CASE turn' = AfterTokenFailure
      <4>1. Step("schedule", NoStream) \in Due' /\ Step("schedule", NoStream).do = "schedule"
        BY <3>3, NothingDue DEF AfterTokenFailure, Step, Job
      <4> QED BY <4>1 DEF LinkSought, Waiting
    <3> QED BY <1>7, <3>1, <3>2, <3>3 DEF ConnectToken
  <2> QED BY <2>4, <2>5 DEF Watched, AllTended
<1> QED BY <1>1, <1>3, <1>4, <1>5, <1>6, <1>7

LEMMA TimersWatched ==
    ASSUME TypeOK, RequestsInv, Watched, ReconnectTimer \/ \E s \in Streams : RetryTimer(s)
    PROVE  Watched'
<1>1. turn = <<>> /\ ~Waiting /\ \A s : ~Handled(s) /\ ~Ending(s)
  BY NothingDue DEF ReconnectTimer, RetryTimer, Idle
<1>2. ASSUME NEW stray \in BOOLEAN, IF stray THEN conn.strays > 0 ELSE conn.timer,
             IF Current # {} /\ conn.ws = 0 /\ ~conn.connecting THEN Open(Fired(stray))
             ELSE conn' = Fired(stray) /\ UNCHANGED micro,
             UNCHANGED <<subs, stream, req, turn>>
      PROVE  Watched'
  <2> DEFINE c == Fired(stray)
  <2>1. /\ c.ws = conn.ws /\ c.authSent = conn.authSent /\ c.connecting = conn.connecting /\ c \in Connection
    <3>1. conn \in Connection /\ conn.strays \in Nat /\ (stray => conn.strays - 1 \in Nat)
      BY <1>2 DEF TypeOK, Connection
    <3> QED BY <3>1 DEF Fired, Connection
  <2> HIDE DEF c
  <2>2. Current' = Current /\ (conn.authSent => conn.ws # 0)
    BY <1>2, SameCurrent DEF RequestsInv, SocketsInv
  <2>3. ASSUME Open(c) PROVE LinkSought' /\ conn'.authSent = conn.authSent
    BY <2>1, <2>3, OpenSeeks DEF LinkSought
  <2>4. ASSUME conn' = c, ~(Current # {} /\ conn.ws = 0 /\ ~conn.connecting)
        PROVE  LinkSought' /\ conn'.authSent = conn.authSent
    BY <2>1, <2>2, <2>4 DEF LinkSought, Linked
  <2>5. LinkSought' /\ conn'.authSent = conn.authSent
    BY <1>2, <2>3, <2>4 DEF c
  <2>6. \A s \in Current' : Same(s)
    BY <1>2, <2>2, AllKept, CurrentStreams DEF Same, Asking
  <2>7. AllTended'
    BY <1>1, <2>5, <2>6, TendedStays DEF Watched
  <2> QED BY <2>5, <2>7 DEF Watched
<1>3. ASSUME NEW s \in Streams, RetryTimer(s)
      PROVE  Watched'
  <2>1. /\ UNCHANGED <<subs, conn, micro>> /\ stream' = [stream EXCEPT ![s].retryTimer = 0]
        /\ stream[s].retryTimer # 0
    BY <1>3 DEF RetryTimer
  <2>2. \A t \in Streams \ {s} : Kept(t)
    BY <2>1 DEF TypeOK, Kept
  <2>3. CASE IsCurrent(s)
    <3> DEFINE p == Request(req.seq + 1, "subscribe", s)
    <3>1. StartSubscribe(s, req)
      BY <1>3, <2>1, <2>3 DEF RetryTimer, RequestsInv, Settled, Tidy
    <3>2. req'.pending = req.pending \cup {p} /\ p.s = s /\ p.kind = "subscribe"
      BY <3>1 DEF StartSubscribe, TypeOK, Tables, Request
    <3> HIDE DEF p
    <3>3. Tended(s)' /\ \A t \in Current : t # s => Same(t)
      BY <2>2, <3>2, CurrentStreams DEF Tended, Asking, Same
    <3> QED BY <1>1, <2>1, <3>3, IdleWatch
  <2>4. CASE ~IsCurrent(s)
    <3>1. UNCHANGED req
      BY <1>3, <2>4 DEF RetryTimer
    <3>2. \A t \in Current : Same(t)
      BY <2>2, <2>4, <3>1, CurrentStreams DEF Asking, Same, IsCurrent
    <3> QED BY <1>1, <2>1, <3>2, IdleWatch
  <2> QED BY <2>3, <2>4
<1> QED BY <1>2, <1>3 DEF ReconnectTimer

LEMMA SocketWatched ==
    ASSUME TypeOK, LinkInv, Watched, SocketOpens \/ (Idle /\ \E terminal \in BOOLEAN : Closed(terminal))
    PROVE  Watched'
<1>1. CASE SocketOpens
  <2>1. PICK rank \in [Current -> Nat \ {0}] :
           req'.pending = req.pending \cup {Request(req.seq + rank[s], "subscribe", s) : s \in Current}
    BY <1>1, SocketOpensDoes
  <2>2. \A s \in Current : Asking(s)' # {}
    <3> SUFFICES ASSUME NEW s \in Current PROVE Asking(s)' # {}
      OBVIOUS
    <3> DEFINE p == Request(req.seq + rank[s], "subscribe", s)
    <3>1. p \in req'.pending /\ p.kind = "subscribe" /\ p.s = s
      BY <2>1 DEF Request
    <3> QED BY <3>1 DEF Asking
  <2>3. conn'.ws = conn.ws /\ conn.ws # 0 /\ Current' = Current
    BY <1>1, SameCurrent, OneConnectionByDialled DEF SocketOpens, TypeOK, Connection, LinkInv, DialledOnce
  <2> QED BY <2>2, <2>3 DEF Watched, AllTended, LinkSought, Linked, Tended
<1>2. ASSUME NEW terminal \in BOOLEAN, Closed(terminal)
      PROVE  Watched'
  <2>1. PICK stable \in BOOLEAN :
           LET c == [conn EXCEPT !.ws = 0, !.authSent = FALSE, !.attempt = IF stable THEN 0 ELSE @]
           IN  conn' = IF Current = {} \/ terminal THEN c ELSE Scheduled(c)
    BY <1>2 DEF Closed
  <2>2. ~conn'.authSent /\ (Current # {} /\ ~terminal => conn'.timer)
    BY <2>1 DEF Scheduled, TypeOK, Connection
  <2>3. Current' = Current /\ (Current # {} /\ terminal => turn' = <<Every("terminateAll")>>)
    BY <1>2, SameCurrent DEF Closed
  <2>4. CASE Current # {} /\ terminal
    <3>1. Every("terminateAll") \in Due' /\ Every("terminateAll").do = "terminateAll"
          /\ Every("terminateAll").left = Current
      BY <2>3, <2>4, NothingDue DEF Every, Job
    <3> QED BY <2>2, <2>3, <3>1 DEF Watched, AllTended, LinkSought, Ending
  <2>5. CASE ~(Current # {} /\ terminal)
    BY <2>2, <2>3, <2>5 DEF Watched, AllTended, LinkSought, Linked
  <2> QED BY <2>4, <2>5
<1> QED BY <1>1, <1>2

-----------------------------------------------------------------------------
(* Frames.                                                                 *)

\* No stream asks under this number: forgetting it loses no request.
LEMMA NobodyAsks ==
    ASSUME TypeOK, NEW id, \A p \in req.pending : p.kind = "subscribe" => p.id # id
    PROVE  \A s : Asking(s) \subseteq Forget(id).pending
BY ForgetTables DEF Asking

\* One stream asks under this number: the others' requests stay.
LEMMA OneAsks ==
    ASSUME TypeOK, RequestsInv, NEW p \in req.pending
    PROVE  \A t : t # p.s => Asking(t) \subseteq Forget(p.id).pending
BY ForgetTables DEF Asking, RequestsInv, IdsInv

LEMMA AnsweredWatched ==
    ASSUME TypeOK, Watched, Idle, UNCHANGED micro, NEW q, NEW jobs, Answered(q, jobs),
           \A s \in Current : Asking(s) \subseteq q.pending \/ Tended(s)'
    PROVE  Watched'
<1>1. turn = <<>> /\ req' = q /\ UNCHANGED <<subs, stream, conn>>
  BY DEF Answered, Idle
<1>2. \A s \in Current : Same(s) \/ Tended(s)'
  BY <1>1, AllKept, CurrentStreams DEF Same
<1> QED BY <1>1, <1>2, IdleWatch

LEMMA UpdateWatched ==
    ASSUME TypeOK, Watched, Idle, UNCHANGED micro, NEW s, NEW r, NEW jobs, Update(s, r, jobs),
           r.channel = stream[s].channel, r.sub = stream[s].sub, r.retryTimer = stream[s].retryTimer
    PROVE  Watched'
<1>1. turn = <<>> /\ UNCHANGED <<subs, req, conn>> /\ \A t \in Streams : Kept(t)
  BY AllKept DEF Update, Idle
<1> QED BY <1>1, IdleUnchanged

LEMMA ResubscribeWatched ==
    ASSUME TypeOK, RequestsInv, Watched, Idle, net.wire # <<>>, UNCHANGED micro,
           NEW s \in Streams, NEW r \in StreamObject, NEW q \in Tables, Resubscribe(s, r, q, Read),
           \A t \in Current : Asking(t) \subseteq q.pending
    PROVE  Watched'
<1> DEFINE q2   == IF r.sub # 0 THEN Unsubscribing(q, r.sub) ELSE q
           gone == [r EXCEPT !.sub = 0, !.seq = 0, !.staged = NoView,
                             !.state = IF @ = "connected" THEN "disconnected" ELSE @]
<1>1. turn = <<>> /\ UNCHANGED <<subs, conn>> /\ conn.ws # 0
  BY Reading DEF Resubscribe, RequestsInv, SocketsInv
<1>2. q2 \in Tables /\ q2.pending = q.pending
  <2>1. CASE r.sub # 0
    BY <2>1, TableTypes DEF Unsubscribing, Tables, StreamObject
  <2>2. CASE r.sub = 0
    BY <2>2
  <2> QED BY <2>1, <2>2
<1>3. Retrying(gone, conn.ws).retryTimer = conn.ws
  BY DEF StreamObject, Retrying
<1>4. \/ stream' = [stream EXCEPT ![s] = Retrying(gone, conn.ws)] /\ req' = q2
      \/ stream' = [stream EXCEPT ![s] = [gone EXCEPT !.retries = 1]] /\ StartSubscribe(s, q2)
  BY DEF Resubscribe
<1> HIDE DEF gone, q2
<1>5. \A t \in Streams \ {s} : Kept(t)
  BY <1>4 DEF TypeOK, Kept
<1>6. CASE stream' = [stream EXCEPT ![s] = Retrying(gone, conn.ws)] /\ req' = q2
  <2>1. Tended(s)'
    BY <1>1, <1>3, <1>6 DEF Tended, TypeOK
  <2>2. \A t \in Current : t # s => Same(t)
    BY <1>2, <1>5, <1>6, CurrentStreams DEF Same
  <2> QED BY <1>1, <2>1, <2>2, IdleWatch
<1>7. CASE StartSubscribe(s, q2)
  <2> DEFINE p == Request(q2.seq + 1, "subscribe", s)
  <2>1. req'.pending = q.pending \cup {p} /\ p.s = s /\ p.kind = "subscribe"
    BY <1>2, <1>7 DEF StartSubscribe, Tables, Request
  <2> HIDE DEF p
  <2>2. Tended(s)' /\ \A t \in Current : t # s => Same(t)
    BY <1>5, <2>1, CurrentStreams DEF Tended, Asking, Same
  <2> QED BY <1>1, <2>2, IdleWatch
<1> QED BY <1>4, <1>6, <1>7

LEMMA EndedWatched ==
    ASSUME TypeOK, RequestsInv, Watched, Idle, net.wire # <<>>, UNCHANGED micro,
           NEW s \in Streams, NEW q \in Tables, Ended(s, q), \A t \in Current : Asking(t) \subseteq q.pending
    PROVE  Watched'
<1> DEFINE r == [stream[s] EXCEPT !.sub = 0]
           q1 == Unnamed(q, stream[s].sub)
<1>1. r \in StreamObject /\ stream[s].sub \in Nat
  BY DEF TypeOK, StreamObject
<1>2. q1 \in Tables /\ q1.pending = q.pending
  BY <1>1, TableTypes DEF Unnamed, Tables
<1>3. Resubscribe(s, r, q1, Read)
  BY DEF Ended
<1> HIDE DEF r, q1
<1> QED BY <1>1, <1>2, <1>3, ResubscribeWatched

LEMMA OnSubscribedWatched ==
    ASSUME TypeOK, RequestsInv, Watched, Idle, net.wire # <<>>, UNCHANGED micro,
           NEW f, f = Head(net.wire), f.kind = "subscribed", OnSubscribed(f)
    PROVE  Watched'
<1>1. turn = <<>> /\ f.sub # 0 /\ f.sub \in Nat
  BY Reading, ReadCalm, FrameFields DEF RequestsInv, IdsInv
<1>2. ASSUME NEW s \in Streams, Request(f.id, "subscribe", s) \in req.pending,
             req' = [Forget(f.id) EXCEPT !.bySub = @ \cup {[sub |-> f.sub, s |-> s]}],
             stream' = [stream EXCEPT ![s].sub = f.sub, ![s].seq = 0, ![s].state = "connected"],
             UNCHANGED <<subs, conn>>
      PROVE  Watched'
  <2> DEFINE p == Request(f.id, "subscribe", s)
  <2>1. p.id = f.id /\ p.s = s /\ p \in req.pending
    BY <1>2 DEF Request
  <2> HIDE DEF p
  <2>2. req'.pending = Forget(f.id).pending
    BY <1>2, ForgetTables DEF Tables
  <2>3. stream'[s].sub = f.sub /\ \A t \in Streams \ {s} : Kept(t)
    BY <1>2 DEF TypeOK, StreamObject, Kept
  <2>4. \A t \in Current : t # s => Same(t)
    BY <2>1, <2>2, <2>3, OneAsks, CurrentStreams DEF Same
  <2>5. Tended(s)'
    BY <1>1, <2>3 DEF Tended
  <2> QED BY <1>1, <1>2, <2>4, <2>5, IdleWatch
<1>3. CASE DropUnwanted(f)
  <2>1. UNCHANGED <<subs, stream, conn>> /\ req'.pending = req.pending
    BY <1>3 DEF DropUnwanted, Unsubscribing, TypeOK, Tables
  <2> QED BY <1>1, <2>1, AllKept, IdleUnchanged
<1> QED BY <1>2, <1>3 DEF OnSubscribed

LEMMA OnErrorWatched ==
    ASSUME TypeOK, RequestsInv, Watched, Idle, net.wire # <<>>, UNCHANGED micro,
           NEW f, f = Head(net.wire), OnError(f)
    PROVE  Watched'
<1> DEFINE asked == {p \in req.pending : p.id = f.id}
           Other(s) == IF f.note = "unknown" /\ stream[s].sub = f.sub THEN Ended(s, Forget(f.id))
                       ELSE Answered(Forget(f.id), <<Report(s)>>)
<1>1. turn = <<>> /\ Forget(f.id) \in Tables
  BY Reading, ForgetTables
<1>2. ASSUME NEW s \in Streams, Other(s), \A p \in req.pending : p.kind = "subscribe" => p.id # f.id
      PROVE  Watched'
  <2>1. \A t : Asking(t) \subseteq Forget(f.id).pending
    BY <1>2, NobodyAsks
  <2>2. Ended(s, Forget(f.id)) \/ Answered(Forget(f.id), <<Report(s)>>)
    BY <1>2
  <2> QED BY <1>1, <2>1, <2>2, EndedWatched, AnsweredWatched
<1>3. ASSUME NEW p \in asked, p.kind = "subscribe", SubscribeError(p.s, f)
      PROVE  Watched'
  <2> DEFINE s == p.s
  <2>1. s \in Streams /\ \A t : t # s => Asking(t) \subseteq Forget(f.id).pending
    BY <1>3, OneAsks DEF TypeOK, Tables, Requests
  <2>2. CASE f.note = "cursorInvalid"
    <3> DEFINE n == Request(Forget(f.id).seq + 1, "subscribe", s)
    <3>1. /\ stream' = [stream EXCEPT ![s].cursor = NoCursor] /\ StartSubscribe(s, Forget(f.id))
          /\ UNCHANGED <<subs, conn>>
      BY <1>3, <2>2 DEF SubscribeError
    <3>2. req'.pending = Forget(f.id).pending \cup {n} /\ n.s = s /\ n.kind = "subscribe"
      BY <1>1, <3>1 DEF StartSubscribe, Tables, Request
    <3>3. \A t \in Streams \ {s} : Kept(t)
      BY <3>1 DEF TypeOK, Kept
    <3> HIDE DEF n
    <3>4. Tended(s)' /\ \A t \in Current : t # s => Same(t)
      BY <2>1, <3>2, <3>3, CurrentStreams DEF Tended, Asking, Same
    <3> QED BY <1>1, <3>1, <3>4, IdleWatch
  <2>3. CASE f.note # "cursorInvalid"
    <3>1. Answered(Forget(f.id), <<Step("terminate", s)>>)
      BY <1>3, <2>3 DEF SubscribeError
    <3>2. Step("terminate", s) \in Due' /\ Step("terminate", s).s = s /\ Step("terminate", s).do = "terminate"
      BY <3>1, NothingDue DEF Answered, Step, Job
    <3>3. Tended(s)'
      BY <3>2 DEF Tended, Handled
    <3> QED BY <2>1, <3>1, <3>3, AnsweredWatched
  <2> QED BY <2>2, <2>3
<1>4. ASSUME NEW p \in asked, p.kind # "subscribe", Other(p.s)
      PROVE  Watched'
  <2>1. p.s \in Streams /\ \A x \in req.pending : x.kind = "subscribe" => x.id # f.id
    BY <1>4 DEF RequestsInv, IdsInv, TypeOK, Tables, Requests
  <2> QED BY <1>2, <1>4, <2>1
<1>5. ASSUME f.id = 0, NEW b \in req.bySub, Other(b.s)
      PROVE  Watched'
  <2>1. b.s \in Streams /\ \A x \in req.pending : x.id # f.id
    BY <1>5 DEF RequestsInv, IdsInv, TypeOK, Tables
  <2> QED BY <1>2, <1>5, <2>1
<1>6. CASE Answered([req EXCEPT !.unsubscribing = @ \ {f.id}], <<>>)
  BY <1>6, ForgetTables, AnsweredWatched DEF Asking
<1>7. CASE Answered(req, <<>>) \/ Answered(req, <<Every("reportAll")>>)
  BY <1>7, AnsweredWatched DEF Asking
<1>8. \/ Answered([req EXCEPT !.unsubscribing = @ \ {f.id}], <<>>)
      \/ Answered(req, <<>>)
      \/ \E p \in asked : IF p.kind = "subscribe" THEN SubscribeError(p.s, f) ELSE Other(p.s)
      \/ f.id = 0 /\ \E b \in req.bySub : Other(b.s)
      \/ Answered(req, <<Every("reportAll")>>)
  BY DEF OnError
<1> HIDE DEF asked, Other
<1> QED BY <1>3, <1>4, <1>5, <1>6, <1>7, <1>8

LEMMA OnStreamFrameWatched ==
    ASSUME TypeOK, RequestsInv, Watched, Idle, net.wire # <<>>, UNCHANGED micro,
           NEW b \in req.bySub, NEW f \in Frames, OnStreamFrame(b.s, f)
    PROVE  Watched'
<1> DEFINE s == b.s
           r == IF f.seq > 0 THEN [stream[s] EXCEPT !.seq = f.seq] ELSE stream[s]
<1>1. /\ s \in Streams /\ stream[s] \in StreamObject /\ req \in Tables /\ f.seq \in Nat /\ turn = <<>>
      /\ \A t \in Current : Asking(t) \subseteq req.pending
  BY FrameFields, Reading DEF TypeOK, Tables, Asking
<1>2. /\ r \in StreamObject /\ r.channel = stream[s].channel /\ r.sub = stream[s].sub
      /\ r.retryTimer = stream[s].retryTimer
  BY <1>1 DEF StreamObject
<1>3. CASE Resubscribe(s, stream[s], req, Read)
  BY <1>1, <1>3, ResubscribeWatched
<1>4. ASSUME NEW x, x.channel = r.channel, x.sub = r.sub, x.retryTimer = r.retryTimer,
             NEW jobs, Update(s, x, jobs)
      PROVE  Watched'
  BY <1>2, <1>4, UpdateWatched
<1> HIDE DEF s
<1>5. CASE SnapshotEnd(s, f)
  <2> DEFINE x == [stream[s] EXCEPT !.seq = f.seq, !.staged = NoView]
             view == stream[s].staged
             y == [x EXCEPT !.cursor = NoCursor]
             z == [x EXCEPT !.cursor = f.pos, !.retries = 0, !.orders = view]
  <2>1. y \in StreamObject
    BY <1>1 DEF StreamObject, MaybeView, Cursors
  <2>2. z.channel = stream[s].channel /\ z.sub = stream[s].sub /\ z.retryTimer = stream[s].retryTimer
    BY <1>1 DEF StreamObject
  <2>3. Resubscribe(s, y, req, Read) \/ Update(s, z, <<Deliver(s, Snapshot(view))>>)
    BY <1>5 DEF SnapshotEnd
  <2> HIDE DEF x, y, z
  <2> QED BY <1>1, <2>1, <2>2, <2>3, ResubscribeWatched, UpdateWatched
<1>6. CASE OnUnit(s, f)
  <2> DEFINE y == [stream[s] EXCEPT !.seq = f.seq, !.cursor = f.pos, !.retries = 0,
                                    !.orders = IF @ = NoView THEN @ ELSE Apply(@, f.pos)]
  <2>1. y.channel = stream[s].channel /\ y.sub = stream[s].sub /\ y.retryTimer = stream[s].retryTimer
    BY <1>1 DEF StreamObject
  <2>2. Update(s, y, <<Deliver(s, UnitEvent(f.pos))>>)
    BY <1>6 DEF OnUnit
  <2> HIDE DEF y
  <2> QED BY <2>1, <2>2, UpdateWatched
<1>7. CASE Ended(s, req)
  BY <1>1, <1>7, EndedWatched
<1>8. CASE UNCHANGED core
  BY <1>1, <1>8, AllKept, IdleUnchanged DEF core
<1>9. /\ [r EXCEPT !.staged = EmptyView].channel = r.channel /\ [r EXCEPT !.staged = EmptyView].sub = r.sub
      /\ [r EXCEPT !.staged = EmptyView].retryTimer = r.retryTimer
      /\ \A v : LET x == [r EXCEPT !.staged = IF @ = NoView THEN @ ELSE v]
                IN  x.channel = r.channel /\ x.sub = r.sub /\ x.retryTimer = r.retryTimer
      /\ \A v : LET x == [r EXCEPT !.cursor = v, !.retries = 0]
                IN  x.channel = r.channel /\ x.sub = r.sub /\ x.retryTimer = r.retryTimer
      /\ LET x == [r EXCEPT !.retries = 0]
         IN  x.channel = r.channel /\ x.sub = r.sub /\ x.retryTimer = r.retryTimer
      /\ \A v : LET x == [r EXCEPT !.stale = v]
                IN  x.channel = r.channel /\ x.sub = r.sub /\ x.retryTimer = r.retryTimer
  BY <1>2 DEF StreamObject
<1>10. \/ Resubscribe(s, stream[s], req, Read)
       \/ Update(s, [r EXCEPT !.staged = EmptyView], <<>>)
       \/ Update(s, [r EXCEPT !.staged = IF @ = NoView THEN @ ELSE ViewAt(f.pos)], <<>>)
       \/ SnapshotEnd(s, f)
       \/ OnUnit(s, f)
       \/ Update(s, [r EXCEPT !.cursor = f.pos, !.retries = 0], <<>>)
       \/ Update(s, [r EXCEPT !.retries = 0], <<>>)
       \/ Update(s, r, <<>>)
       \/ Update(s, [r EXCEPT !.stale = f.note], <<Deliver(s, Stale(f.note))>>)
       \/ UNCHANGED core
       \/ Ended(s, req)
  BY DEF OnStreamFrame, s
<1> HIDE DEF r
<1> QED BY <1>3, <1>4, <1>5, <1>6, <1>7, <1>8, <1>9, <1>10

LEMMA OnFrameWatched ==
    ASSUME TypeOK, RequestsInv, AnswersInv, Watched, OnFrame \/ OnGarbledFrame
    PROVE  Watched'
<1> DEFINE f == Head(net.wire)
<1>1. Idle /\ net.wire # <<>> /\ f \in Frames /\ turn = <<>> /\ UNCHANGED micro
  BY ReadType, Reading DEF OnFrame, OnGarbledFrame
<1>2. CASE f.kind = "refreshed" /\ Answered(Forget(f.id), <<>>)
  <2>1. \A p \in req.pending : p.kind = "subscribe" => p.id # f.id
    BY <1>1, <1>2, ReadCalm DEF AnswersInv, RequestsInv, IdsInv
  <2> QED BY <1>1, <1>2, <2>1, NobodyAsks, AnsweredWatched
<1>3. CASE Answered([req EXCEPT !.unsubscribing = @ \ {f.id}], <<>>)
  BY <1>1, <1>3, ForgetTables, AnsweredWatched DEF Asking
<1>4. CASE Answered(req, <<>>) \/ Answered(req, <<Every("reportAll")>>)
  BY <1>1, <1>4, AnsweredWatched DEF Asking
<1>5. CASE UNCHANGED core
  BY <1>1, <1>5, AllKept, IdleUnchanged DEF core
<1>6. CASE \E b \in req.bySub : OnStreamFrame(b.s, f)
  BY <1>1, <1>6, OnStreamFrameWatched
<1>7. CASE f.kind = "subscribed" /\ OnSubscribed(f)
  BY <1>1, <1>7, OnSubscribedWatched
<1>8. CASE f.kind = "error" /\ OnError(f)
  BY <1>1, <1>8, OnErrorWatched
<1> QED BY <1>2, <1>3, <1>4, <1>5, <1>6, <1>7, <1>8 DEF OnFrame, OnGarbledFrame

-----------------------------------------------------------------------------
(* The rest of a turn, and the world outside.                              *)

\* The first job makes way for others: what it would do for a stream is done.
LEMMA TurnWatched ==
    ASSUME TypeOK, Watched, turn # <<>>, UNCHANGED <<conn, micro>>, Current' \subseteq Current,
           NEW jobs \in Seq(Jobs), Push(jobs), Head(turn).do # "schedule",
           \A s \in Current' : Same(s) \/ Tended(s)',
           \A s \in Current' : Head(turn).s = s /\ Head(turn).do \in {"terminate", "finish", "retry"} => Tended(s)',
           \A s \in Current' : \/ Head(turn).s = s /\ Head(turn).do \in {"terminate", "finish"}
                               \/ Head(turn).do = "terminateAll" /\ s \in Head(turn).left
                               => Ending(s)'
    PROVE  Watched'
<1>1. \A j \in Due : j = Head(turn) \/ j \in Due'
  BY PushDue
<1>2. \A s \in Current' : Handled(s) => Handled(s)' \/ Tended(s)'
  BY <1>1 DEF Handled
<1>3. AllTended'
  BY <1>2, TendedStays DEF Watched
<1>4. (Waiting => Waiting') /\ \A s \in Current' : Ending(s) => Ending(s)'
  BY <1>1 DEF Waiting, Ending
<1>5. LinkSought'
  BY <1>4, SameLink, LinkStays DEF Watched
<1> QED BY <1>3, <1>5 DEF Watched

LEMMA CallsWatched ==
    ASSUME TypeOK, Watched, CallConsumer \/ CallsDone \/ NextStream
    PROVE  Watched'
<1> DEFINE job == Head(turn)
<1>1. turn # <<>> /\ job \in Jobs /\ UNCHANGED <<subs, req, conn, micro>> /\ Current' = Current
  BY TurnType, SameCurrent DEF CallConsumer, CallsDone, NextStream, core, env
<1>2. \A t \in Streams : Kept(t) => (t \in Current => Same(t))
  BY <1>1 DEF Same, Asking
<1>3. ASSUME NEW jobs \in Seq(Jobs), Push(jobs), \A s \in Streams : Kept(s), job.do \notin {"schedule", "terminate", "finish", "retry"},
             \A s \in Current : job.do = "terminateAll" /\ s \in job.left => Ending(s)'
      PROVE  Watched'
  BY <1>1, <1>2, <1>3, CurrentStreams, TurnWatched
<1>4. UNCHANGED stream => \A s \in Streams : Kept(s)
  BY AllKept
<1>5. <<>> \in Seq(Jobs)
  OBVIOUS
<1>6. CASE CallConsumer
  <2>1. PICK c \in Callable(job) : Push(<<[job EXCEPT !.left = @ \ {c}, !.called = TRUE]>>)
    BY <1>6 DEF CallConsumer
  <2>2. job.do \in {"deliver", "report", "call"}
    BY <2>1 DEF Callable
  <2> DEFINE next == [job EXCEPT !.left = @ \ {c}, !.called = TRUE]
  <2>3. next \in Jobs
    BY <1>1, <2>2, JobFields DEF Jobs, CallJobs
  <2>4. UNCHANGED stream /\ Push(<<next>>)
    BY <1>6, <2>1 DEF CallConsumer, core
  <2> HIDE DEF next
  <2> QED BY <1>3, <1>4, <2>2, <2>3, <2>4, ShortSeqs
<1>7. CASE CallsDone
  BY <1>3, <1>4, <1>5, <1>7 DEF CallsDone, Pop, core
<1>8. CASE NextStream
  <2>1. ASSUME NEW s \in job.left, job.do \in {"terminateAll", "reportAll"}, UNCHANGED stream,
               Push(<<IF job.do = "reportAll" THEN Report(s) ELSE Step("terminate", s),
                      [job EXCEPT !.left = @ \ {s}]>>)
        PROVE  Watched'
    <3> DEFINE one  == IF job.do = "reportAll" THEN Report(s) ELSE Step("terminate", s)
               rest == [job EXCEPT !.left = @ \ {s}]
    <3>1. s \in Streams /\ job \in ClientJobs
      BY <1>1, <2>1, JobFields
    <3>2. one \in Jobs
      BY <3>1, ClientJobTypes, JobTypes, EventTypes
    <3>3. rest \in Jobs /\ rest.do = job.do /\ rest.left = job.left \ {s}
      BY <2>1, <3>1 DEF Jobs, ClientJobs
    <3>4. Push(<<one, rest>>)
      BY <2>1
    <3>5. job.do = "terminateAll" => one.do = "terminate" /\ one.s = s
      BY DEF Step, Job
    <3> HIDE DEF one, rest
    <3>6. <<one, rest>> \in Seq(Jobs) /\ one \in Due' /\ rest \in Due'
      <4>1. <<one, rest>> \in Seq(Jobs) /\ 1 \in DOMAIN <<one, rest>> /\ 2 \in DOMAIN <<one, rest>>
        BY <3>2, <3>3, ShortSeqs
      <4>2. <<one, rest>>[1] \in Due' /\ <<one, rest>>[2] \in Due'
        BY <1>1, <3>4, <4>1, PushDue
      <4> QED BY <4>1, <4>2
    <3>7. \A t \in Current : job.do = "terminateAll" /\ t \in job.left => Ending(t)'
      BY <3>3, <3>5, <3>6 DEF Ending
    <3> QED BY <1>3, <1>4, <2>1, <3>4, <3>6, <3>7
  <2>2. ASSUME NEW s \in Current, job.do = "closed", stream' = [stream EXCEPT ![s].state = "disconnected"],
               Push(<<Deliver(s, Link("disconnected")), job>>)
        PROVE  Watched'
    <3> DEFINE one == Deliver(s, Link("disconnected"))
    <3>1. one \in Jobs
      BY CurrentStreams, JobTypes, EventTypes
    <3>2. \A t \in Streams : Kept(t)
      BY <2>2 DEF TypeOK, StreamObject, Kept
    <3> HIDE DEF one
    <3>3. <<one, job>> \in Seq(Jobs)
      BY <1>1, <3>1, ShortSeqs
    <3>4. Push(<<one, job>>)
      BY <2>2 DEF one
    <3> QED BY <1>3, <2>2, <3>2, <3>3, <3>4
  <2>3. CASE /\ Pop /\ UNCHANGED stream
             /\ job.do = "closed" \/ (job.do \in {"terminateAll", "reportAll"} /\ job.left = {})
    BY <1>3, <1>4, <1>5, <2>3 DEF Pop
  <2>4. \/ \E s \in job.left :
              /\ job.do \in {"terminateAll", "reportAll"} /\ UNCHANGED stream
              /\ Push(<<IF job.do = "reportAll" THEN Report(s) ELSE Step("terminate", s),
                        [job EXCEPT !.left = @ \ {s}]>>)
        \/ \E s \in Current : /\ job.do = "closed" /\ stream' = [stream EXCEPT ![s].state = "disconnected"]
                              /\ Push(<<Deliver(s, Link("disconnected")), job>>)
        \/ /\ Pop /\ UNCHANGED stream
           /\ job.do = "closed" \/ (job.do \in {"terminateAll", "reportAll"} /\ job.left = {})
    BY <1>8 DEF NextStream
  <2> HIDE DEF job
  <2> QED BY <2>1, <2>2, <2>3, <2>4
<1> QED BY <1>6, <1>7, <1>8

LEMMA ResumeWatched ==
    ASSUME TypeOK, RequestsInv, Watched, Resume, NEW job, job = Head(turn), NEW s, s = job.s
    PROVE  Watched'
<1>1. turn # <<>> /\ job \in Jobs /\ UNCHANGED micro /\ job \in Due
  <2>1. turn # <<>> /\ job \in Jobs /\ UNCHANGED micro
    BY TurnType DEF Resume
  <2>2. job = turn[1] /\ 1 \in DOMAIN turn
    BY <2>1, HeadTailProperties, EmptySeq, LenProperties DEF TypeOK
  <2> QED BY <2>1, <2>2 DEF Due
<1>2. <<>> \in Seq(Jobs) /\ (Pop => Push(<<>>))
  BY DEF Pop
<1>3. UNCHANGED <<subs, req>> => Current' = Current /\ \A t \in Current : Kept(t) => Same(t)
  BY SameCurrent DEF Same, Asking
<1>4. CASE job.do = "terminate" /\ UNCHANGED <<core, net>>
           /\ IF IsCurrent(s) THEN Push(<<Report(s), Step("finish", s)>>) ELSE Pop
  <2> DEFINE one == Report(s)
             two == Step("finish", s)
  <2>1. s \in Streams /\ UNCHANGED <<subs, stream, req, conn>>
    BY <1>1, <1>4, JobFields DEF core
  <2>2. one \in Jobs /\ two \in Jobs /\ two.s = s /\ two.do = "finish"
    BY <2>1, ClientJobTypes, JobTypes, EventTypes DEF Step, Job
  <2>3. Current' = Current /\ \A t \in Current : Same(t)
    BY <1>3, <2>1, AllKept, CurrentStreams
  <2>4. CASE IsCurrent(s)
    <3>1. Push(<<one, two>>)
      BY <1>4, <2>4
    <3> HIDE DEF one, two
    <3>2. <<one, two>> \in Seq(Jobs) /\ two \in Due'
      <4>1. <<one, two>> \in Seq(Jobs) /\ 2 \in DOMAIN <<one, two>>
        BY <2>2, ShortSeqs
      <4>2. <<one, two>>[2] \in Due'
        BY <1>1, <3>1, <4>1, PushDue
      <4> QED BY <4>1, <4>2
    <3>3. Ending(s)' /\ Tended(s)'
      BY <2>2, <3>2 DEF Ending, Tended, Handled
    <3> QED BY <1>1, <1>4, <2>1, <2>3, <3>1, <3>2, <3>3, TurnWatched
  <2>5. CASE ~IsCurrent(s)
    <3>1. Push(<<>>)
      BY <1>2, <1>4, <2>5
    <3>2. s \notin Current
      BY <2>5 DEF IsCurrent
    <3> HIDE DEF one, two
    <3>3. \A t \in Current' : job.s # t
      BY <2>3, <3>2
    <3> QED BY <1>1, <1>2, <1>4, <2>1, <2>3, <3>1, <3>3, TurnWatched
  <2> QED BY <2>4, <2>5
<1>5. CASE job.do = "finish" /\ FinishTerminate(s)
  <2> DEFINE r == [stream[s] EXCEPT !.state = "disconnected"]
             call == Job("call", s, Link("disconnected"), OwedClose(s))
  <2>1. s \in Streams /\ OwedClose(s) \in SUBSET Consumers
    BY <1>1, <1>5, JobFields DEF OwedClose, TypeOK, StreamObject
  <2>2. call \in Jobs
    BY <2>1, JobTypes, EventTypes
  <2>3. Push(<<call>>)
    BY <1>5 DEF FinishTerminate
  <2> HIDE DEF call
  <2>4. <<call>> \in Seq(Jobs)
    BY <2>2, ShortSeqs
  <2>5. r \in StreamObject /\ r.channel = stream[s].channel /\ r.sub = stream[s].sub
        /\ r.retryTimer = stream[s].retryTimer
    <3>1. stream[s] \in StreamObject
      BY <2>1 DEF TypeOK
    <3> QED BY <3>1 DEF StreamObject, LinkStates
  <2>6. \/ Current' = {} /\ ~conn'.authSent
        \/ Current' \subseteq Current \ {s} /\ UNCHANGED conn /\ \A t \in Current' : Same(t)
    <3>1. CASE IsCurrent(s) /\ Teardown(s, r)
      BY <2>1, <2>5, <3>1, TeardownSpares
    <3>2. CASE ~IsCurrent(s) /\ stream' = [stream EXCEPT ![s] = r] /\ UNCHANGED <<subs, req, conn>>
      BY <1>3, <2>5, <3>2, AllKept, CurrentStreams DEF IsCurrent
    <3> QED BY <1>5, <3>1, <3>2 DEF FinishTerminate
  <2>7. CASE Current' = {} /\ ~conn'.authSent
    BY <2>7 DEF Watched, AllTended, LinkSought
  <2>8. CASE Current' \subseteq Current \ {s} /\ UNCHANGED conn /\ \A t \in Current' : Same(t)
    BY <1>1, <1>5, <2>3, <2>4, <2>8, TurnWatched
  <2> QED BY <2>6, <2>7, <2>8
<1>6. CASE /\ job.do = "unstale" /\ (Pop \/ Push(<<Deliver(s, Stale("no"))>>))
           /\ stream' = [stream EXCEPT ![s].stale = "no"] /\ UNCHANGED <<subs, req, conn>>
  <2> DEFINE one == Deliver(s, Stale("no"))
  <2>1. s \in Streams /\ "no" \in Scopes
    BY <1>1, <1>6, JobFields DEF Scopes
  <2>2. one \in Jobs
    BY <2>1, JobTypes, EventTypes
  <2>3. Push(<<one>>) \/ Push(<<>>)
    BY <1>2, <1>6
  <2> HIDE DEF one
  <2>4. <<one>> \in Seq(Jobs)
    BY <2>2, ShortSeqs
  <2>5. \A t \in Streams : Kept(t)
    BY <1>6 DEF TypeOK, StreamObject, Kept
  <2> QED BY <1>1, <1>2, <1>3, <1>6, <2>3, <2>4, <2>5, CurrentStreams, TurnWatched
<1>7. ASSUME job.do = "retry", NEW sock \in job.left, stream' = [stream EXCEPT ![s] = Retrying(@, sock)], Pop,
             UNCHANGED <<subs, req, conn>>
      PROVE  Watched'
  <2>1. s \in Streams /\ stream[s] \in StreamObject
    BY <1>1, <1>7, JobFields DEF TypeOK
  <2>2. job \in Retries
    BY <1>1, <1>7 DEF Retries
  <2>3. s \in Current => job.left = {conn.ws} /\ conn.ws # 0
    BY <2>1, <2>2 DEF RequestsInv, Settled, IsCurrent, SocketsInv
  <2>4. stream'[s].retryTimer = sock /\ \A t \in Streams \ {s} : Kept(t)
    BY <1>7, <2>1 DEF TypeOK, StreamObject, Retrying, Kept
  <2>5. s \in Current => Tended(s)'
    BY <2>3, <2>4 DEF Tended
  <2>6. Current' = Current /\ \A t \in Current : t # s => Same(t)
    BY <1>3, <1>7, <2>4, CurrentStreams
  <2> QED BY <1>1, <1>2, <1>7, <2>5, <2>6, TurnWatched
<1>8. CASE job.do = "schedule" /\ conn' = Scheduled(conn) /\ Pop /\ UNCHANGED <<subs, stream, req>>
  <2>1. conn'.timer /\ conn'.authSent = conn.authSent
    BY <1>8 DEF Scheduled, TypeOK, Connection
  <2>2. \A j \in Due : j = job \/ j \in Due'
    BY <1>1, <1>2, <1>8, PushDue
  <2>3. \A t : Handled(t) => Handled(t)'
    BY <1>8, <2>2 DEF Handled
  <2>4. Current' = Current /\ \A t \in Current : Same(t)
    BY <1>3, <1>8, AllKept, CurrentStreams
  <2>5. AllTended'
    BY <2>1, <2>3, <2>4, TendedStays DEF Watched
  <2> QED BY <2>1, <2>5 DEF Watched, LinkSought, Linked
<1>9. \/ /\ job.do = "terminate" /\ UNCHANGED <<core, net>>
         /\ IF IsCurrent(s) THEN Push(<<Report(s), Step("finish", s)>>) ELSE Pop
      \/ job.do = "finish" /\ FinishTerminate(s)
      \/ /\ job.do = "unstale" /\ (Pop \/ Push(<<Deliver(s, Stale("no"))>>))
         /\ stream' = [stream EXCEPT ![s].stale = "no"] /\ UNCHANGED <<subs, req, conn>>
      \/ /\ job.do = "retry" /\ \E sock \in job.left : stream' = [stream EXCEPT ![s] = Retrying(@, sock)]
         /\ Pop /\ UNCHANGED <<subs, req, conn>>
      \/ job.do = "schedule" /\ conn' = Scheduled(conn) /\ Pop /\ UNCHANGED <<subs, stream, req>>
  BY DEF Resume
<1> QED BY <1>4, <1>5, <1>6, <1>7, <1>8, <1>9

LEMMA StepKeepsWatch ==
    ASSUME TypeOK, LinkInv, RequestsInv, AnswersInv, Watched, [Next]_vars
    PROVE  Watched'
<1>1. CASE App
  BY <1>1, AppWatched
<1>2. CASE SocketCloses \/ HeartbeatTimer
  <2>1. Idle /\ \E terminal \in BOOLEAN : Closed(terminal)
    BY <1>2 DEF SocketCloses, HeartbeatTimer
  <2> QED BY <2>1, SocketWatched
<1>3. CASE Client
  BY <1>2, <1>3, RunMicrotaskWatched, FetchWatched, TimersWatched, SocketWatched, OnFrameWatched,
     CallsWatched, ResumeWatched DEF Client
<1>4. CASE Server \/ UNCHANGED vars
  <2>1. UNCHANGED <<subs, stream, req, conn, micro, turn>>
    BY <1>4 DEF Server, AccountMoves, ServerSends, FrameLost, ConnectionEnds, core, vars
  <2>2. \A s \in Current : Same(s)
    BY <2>1, AllKept, CurrentStreams DEF Same, Asking
  <2> QED BY <2>1, <2>2, NothingDue, WatchStays
<1> QED BY <1>1, <1>3, <1>4 DEF Next

LEMMA WatchedAttempt ==
    TypeOK /\ RequestsInv /\ Watched => OneAttempt
<1> SUFFICES ASSUME TypeOK, RequestsInv, Watched, Idle PROVE OneAttempt
  BY DEF OneAttempt
<1>1. ~Waiting /\ (\A s : ~Handled(s) /\ ~Ending(s)) /\ ~GivingUp
  BY NothingDue DEF Idle, GivingUp
<1>2. NeverAbandoned
  BY <1>1 DEF Watched, LinkSought, Linked, NeverAbandoned
<1>3. ASSUME conn.authSent, NEW s \in Current
      PROVE  LET asking == {p \in req.pending : p.kind = "subscribe" /\ p.s = s}
                 r == stream[s]
             IN  /\ \A p, q \in asking : p = q
                 /\ \/ r.sub # 0 /\ asking = {} /\ r.retryTimer = 0
                    \/ r.sub = 0 /\ asking # {} /\ r.retryTimer = 0
                    \/ r.sub = 0 /\ asking = {} /\ r.retryTimer = conn.ws
  <2>1. Tidy(s) /\ Tended(s) /\ ~Handled(s)
    BY <1>1, <1>3, CurrentStreams DEF RequestsInv, Settled, IsCurrent, Watched, AllTended
  <2> QED BY <2>1 DEF Tidy, Tended, Asking
<1> QED BY <1>2, <1>3 DEF OneAttempt

-----------------------------------------------------------------------------

\* The client never sits waiting for nothing, and never asks twice: between turns it
\* has, dials or has timed a connection while a stream is current, and each current
\* stream of an authenticated socket is subscribed, asks once, or has a retry timer
\* of this very socket.
THEOREM OneAttemptHolds == Spec => []OneAttempt
<1> DEFINE Inv == TypeOK /\ Created /\ LinkInv /\ RequestsInv /\ AnswersInv /\ Watched
<1>1. Init => Inv
  <2> SUFFICES ASSUME Init PROVE Inv
    OBVIOUS
  <2>1. TypeOK /\ Created /\ LinkInv /\ RequestsInv
    <3>1. Created
      BY DEF Init, Created, Named, Current
    <3>2. LinkInv
      BY DEF Init, LinkInv, DialledBefore, Dialled, OneConnection, Offline
    <3> QED BY <3>1, <3>2, InitTypes, InitRequests
  <2>2. Current = {} /\ Renewed(net) = {} /\ ~conn.authSent
    BY EmptyWire DEF Init, Current, Offline
  <2> QED BY <2>1, <2>2 DEF AnswersInv, Watched, AllTended, LinkSought
<1>2. Inv /\ [Next]_vars => Inv'
  BY StepKeepsTypes, StepKeepsCreated, StepKeepsLink, StepKeepsRequests, StepKeepsAnswers, StepKeepsWatch
<1>3. Inv => OneAttempt
  BY WatchedAttempt
<1> QED BY <1>1, <1>2, <1>3, PTL DEF Spec

\* The frame at k is cut out.
LEMMA CutParts ==
    ASSUME NEW n \in Network, NEW k \in DOMAIN n.wire
    PROVE  LET w1 == SubSeq(n.wire, 1, k - 1)
               w2 == SubSeq(n.wire, k + 1, Len(n.wire))
           IN  /\ w1 \in Seq(Frames) /\ Len(w1) = k - 1 /\ \A i \in 1 .. (k - 1) : w1[i] = n.wire[i]
               /\ w2 \in Seq(Frames) /\ Len(w2) = Len(n.wire) - k
               /\ \A i \in 1 .. (Len(n.wire) - k) : w2[i] = n.wire[k + i]
<1> DEFINE len == Len(n.wire)
<1>1. n.wire \in Seq(Frames) /\ k \in 1 .. len /\ len \in Nat /\ DOMAIN n.wire = 1 .. len
  BY NetFields
<1>2. \A i \in 1 .. (k - 1) : i \in 1 .. len
  BY <1>1
<1>3. \A i \in (k + 1) .. len : i \in 1 .. len
  BY <1>1
<1> QED BY <1>1, <1>2, <1>3, SubSeqProperties

LEMMA CutFrame ==
    ASSUME NEW n \in Network, NEW k \in DOMAIN n.wire
    PROVE  LET w == SubSeq(n.wire, 1, k - 1) \o SubSeq(n.wire, k + 1, Len(n.wire))
           IN  /\ n.wire # <<>> /\ Len(n.wire) \in Nat /\ k \in 1 .. Len(n.wire)
               /\ DOMAIN n.wire = 1 .. Len(n.wire) /\ DOMAIN w = 1 .. (Len(n.wire) - 1)
               /\ \A i \in 1 .. (Len(n.wire) - 1) : w[i] = n.wire[IF i < k THEN i ELSE i + 1]
<1> DEFINE w1 == SubSeq(n.wire, 1, k - 1)
           w2 == SubSeq(n.wire, k + 1, Len(n.wire))
           len == Len(n.wire)
           v == w1 \o w2
<1>1. k \in 1 .. len /\ len \in Nat /\ DOMAIN n.wire = 1 .. len /\ n.wire # <<>>
  BY NetFields
<1>2. /\ w1 \in Seq(Frames) /\ Len(w1) = k - 1 /\ \A i \in 1 .. (k - 1) : w1[i] = n.wire[i]
      /\ w2 \in Seq(Frames) /\ Len(w2) = len - k
      /\ \A i \in 1 .. (len - k) : w2[i] = n.wire[k + i]
  BY CutParts
<1> HIDE DEF w1, w2, len
<1>3. /\ v \in Seq(Frames) /\ Len(v) = Len(w1) + Len(w2)
      /\ \A i \in 1 .. Len(w1) + Len(w2) : v[i] = IF i <= Len(w1) THEN w1[i] ELSE w2[i - Len(w1)]
  BY <1>2, ConcatProperties
<1> HIDE DEF v
<1>4. /\ DOMAIN v = 1 .. (len - 1)
      /\ \A i \in 1 .. (len - 1) : v[i] = IF i <= k - 1 THEN w1[i] ELSE w2[i - (k - 1)]
  <2>1. Len(w1) + Len(w2) = len - 1
    BY <1>1, <1>2
  <2> QED BY <1>2, <1>3, <2>1, LenProperties
<1>5. ASSUME NEW i \in 1 .. (len - 1)
      PROVE  v[i] = n.wire[IF i < k THEN i ELSE i + 1]
  <2>1. CASE i < k
    <3>1. i \in 1 .. (k - 1) /\ i <= k - 1
      BY <1>1, <2>1
    <3>2. v[i] = w1[i] /\ w1[i] = n.wire[i]
      BY <1>2, <1>4, <3>1
    <3> QED BY <2>1, <3>2
  <2>2. CASE ~(i < k)
    <3>1. i - (k - 1) \in 1 .. (len - k) /\ ~(i <= k - 1) /\ k + (i - (k - 1)) = i + 1
      BY <1>1, <2>2
    <3> QED BY <1>2, <1>4, <2>2, <3>1
  <2> QED BY <2>1, <2>2
<1> QED BY <1>1, <1>4, <1>5 DEF v, len, w1, w2

-----------------------------------------------------------------------------
(* The views.  Only the set of unread frames matters here, not their order: *)
(* each frame of a sequence carries its number.                            *)

Sequenced == {"begin", "page", "end", "unit", "covered", "ready", "resync", "unavailable", "available"}
Changes   == {"unit", "covered"}
Remarks   == {"ready", "resync", "unavailable", "available"}

Sent(n) == {n.wire[i] : i \in DOMAIN n.wire}
Subs(n) == {r.sub : r \in n.srv} \cup {f.sub : f \in {g \in Sent(n) : g.seq > 0}}

\* What a reader at cursor c that has staged v expects of the next frame.
Fits(g, c, v) ==
    /\ g.kind \in Changes => c = g.pos - 1
    /\ g.kind \in Remarks /\ g.pos # NoCursor => c = g.pos
    /\ g.kind = "page" => v = EmptyView
    /\ g.kind = "end"  => v = EmptyView \/ v = ViewAt(g.pos)

\* Frame g may follow frame f.
Goes(f, g) ==
    /\ g.kind \in Changes => f.kind \notin {"begin", "page"} /\ f.pos = g.pos - 1
    /\ g.kind \in Remarks /\ g.pos # NoCursor => f.kind \notin {"begin", "page"} /\ f.pos = g.pos
    /\ g.kind = "page" => f.kind = "begin"
    /\ g.kind = "end"  => f.kind = "begin" \/ (f.kind = "page" /\ f.pos = g.pos)

\* The last frame that was sent leaves the server's subscription r where it says.
LeavesAt(f, r) == f.kind \notin {"begin", "page"} /\ f.pos = r.pos

\* A covered unit changes no order.
Covers(f) == /\ f.pos \in Positions \ {0}
             /\ f.kind = "covered" => \A o \in OrderIds : ~Touched(o, f.pos)

\* The positions of a subscription never go back.
Climbs(n) ==
    /\ \A f, g \in Sent(n) : f.sub = g.sub /\ f.seq > 0 /\ f.seq < g.seq => f.pos <= g.pos
    /\ \A f \in Sent(n), r \in n.srv : f.sub = r.sub /\ f.seq > 0 => f.pos <= r.pos

InOrder(n) ==
    /\ \A f \in Sent(n) : f.seq > 0 <=> f.kind \in Sequenced
    /\ \A f \in Sent(n) : f.kind \in Changes => Covers(f)
    /\ \A f \in Sent(n) : f.kind = "end" => f.pos # NoCursor
    /\ \A f, g \in Sent(n) : f.sub = g.sub /\ f.seq > 0 /\ g.seq = f.seq + 1 => Goes(f, g)
    /\ \A f \in Sent(n), r \in n.srv :
          f.sub = r.sub /\ f.seq > 0 => f.seq <= r.seq /\ (f.seq = r.seq => LeavesAt(f, r))
    /\ \A q, r \in n.srv : q.sub = r.sub => q = r
    /\ Climbs(n)

\* A client that has read k frames of subscription x, is at cursor c and has
\* staged v can make sense of the next frame, whether sent or yet to come.
Reads(n, x, k, c, v) ==
    /\ \A f \in Sent(n) : f.sub = x /\ f.seq = k + 1 => Fits(f, c, v)
    /\ \A r \in n.srv : r.sub = x => k <= r.seq /\ (r.seq = k /\ r.pos # NoCursor => c = r.pos)

\* Whoever has read k frames of subscription x, and with them position h of
\* channel ch, is not led back, nor beyond the position top of the account.
Ahead(n, x, k, h, ch, top) ==
    /\ \A f \in Sent(n) : f.sub = x /\ f.seq > k => f.pos <= top /\ (f.pos = NoCursor \/ h <= f.pos)
    /\ \A r \in n.srv : r.sub = x => r.ch = ch /\ r.pos <= top /\ (r.pos = NoCursor \/ h <= r.pos)

\* m comes of n, and confuses no reader.
Keeps(n, m) == /\ InOrder(m) /\ Subs(m) \subseteq Subs(n)
               /\ \A x, c, v : \A k \in Nat : Reads(n, x, k, c, v) => Reads(m, x, k, c, v)
               /\ \A x : \A k \in Nat, h \in Cursors, ch \in Channels :
                     h <= log[ch] /\ Ahead(n, x, k, h, ch, log[ch]) => Ahead(m, x, k, h, ch, log[ch])

LEMMA SentFields ==
    ASSUME NEW n \in Network
    PROVE  /\ Sent(n) \subseteq Frames
           /\ \A f \in Sent(n) : f.sub \in Nat /\ f.seq \in Nat /\ f.pos \in Cursors
           /\ \A r \in n.srv : r.sub \in Nat /\ r.seq \in Nat /\ r.pos \in Cursors
           /\ \A c \in Cursors : c \in Int
<1>1. Sent(n) \subseteq Frames
  BY NetFields DEF Sent
<1>2. \A c \in Cursors : c \in Int
  BY LastUnit DEF Cursors, NoCursor
<1>3. \A f \in Frames : f.sub \in Nat /\ f.seq \in Nat /\ f.pos \in Cursors
  BY DEF Frames, Cursors
<1> QED BY <1>1, <1>2, <1>3, NetFields, ServerSubFields

\* Nothing new but frames that belong to no sequence.
Unnumbered(f) == f.seq = 0 /\ f.kind \notin Sequenced
Less(n, m)    == m.srv \subseteq n.srv /\ \A f \in Sent(m) : f \in Sent(n) \/ Unnumbered(f)

LEMMA LessKeeps ==
    ASSUME NEW n \in Network, InOrder(n), NEW m, Less(n, m)
    PROVE  Keeps(n, m)
<1>1. \A f \in Sent(m) : f.seq # 0 => f \in Sent(n)
  BY DEF Less, Unnumbered
<1>2. \A f \in Sent(n) : f.seq \in Nat
  BY SentFields
<1>3. InOrder(m)
  <2>1. \A f \in Sent(m) : f.seq > 0 <=> f.kind \in Sequenced
    BY DEF InOrder, Less, Unnumbered
  <2>2. \A f \in Sent(m) : f.kind \in Changes => Covers(f)
    BY DEF InOrder, Less, Unnumbered, Changes, Sequenced
  <2>3. ASSUME NEW f \in Sent(m), NEW g \in Sent(m), f.sub = g.sub, f.seq > 0, g.seq = f.seq + 1
        PROVE  Goes(f, g)
    <3>1. f \in Sent(n) /\ g \in Sent(n)
      BY <1>1, <1>2, <2>3
    <3> QED BY <2>3, <3>1 DEF InOrder
  <2>4. ASSUME NEW f \in Sent(m), NEW r \in m.srv, f.sub = r.sub, f.seq > 0
        PROVE  f.seq <= r.seq /\ (f.seq = r.seq => LeavesAt(f, r))
    <3>1. f \in Sent(n) /\ r \in n.srv
      BY <1>1, <2>4 DEF Less
    <3> QED BY <2>4, <3>1 DEF InOrder
  <2>5. \A q, r \in m.srv : q.sub = r.sub => q = r
    BY DEF InOrder, Less
  <2>6. ASSUME NEW f \in Sent(m), f.kind = "end"
        PROVE  f.pos # NoCursor
    <3>1. f \in Sent(n)
      BY <2>6 DEF Less, Unnumbered, Sequenced
    <3> QED BY <2>6, <3>1 DEF InOrder
  <2>7. ASSUME NEW f \in Sent(m), NEW g \in Sent(m), f.sub = g.sub, f.seq > 0, f.seq < g.seq
        PROVE  f.pos <= g.pos
    <3>1. f \in Sent(n) /\ g \in Sent(n)
      <4>1. f \in Sent(n)
        BY <1>1, <2>7
      <4>2. g.seq # 0
        BY <1>2, <2>7, <4>1
      <4> QED BY <1>1, <4>1, <4>2
    <3> QED BY <2>7, <3>1 DEF InOrder, Climbs
  <2>8. ASSUME NEW f \in Sent(m), NEW r \in m.srv, f.sub = r.sub, f.seq > 0
        PROVE  f.pos <= r.pos
    <3>1. f \in Sent(n) /\ r \in n.srv
      BY <1>1, <2>8 DEF Less
    <3> QED BY <2>8, <3>1 DEF InOrder, Climbs
  <2> QED BY <2>1, <2>2, <2>3, <2>4, <2>5, <2>6, <2>7, <2>8 DEF InOrder, Climbs
<1>4. Subs(m) \subseteq Subs(n)
  BY <1>1 DEF Subs, Less
<1>5. ASSUME NEW x, NEW k \in Nat, NEW c, NEW v, Reads(n, x, k, c, v)
      PROVE  Reads(m, x, k, c, v)
  BY <1>1, <1>5 DEF Reads, Less
<1>6. ASSUME NEW x, NEW k \in Nat, NEW h, NEW ch, NEW top, Ahead(n, x, k, h, ch, top)
      PROVE  Ahead(m, x, k, h, ch, top)
  <2>1. ASSUME NEW f \in Sent(m), f.sub = x, f.seq > k
        PROVE  f.pos <= top /\ (f.pos = NoCursor \/ h <= f.pos)
    <3>1. f \in Sent(n)
      BY <1>1, <2>1
    <3> QED BY <1>6, <2>1, <3>1 DEF Ahead
  <2> QED BY <1>6, <2>1 DEF Ahead, Less
<1> QED BY <1>3, <1>4, <1>5, <1>6 DEF Keeps

LEMMA KeepsOnwards ==
    ASSUME NEW n, NEW m, NEW o, Keeps(n, m), Keeps(m, o)
    PROVE  Keeps(n, o)
BY DEF Keeps

\* What is appended, cut out, or left.
LEMMA SentChanges ==
    ASSUME NEW n \in Network
    PROVE  /\ \A f, m : f \in Frames /\ m.wire = Append(n.wire, f) => Sent(m) = Sent(n) \cup {f}
           /\ \A m : m.wire = <<>> => Sent(m) = {}
           /\ \A m : m.wire = n.wire => Sent(m) = Sent(n)
<1>1. n.wire \in Seq(Frames) /\ Len(n.wire) \in Nat /\ DOMAIN n.wire = 1 .. Len(n.wire)
  BY NetFields
<1>2. ASSUME NEW f \in Frames, NEW m, m.wire = Append(n.wire, f)
      PROVE  Sent(m) = Sent(n) \cup {f}
  <2>1. /\ DOMAIN m.wire = 1 .. (Len(n.wire) + 1) /\ m.wire[Len(n.wire) + 1] = f
        /\ \A i \in 1 .. Len(n.wire) : m.wire[i] = n.wire[i]
    BY <1>1, <1>2, AppendProperties
  <2> QED BY <1>1, <2>1 DEF Sent
<1>3. \A m : m.wire = <<>> => Sent(m) = {}
  BY DEF Sent
<1>4. \A m : m.wire = n.wire => Sent(m) = Sent(n)
  BY DEF Sent
<1> QED BY <1>2, <1>3, <1>4

\* The server's subscription r goes on to position pos of its account, or starts there.
Onwards(r, pos) == \/ pos = r.pos
                   \/ r.pos <= pos /\ pos <= log[r.ch] /\ (r.pos # NoCursor \/ pos = log[r.ch])

\* The next frames of a subscription.
Starts(g, r) ==
    /\ g.kind \in Changes => r.pos = g.pos - 1
    /\ g.kind \in Remarks /\ g.pos # NoCursor => r.pos = g.pos
    /\ g.kind \notin {"page", "end"}

LEMMA NumberedKeeps ==
    ASSUME NEW n \in Network, InOrder(n), NEW r \in n.srv, NEW q \in ServerSubs, q.sub = r.sub, q.ch = r.ch,
           NEW len \in Nat \ {0}, q.seq = r.seq + len,
           NEW pos \in Cursors, q.pos = pos, Onwards(r, pos),
           NEW frame, NEW m, m.srv = (n.srv \ {r}) \cup {q},
           Sent(m) = Sent(n) \cup {frame[i] : i \in 1 .. len},
           \A i \in 1 .. len : /\ frame[i] \in Frames /\ frame[i].kind \in Sequenced
                               /\ frame[i].sub = r.sub /\ frame[i].seq = r.seq + i
                               /\ frame[i].kind \in Changes => Covers(frame[i])
                               /\ frame[i].pos = pos /\ (frame[i].kind = "end" => pos # NoCursor),
           Starts(frame[1], r), LeavesAt(frame[len], q),
           \A i \in 1 .. len - 1 : Goes(frame[i], frame[i + 1])
    PROVE  Keeps(n, m)
<1>1. /\ r.sub \in Nat /\ r.seq \in Nat /\ q.seq \in Nat
      /\ \A f \in Sent(n) : f.sub \in Nat /\ f.seq \in Nat /\ f.pos \in Cursors
      /\ \A t \in n.srv : t.sub \in Nat /\ t.seq \in Nat /\ t.pos \in Cursors
      /\ \A c \in Cursors : c \in Int
  BY SentFields
<1>2. \A f \in Sent(n) : f.sub = r.sub => f.seq <= r.seq
  <2>1. \A f \in Sent(n) : f.sub = r.sub /\ f.seq > 0 => f.seq <= r.seq
    BY DEF InOrder
  <2> QED BY <1>1, <2>1
<1>3. \A t \in n.srv : t.sub = r.sub => t = r
  BY DEF InOrder
<1>4. /\ \A i \in 1 .. len : frame[i].pos \in Cursors
      /\ r.pos <= pos /\ \A f \in Sent(n) : f.sub = r.sub /\ f.seq > 0 => f.pos <= pos
  <2>1. r.pos <= pos
    BY <1>1 DEF Onwards
  <2>2. \A f \in Sent(n) : f.sub = r.sub /\ f.seq > 0 => f.pos <= r.pos
    BY DEF InOrder, Climbs
  <2>3. \A f \in Sent(n) : f.pos \in Int /\ r.pos \in Int /\ pos \in Int
    BY <1>1
  <2> QED BY <2>1, <2>2, <2>3
<1>5. InOrder(m)
  <2>1. \A f \in Sent(m) : f.seq > 0 <=> f.kind \in Sequenced
    BY <1>1 DEF InOrder
  <2>2. \A f \in Sent(m) : f.kind \in Changes => Covers(f)
    BY DEF InOrder
  <2>3. ASSUME NEW f \in Sent(m), NEW g \in Sent(m), f.sub = g.sub, f.seq > 0, g.seq = f.seq + 1
        PROVE  Goes(f, g)
    <3>1. CASE f \in Sent(n) /\ g \in Sent(n)
      BY <2>3, <3>1 DEF InOrder
    <3>2. ASSUME f \in Sent(n), NEW i \in 1 .. len, g = frame[i]
          PROVE  Goes(f, g)
      <4>1. f.seq <= r.seq /\ g.seq = r.seq + i /\ f.sub = r.sub
        BY <1>2, <2>3, <3>2
      <4>2. f.seq = r.seq /\ i = 1
        BY <1>1, <2>3, <3>2, <4>1
      <4>3. LeavesAt(f, r) /\ Starts(g, r)
        BY <2>3, <3>2, <4>1, <4>2 DEF InOrder
      <4> QED BY <4>3 DEF LeavesAt, Starts, Goes
    <3>3. ASSUME NEW i \in 1 .. len, f = frame[i], g \in Sent(n)
          PROVE  FALSE
      <4>1. g.seq <= r.seq /\ f.seq = r.seq + i
        BY <1>2, <2>3, <3>3
      <4> QED BY <1>1, <2>3, <3>3, <4>1
    <3>4. ASSUME NEW i \in 1 .. len, f = frame[i], NEW j \in 1 .. len, g = frame[j]
          PROVE  Goes(f, g)
      <4>1. f.seq = r.seq + i /\ g.seq = r.seq + j
        BY <3>4
      <4>2. j = i + 1 /\ i \in 1 .. len - 1
        BY <1>1, <2>3, <4>1
      <4> QED BY <3>4, <4>2
    <3> QED BY <3>1, <3>2, <3>3, <3>4
  <2>4. ASSUME NEW f \in Sent(m), NEW t \in m.srv, f.sub = t.sub, f.seq > 0
        PROVE  f.seq <= t.seq /\ (f.seq = t.seq => LeavesAt(f, t))
    <3>1. CASE f \in Sent(n) /\ t \in n.srv
      BY <2>4, <3>1 DEF InOrder
    <3>2. CASE f \in Sent(n) /\ t = q
      <4>1. f.seq <= r.seq
        BY <1>2, <2>4, <3>2
      <4> QED BY <1>1, <3>2, <4>1
    <3>3. ASSUME NEW i \in 1 .. len, f = frame[i]
          PROVE  f.seq <= t.seq /\ (f.seq = t.seq => LeavesAt(f, t))
      <4>1. t = q
        BY <1>3, <2>4, <3>3
      <4>2. f.seq = r.seq + i /\ t.seq = r.seq + len
        BY <3>3, <4>1
      <4>3. f.seq <= t.seq /\ (f.seq = t.seq => i = len)
        BY <1>1, <4>2
      <4> QED BY <3>3, <4>1, <4>3
    <3> QED BY <2>4, <3>1, <3>2, <3>3
  <2>5. ASSUME NEW s \in m.srv, NEW t \in m.srv, s.sub = t.sub
        PROVE  s = t
    BY <1>3, <2>5 DEF InOrder
  <2>6. \A f \in Sent(m) : f.kind = "end" => f.pos # NoCursor
    BY DEF InOrder
  <2>7. ASSUME NEW f \in Sent(m), NEW g \in Sent(m), f.sub = g.sub, f.seq > 0, f.seq < g.seq
        PROVE  f.pos <= g.pos
    <3>1. CASE f \in Sent(n) /\ g \in Sent(n)
      BY <2>7, <3>1 DEF InOrder, Climbs
    <3>2. ASSUME f \in Sent(n), NEW i \in 1 .. len, g = frame[i]
          PROVE  f.pos <= g.pos
      BY <1>4, <2>7, <3>2
    <3>3. ASSUME NEW i \in 1 .. len, f = frame[i], g \in Sent(n)
          PROVE  FALSE
      <4>1. g.seq <= r.seq /\ f.seq = r.seq + i
        BY <1>2, <2>7, <3>3
      <4> QED BY <1>1, <2>7, <3>3, <4>1
    <3>4. ASSUME NEW i \in 1 .. len, f = frame[i], NEW j \in 1 .. len, g = frame[j]
          PROVE  f.pos <= g.pos
      <4>1. f.pos = pos /\ g.pos = pos /\ pos \in Int
        BY <1>1, <3>4
      <4> QED BY <4>1
    <3> QED BY <3>1, <3>2, <3>3, <3>4
  <2>8. ASSUME NEW f \in Sent(m), NEW t \in m.srv, f.sub = t.sub, f.seq > 0
        PROVE  f.pos <= t.pos
    <3>1. CASE f \in Sent(n) /\ t \in n.srv
      BY <2>8, <3>1 DEF InOrder, Climbs
    <3>2. CASE f \in Sent(n) /\ t = q
      BY <1>4, <2>8, <3>2
    <3>3. ASSUME NEW i \in 1 .. len, f = frame[i]
          PROVE  f.pos <= t.pos
      <4>1. t = q
        BY <1>3, <2>8, <3>3
      <4>2. f.pos = pos /\ t.pos = pos /\ pos \in Int
        BY <1>1, <3>3, <4>1
      <4> QED BY <4>2
    <3> QED BY <2>8, <3>1, <3>2, <3>3
  <2> QED BY <2>1, <2>2, <2>3, <2>4, <2>5, <2>6, <2>7, <2>8 DEF InOrder, Climbs
<1>6. Subs(m) \subseteq Subs(n)
  BY DEF Subs
<1>7. ASSUME NEW x, NEW k \in Nat, NEW c, NEW v, Reads(n, x, k, c, v)
      PROVE  Reads(m, x, k, c, v)
  <2>1. r.sub = x => k <= r.seq /\ (r.seq = k /\ r.pos # NoCursor => c = r.pos)
    BY <1>7 DEF Reads
  <2>2. ASSUME NEW f \in Sent(m), f.sub = x, f.seq = k + 1
        PROVE  Fits(f, c, v)
    <3>1. CASE f \in Sent(n)
      BY <1>7, <2>2, <3>1 DEF Reads
    <3>2. ASSUME NEW i \in 1 .. len, f = frame[i]
          PROVE  Fits(f, c, v)
      <4>1. r.sub = x /\ f.seq = r.seq + i /\ k <= r.seq
        BY <2>1, <2>2, <3>2
      <4>2. i = 1 /\ r.seq = k
        BY <1>1, <2>2, <3>2, <4>1
      <4>3. Starts(f, r) /\ (r.pos # NoCursor => c = r.pos) /\ (f.kind \in Changes => Covers(f))
        BY <2>1, <3>2, <4>1, <4>2
      <4>4. f.kind \in Changes => r.pos # NoCursor
        <5> SUFFICES ASSUME f.kind \in Changes PROVE r.pos # -1
          BY DEF NoCursor
        <5>1. f.pos \in Nat /\ f.pos # 0 /\ r.pos = f.pos - 1
          BY <4>3, LastUnit DEF Starts, Covers
        <5> QED BY <5>1
      <4> QED BY <4>3, <4>4 DEF Starts, Fits
    <3> QED BY <2>2, <3>1, <3>2
  <2>3. ASSUME NEW t \in m.srv, t.sub = x
        PROVE  k <= t.seq /\ (t.seq = k /\ t.pos # NoCursor => c = t.pos)
    <3>1. CASE t \in n.srv
      BY <1>7, <2>3, <3>1 DEF Reads
    <3>2. CASE t = q
      <4>1. k <= r.seq /\ t.seq = r.seq + len
        BY <2>1, <2>3, <3>2
      <4> QED BY <1>1, <4>1
    <3> QED BY <2>3, <3>1, <3>2
  <2> QED BY <2>2, <2>3 DEF Reads
<1>8. ASSUME NEW x, NEW k \in Nat, NEW h \in Cursors, NEW ch \in Channels,
             h <= log[ch], Ahead(n, x, k, h, ch, log[ch])
      PROVE  Ahead(m, x, k, h, ch, log[ch])
  <2>1. ASSUME r.sub = x
        PROVE  pos <= log[ch] /\ (pos = NoCursor \/ h <= pos)
    <3>1. r.ch = ch /\ r.pos <= log[ch] /\ (r.pos = NoCursor \/ h <= r.pos)
      BY <1>8, <2>1 DEF Ahead
    <3>2. CASE pos = r.pos
      BY <3>1, <3>2
    <3>3. CASE r.pos <= pos /\ pos <= log[ch] /\ (r.pos # NoCursor \/ pos = log[ch])
      <4>1. h \in Int /\ pos \in Int /\ r.pos \in Int
        BY <1>1
      <4> QED BY <1>8, <3>1, <3>3, <4>1
    <3> QED BY <3>1, <3>2, <3>3 DEF Onwards
  <2>2. ASSUME NEW f \in Sent(m), f.sub = x, f.seq > k
        PROVE  f.pos <= log[ch] /\ (f.pos = NoCursor \/ h <= f.pos)
    <3>1. CASE f \in Sent(n)
      BY <1>8, <2>2, <3>1 DEF Ahead
    <3>2. ASSUME NEW i \in 1 .. len, f = frame[i]
          PROVE  f.pos <= log[ch] /\ (f.pos = NoCursor \/ h <= f.pos)
      <4>1. r.sub = x /\ f.pos = pos
        BY <2>2, <3>2
      <4> QED BY <2>1, <4>1
    <3> QED BY <2>2, <3>1, <3>2
  <2>3. ASSUME NEW t \in m.srv, t.sub = x
        PROVE  t.ch = ch /\ t.pos <= log[ch] /\ (t.pos = NoCursor \/ h <= t.pos)
    <3>1. CASE t \in n.srv
      BY <1>8, <2>3, <3>1 DEF Ahead
    <3>2. CASE t = q
      <4>1. r.sub = x /\ t.pos = pos /\ t.ch = r.ch
        BY <2>3, <3>2
      <4>2. r.ch = ch
        BY <1>8, <4>1 DEF Ahead
      <4> QED BY <2>1, <4>1, <4>2
    <3> QED BY <2>3, <3>1, <3>2
  <2> QED BY <2>2, <2>3 DEF Ahead
<1> QED BY <1>5, <1>6, <1>7, <1>8 DEF Keeps

\* The frames that take the server's subscription r to q.
Follows(n, r, q, len, pos, frame, m) ==
    /\ q.sub = r.sub /\ q.ch = r.ch /\ q.seq = r.seq + len /\ q.pos = pos /\ Onwards(r, pos)
    /\ m.srv = (n.srv \ {r}) \cup {q}
    /\ Sent(m) = Sent(n) \cup {frame[i] : i \in 1 .. len}
    /\ \A i \in 1 .. len : /\ frame[i] \in Frames /\ frame[i].kind \in Sequenced
                           /\ frame[i].sub = r.sub /\ frame[i].seq = r.seq + i
                           /\ frame[i].kind \in Changes => Covers(frame[i])
                           /\ frame[i].pos = pos /\ (frame[i].kind = "end" => pos # NoCursor)
    /\ Starts(frame[1], r) /\ LeavesAt(frame[len], q)
    /\ \A i \in 1 .. len - 1 : Goes(frame[i], frame[i + 1])

LEMMA FollowingKeeps ==
    ASSUME NEW n \in Network, InOrder(n), NEW r \in n.srv, NEW q \in ServerSubs, NEW len \in Nat \ {0},
           NEW pos \in Cursors, NEW frame, NEW m, Follows(n, r, q, len, pos, frame, m)
    PROVE  Keeps(n, m)
BY NumberedKeeps DEF Follows

LEMMA AppendSends ==
    ASSUME NEW n \in Network, NEW new \in Seq(Frames), NEW m, m.wire = n.wire \o new
    PROVE  Sent(m) = Sent(n) \cup {new[i] : i \in 1 .. Len(new)}
<1> DEFINE len == Len(new)
<1>1. n.wire \in Seq(Frames) /\ Len(n.wire) \in Nat /\ DOMAIN n.wire = 1 .. Len(n.wire) /\ len \in Nat
  BY NetFields, LenProperties
<1>2. /\ DOMAIN m.wire = 1 .. (Len(n.wire) + len)
      /\ \A i \in 1 .. Len(n.wire) : m.wire[i] = n.wire[i]
      /\ \A i \in (Len(n.wire) + 1) .. (Len(n.wire) + len) : m.wire[i] = new[i - Len(n.wire)]
  BY <1>1, ConcatProperties, LenProperties
<1> HIDE DEF len
<1>3. ASSUME NEW i \in DOMAIN m.wire
      PROVE  m.wire[i] \in Sent(n) \cup {new[j] : j \in 1 .. len}
  <2>1. CASE i \in 1 .. Len(n.wire)
    BY <1>1, <1>2, <2>1 DEF Sent
  <2>2. CASE i \notin 1 .. Len(n.wire)
    <3>1. i \in (Len(n.wire) + 1) .. (Len(n.wire) + len) /\ i - Len(n.wire) \in 1 .. len
      BY <1>1, <1>2, <2>2
    <3> QED BY <1>2, <3>1
  <2> QED BY <2>1, <2>2
<1>4. \A i \in DOMAIN n.wire : i \in DOMAIN m.wire /\ m.wire[i] = n.wire[i]
  BY <1>1, <1>2
<1>5. ASSUME NEW j \in 1 .. len
      PROVE  \E i \in DOMAIN m.wire : m.wire[i] = new[j]
  <2> DEFINE i == Len(n.wire) + j
  <2>1. /\ i \in (Len(n.wire) + 1) .. (Len(n.wire) + len) /\ i \in 1 .. (Len(n.wire) + len)
        /\ i - Len(n.wire) = j
    BY <1>1
  <2> HIDE DEF i
  <2>2. m.wire[i] = new[j] /\ i \in DOMAIN m.wire
    BY <1>2, <2>1
  <2> QED BY <2>2
<1>6. Sent(m) = Sent(n) \cup {new[j] : j \in 1 .. len}
  <2>1. Sent(m) \subseteq Sent(n) \cup {new[j] : j \in 1 .. len}
    <3> SUFFICES ASSUME NEW f \in Sent(m) PROVE f \in Sent(n) \cup {new[j] : j \in 1 .. len}
      OBVIOUS
    <3>1. PICK i \in DOMAIN m.wire : f = m.wire[i]
      BY DEF Sent
    <3> QED BY <1>3, <3>1
  <2>2. Sent(n) \subseteq Sent(m)
    BY <1>4 DEF Sent
  <2>3. {new[j] : j \in 1 .. len} \subseteq Sent(m)
    BY <1>5 DEF Sent
  <2> QED BY <2>1, <2>2, <2>3
<1> QED BY <1>6 DEF len

LEMMA EmitKeeps ==
    ASSUME NEW n \in Network, InOrder(n), NEW r \in n.srv, NEW q \in ServerSubs, q.sub = r.sub, q.ch = r.ch,
           NEW kinds, NEW len \in Nat \ {0}, Len(kinds) = len,
           NEW pos \in Cursors, NEW note, Onwards(r, pos),
           \A i \in 1 .. len : LET f == Frame(kinds[i], 0, r.sub, r.seq + i, pos, note)
                               IN  /\ f \in Frames /\ f.kind \in Sequenced /\ (f.kind \in Changes => Covers(f))
                                   /\ f.kind = "end" => pos # NoCursor,
           Starts(Frame(kinds[1], 0, r.sub, r.seq + 1, pos, note), r),
           kinds[len] \notin {"begin", "page"},
           \A i \in 1 .. len - 1 : Goes(Frame(kinds[i], 0, r.sub, r.seq + i, pos, note),
                                        Frame(kinds[i + 1], 0, r.sub, r.seq + (i + 1), pos, note))
    PROVE  Keeps(n, Emit(n, r, q, kinds, pos, note))
<1> DEFINE frame == [i \in 1 .. len |-> Frame(kinds[i], 0, r.sub, r.seq + i, pos, note)]
           p == [q EXCEPT !.seq = r.seq + len, !.pos = pos]
           m == Emit(n, r, q, kinds, pos, note)
<1>3. \A i \in 1 .. len : /\ frame[i] \in Frames /\ frame[i].kind \in Sequenced
                          /\ frame[i].sub = r.sub /\ frame[i].seq = r.seq + i
                          /\ frame[i].kind \in Changes => Covers(frame[i])
                          /\ frame[i].pos = pos /\ (frame[i].kind = "end" => pos # NoCursor)
  BY DEF Frame
<1>1. /\ m.srv = (n.srv \ {r}) \cup {p}
      /\ Sent(m) = Sent(n) \cup {frame[i] : i \in 1 .. len}
  <2>1. m.srv = (n.srv \ {r}) \cup {p}
    BY DEF Emit, Network
  <2>2. m.wire = n.wire \o frame
    BY DEF Emit, Network
  <2>3. frame \in [1 .. len -> Frames]
    BY <1>3
  <2> HIDE DEF frame, m, p
  <2>4. frame \in Seq(Frames) /\ Len(frame) = len
    <3>1. frame \in Seq(Frames)
      BY <2>3, SeqDef
    <3> QED BY <2>3, <3>1, LenProperties
  <2> QED BY <2>1, <2>2, <2>4, AppendSends
<1>4. r.seq \in Nat
  BY SentFields
<1>5. p \in ServerSubs /\ p.sub = r.sub /\ p.ch = r.ch /\ p.seq = r.seq + len /\ p.pos = pos
  <2>1. r.seq + len \in Nat
    BY <1>4
  <2> QED BY <2>1 DEF ServerSubs
<1>6. frame[1] = Frame(kinds[1], 0, r.sub, r.seq + 1, pos, note) /\ Starts(frame[1], r)
  BY <1>4
<1>7. LeavesAt(frame[len], p)
  <2>1. frame[len] = Frame(kinds[len], 0, r.sub, r.seq + len, pos, note)
    OBVIOUS
  <2>2. frame[len].kind = kinds[len] /\ frame[len].pos = pos
    BY <2>1 DEF Frame
  <2> HIDE DEF frame, p
  <2> QED BY <1>5, <2>2 DEF LeavesAt
<1>8. \A i \in 1 .. len - 1 : Goes(frame[i], frame[i + 1])
  <2> TAKE i \in 1 .. len - 1
  <2>1. i \in 1 .. len /\ i + 1 \in 1 .. len
    OBVIOUS
  <2> QED BY <2>1
<1> HIDE DEF frame, p, m
<1>10. Keeps(n, m)
  <2>1. Follows(n, r, p, len, pos, frame, m)
    BY <1>1, <1>3, <1>5, <1>6, <1>7, <1>8, Zenon DEF Follows
  <2> QED BY <1>5, <2>1, FollowingKeeps
<1> QED BY <1>10 DEF m

LEMMA EmitOneKeeps ==
    ASSUME NEW n \in Network, InOrder(n), NEW r \in n.srv, NEW q \in ServerSubs, q.sub = r.sub, q.ch = r.ch,
           NEW kind \in Changes \cup Remarks, NEW pos \in Cursors, NEW note \in Scopes \cup {"none"},
           kind \in {"unavailable", "available"} => note \in Scopes,
           kind \in Changes => /\ r.pos = pos - 1 /\ pos \in Positions \ {0} /\ pos <= log[r.ch]
                               /\ kind = "covered" => \A o \in OrderIds : ~Touched(o, pos),
           kind \in Remarks => pos = r.pos
    PROVE  Keeps(n, Emit(n, r, q, <<kind>>, pos, note))
<1> DEFINE f == Frame(kind, 0, r.sub, r.seq + 1, pos, note)
           kinds == <<kind>>
<1>1. kinds \in Seq(FrameKinds) /\ Len(kinds) = 1 /\ kinds[1] = kind
  BY DEF Changes, Remarks, FrameKinds, StreamFrames
<1>2. r.sub \in Nat /\ r.seq + 1 \in Nat
  BY SentFields
<1>3. kind \in FrameKinds /\ note \in Notes
  BY DEF Changes, Remarks, FrameKinds, StreamFrames, Notes
<1>4. f = [kind |-> kind, id |-> 0, sub |-> r.sub, seq |-> r.seq + 1, pos |-> pos, note |-> note]
  BY DEF Frame
<1> HIDE DEF f
<1>5. f \in Frames
  BY <1>2, <1>3, <1>4 DEF Frames, Changes, Remarks
<1>6. f.kind \in Sequenced /\ (f.kind \in Changes => Covers(f)) /\ Starts(f, r)
  BY <1>4 DEF Changes, Remarks, Sequenced, Covers, Starts
<1>7. kinds[1] \notin {"begin", "page"} /\ f.kind # "end"
  BY <1>1, <1>4 DEF Changes, Remarks
<1>10. Onwards(r, pos)
  <2>1. CASE kind \in Changes
    <3>1. pos \in Int /\ pos # 0 /\ pos \in Nat /\ r.pos = pos - 1
      <4>1. pos \in Positions \ {0} /\ r.pos = pos - 1
        BY <2>1, Zenon
      <4>2. pos \in Nat /\ pos # 0
        BY <4>1, LastUnit, Zenon
      <4>3. pos \in Int
        BY <4>2
      <4> QED BY <4>1, <4>2, <4>3, Zenon
    <3>2. r.pos <= pos /\ r.pos # NoCursor
      BY <3>1 DEF NoCursor
    <3> QED BY <2>1, <3>2 DEF Onwards
  <2>2. CASE kind \in Remarks
    BY <2>2 DEF Onwards
  <2> QED BY <2>1, <2>2
<1> HIDE DEF kinds
<1>8. f = Frame(kinds[1], 0, r.sub, r.seq + 1, pos, note)
  BY <1>1 DEF f
<1>9. Keeps(n, Emit(n, r, q, kinds, pos, note))
  <2>1. ASSUME NEW i \in 1 .. 1
        PROVE  LET g == Frame(kinds[i], 0, r.sub, r.seq + i, pos, note)
               IN  /\ g \in Frames /\ g.kind \in Sequenced /\ (g.kind \in Changes => Covers(g))
                   /\ g.kind = "end" => pos # NoCursor
    <3>1. Frame(kinds[i], 0, r.sub, r.seq + i, pos, note) = f
      BY <1>8
    <3> QED BY <1>5, <1>6, <1>7, <3>1
  <2>2. ASSUME NEW i \in 1 .. 1 - 1
        PROVE  Goes(Frame(kinds[i], 0, r.sub, r.seq + i, pos, note),
                    Frame(kinds[i + 1], 0, r.sub, r.seq + (i + 1), pos, note))
    OBVIOUS
  <2>4. 1 \in Nat \ {0}
    OBVIOUS
  <2>3. Starts(Frame(kinds[1], 0, r.sub, r.seq + 1, pos, note), r)
    BY <1>6, <1>8
  <2> QED BY <1>1, <1>7, <1>10, <2>1, <2>2, <2>3, <2>4, EmitKeeps
<1> QED BY <1>9 DEF kinds

\* A whole snapshot, or one without its pages.
LEMMA SnapshotKeeps ==
    ASSUME NEW n \in Network, InOrder(n), NEW r \in n.srv, r.pos = NoCursor, NEW at \in Positions, at = log[r.ch]
    PROVE  /\ Keeps(n, Emit(n, r, r, <<"begin", "page", "end">>, at, "none"))
           /\ Keeps(n, Emit(n, r, r, <<"begin", "end">>, at, "none"))
<1>1. /\ at \in Cursors /\ r \in ServerSubs /\ r.sub \in Nat /\ r.seq \in Nat
      /\ at # NoCursor /\ Onwards(r, at)
  <2>1. at \in Nat
    BY LastUnit
  <2>2. NoCursor <= at /\ at <= at /\ at # NoCursor
    BY <2>1 DEF NoCursor
  <2> QED BY <2>2, SentFields DEF Cursors, Network, Onwards
<1>2. \A k \in {"begin", "page", "end"}, j \in Nat : Frame(k, 0, r.sub, j, at, "none") \in Frames
  BY <1>1 DEF Frame, Frames, FrameKinds, StreamFrames, Notes
<1>3. ASSUME NEW kinds, NEW len \in {2, 3}, Len(kinds) = len, \A i \in 1 .. len : kinds[i] \in {"begin", "page", "end"},
             kinds[1] = "begin", kinds[len] = "end", len = 3 => kinds[2] = "page"
      PROVE  Keeps(n, Emit(n, r, r, kinds, at, "none"))
  <2>1. ASSUME NEW i \in 1 .. len
        PROVE  LET f == Frame(kinds[i], 0, r.sub, r.seq + i, at, "none")
               IN  /\ f \in Frames /\ f.kind \in Sequenced /\ (f.kind \in Changes => Covers(f))
                   /\ f.kind = "end" => at # NoCursor
    <3>1. r.seq + i \in Nat /\ kinds[i] \in {"begin", "page", "end"}
      BY <1>1, <1>3
    <3> QED BY <1>1, <1>2, <3>1 DEF Frame, Sequenced, Changes
  <2>2. Starts(Frame(kinds[1], 0, r.sub, r.seq + 1, at, "none"), r)
    BY <1>3 DEF Frame, Starts, Changes, Remarks
  <2>3. ASSUME NEW i \in 1 .. len - 1
        PROVE  Goes(Frame(kinds[i], 0, r.sub, r.seq + i, at, "none"),
                    Frame(kinds[i + 1], 0, r.sub, r.seq + (i + 1), at, "none"))
    <3>1. \/ kinds[i] = "begin" /\ kinds[i + 1] \in {"page", "end"}
          \/ kinds[i] = "page" /\ kinds[i + 1] = "end"
      <4>1. i = 1 \/ (i = 2 /\ len = 3)
        OBVIOUS
      <4> QED BY <1>3, <4>1
    <3> QED BY <3>1 DEF Frame, Goes, Changes, Remarks
  <2>4. len \in Nat \ {0} /\ kinds[len] \notin {"begin", "page"}
    BY <1>3
  <2> QED BY <1>1, <1>3, <2>1, <2>2, <2>3, <2>4, EmitKeeps, SMTT(90)
<1>4. Keeps(n, Emit(n, r, r, <<"begin", "page", "end">>, at, "none"))
  <2> DEFINE kinds == <<"begin", "page", "end">>
  <2>1. Len(kinds) = 3 /\ kinds[1] = "begin" /\ kinds[2] = "page" /\ kinds[3] = "end"
    OBVIOUS
  <2> HIDE DEF kinds
  <2>2. Keeps(n, Emit(n, r, r, kinds, at, "none"))
    BY <1>3, <2>1
  <2> QED BY <2>2 DEF kinds
<1>5. Keeps(n, Emit(n, r, r, <<"begin", "end">>, at, "none"))
  <2> DEFINE kinds == <<"begin", "end">>
  <2>1. Len(kinds) = 2 /\ kinds[1] = "begin" /\ kinds[2] = "end"
    OBVIOUS
  <2> HIDE DEF kinds
  <2>2. Keeps(n, Emit(n, r, r, kinds, at, "none"))
    BY <1>3, <2>1
  <2> QED BY <2>2 DEF kinds
<1> QED BY <1>4, <1>5

\* Replies belong to no sequence.
LEMMA PostKeeps ==
    ASSUME NEW n \in Network, InOrder(n), NEW kind \in Plain \ Sequenced, NEW id \in Nat, NEW sub \in Nat,
           NEW note \in Notes, NEW m, m.wire = Post(n, Reply(kind, id, sub, note)).wire, m.srv \subseteq n.srv
    PROVE  Keeps(n, m)
<1> DEFINE f == Reply(kind, id, sub, note)
<1>1. f \in Frames /\ Unnumbered(f)
  BY ReplyType DEF Reply, Frame, Unnumbered
<1>2. m.wire = Append(n.wire, f)
  BY DEF Post, Network
<1> HIDE DEF f
<1>3. Less(n, m)
  BY <1>1, <1>2, SentChanges DEF Less
<1> QED BY <1>3, LessKeeps

LEMMA ReplyKinds ==
    {"unsubscribed", "error", "refreshed", "expiring", "tokenExpiring", "subscribed"} \subseteq Plain \ Sequenced
BY DEF Plain, FrameKinds, StreamFrames, Sequenced

LEMMA ReplyNotes == {"none", "unknown", "forbidden", "cursorInvalid", "other"} \subseteq Notes
BY DEF Notes

LEMMA KeepsSelf ==
    ASSUME NEW n \in Network, InOrder(n)
    PROVE  /\ Keeps(n, n)
           /\ \A m : m.wire = n.wire /\ m.srv \subseteq n.srv => Keeps(n, m)
           /\ \A m : m.wire = <<>> /\ m.srv = {} => Keeps(n, m)
<1>1. \A m : m.wire = n.wire /\ m.srv \subseteq n.srv => Less(n, m)
  BY SentChanges DEF Less
<1>2. \A m : m.wire = <<>> /\ m.srv = {} => Less(n, m)
  BY SentChanges DEF Less
<1> QED BY <1>1, <1>2, LessKeeps

LEMMA CancelKeeps ==
    ASSUME NEW n \in Network, InOrder(n), NEW id \in Nat, NEW sub \in Nat
    PROVE  Keeps(n, Cancel(n, id, sub)) /\ Keeps(n, Renew(n, id, sub))
<1>1. Keeps(n, Cancel(n, id, sub))
  <2>1. CASE n.phase # "open"
    BY <2>1, KeepsSelf DEF Cancel
  <2>2. ASSUME n.phase = "open", NEW kind \in Plain \ Sequenced, NEW note \in Notes,
               Cancel(n, id, sub) = [Post(n, Reply(kind, id, sub, note)) EXCEPT !.srv = {r \in @ : r.sub # sub}]
        PROVE  Keeps(n, Cancel(n, id, sub))
    <3>1. /\ Cancel(n, id, sub).wire = Post(n, Reply(kind, id, sub, note)).wire
          /\ Cancel(n, id, sub).srv \subseteq n.srv
      BY <2>2 DEF Post, Network
    <3> QED BY <3>1, PostKeeps
  <2>3. CASE n.phase = "open" /\ Known(n, sub)
    <3>1. Cancel(n, id, sub) = [Post(n, Reply("unsubscribed", id, sub, "none")) EXCEPT !.srv = {r \in @ : r.sub # sub}]
      BY <2>3 DEF Cancel
    <3> QED BY <2>2, <2>3, <3>1, ReplyKinds, ReplyNotes
  <2>4. CASE n.phase = "open" /\ ~Known(n, sub)
    <3>1. Cancel(n, id, sub) = [Post(n, Reply("error", id, sub, "unknown")) EXCEPT !.srv = {r \in @ : r.sub # sub}]
      BY <2>4 DEF Cancel
    <3> QED BY <2>2, <2>4, <3>1, ReplyKinds, ReplyNotes
  <2> QED BY <2>1, <2>3, <2>4
<1>2. Keeps(n, Renew(n, id, sub))
  <2>1. CASE n.phase # "open"
    BY <2>1, KeepsSelf DEF Renew
  <2>2. ASSUME NEW kind \in Plain \ Sequenced, NEW note \in Notes,
               Renew(n, id, sub) = Post(n, Reply(kind, id, sub, note))
        PROVE  Keeps(n, Renew(n, id, sub))
    <3>1. Renew(n, id, sub).srv \subseteq n.srv
      BY <2>2 DEF Post, Network
    <3> QED BY <2>2, <3>1, PostKeeps
  <2>3. CASE n.phase = "open" /\ Known(n, sub)
    BY <2>2, <2>3, ReplyKinds, ReplyNotes DEF Renew
  <2>4. CASE n.phase = "open" /\ ~Known(n, sub)
    BY <2>2, <2>4, ReplyKinds, ReplyNotes DEF Renew
  <2> QED BY <2>1, <2>3, <2>4
<1> QED BY <1>1, <1>2

\* A new subscription begins without a frame, where the client asked or nowhere.
LEMMA AcceptSends ==
    ASSUME NEW n \in Network, InOrder(n), NEW id \in Nat, id \notin Subs(n), NEW ch \in Channels,
           NEW pos \in Cursors, NEW m, m = Accept(n, id, ch, pos)
    PROVE  /\ InOrder(m) /\ Subs(m) \subseteq Subs(n) \cup {id}
           /\ \A x, c, v : \A k \in Nat : x # id /\ Reads(n, x, k, c, v) => Reads(m, x, k, c, v)
           /\ \A c, v : pos \in {c, NoCursor} => Reads(m, id, 0, c, v)
           /\ \A x, k, h, d, top : x # id /\ k \in Nat /\ Ahead(n, x, k, h, d, top) => Ahead(m, x, k, h, d, top)
           /\ \A h, top : pos <= top /\ (pos = NoCursor \/ h <= pos) => Ahead(m, id, 0, h, ch, top)
           /\ \E r \in m.srv : /\ r.sub = id /\ r.pos = pos /\ r.seq = 0 /\ r \in ServerSubs
                               /\ \A q \in m.srv : q.sub = id => q = r
<1> DEFINE f == Reply("subscribed", id, id, "none")
           r == [sub |-> id, ch |-> ch, seq |-> 0, pos |-> pos, ready |-> FALSE, stale |-> "no"]
<1>1. f \in Frames /\ Unnumbered(f) /\ f.seq = 0
  BY ReplyType, ReplyKinds, ReplyNotes DEF Reply, Frame, Unnumbered, Sequenced
<1>2. m.wire = Append(n.wire, f) /\ m.srv = n.srv \cup {r}
  BY DEF Accept, Post, Network
<1>3. r.sub = id /\ r.pos = pos /\ r.seq = 0 /\ r \in ServerSubs /\ r.ch = ch
  BY DEF ServerSubs, Scopes
<1> HIDE DEF f, r
<1>4. Sent(m) = Sent(n) \cup {f}
  BY <1>1, <1>2, SentChanges
<1>5. /\ \A g \in Sent(n) : g.seq \in Nat /\ (g.sub = id => g.seq = 0)
      /\ \A q \in n.srv : q.sub # id /\ q.seq \in Nat
  BY SentFields DEF Subs
<1>6. InOrder(m)
  <2>1. \A g \in Sent(m) : (g.seq > 0 <=> g.kind \in Sequenced) /\ (g.kind \in Changes => Covers(g))
    BY <1>1, <1>4 DEF InOrder, Unnumbered, Changes, Sequenced
  <2>2. ASSUME NEW g \in Sent(m), NEW h \in Sent(m), g.sub = h.sub, g.seq > 0, h.seq = g.seq + 1
        PROVE  Goes(g, h)
    <3>1. g \in Sent(n) /\ h \in Sent(n)
      BY <1>1, <1>4, <1>5, <2>2
    <3> QED BY <2>2, <3>1 DEF InOrder
  <2>3. ASSUME NEW g \in Sent(m), NEW q \in m.srv, g.sub = q.sub, g.seq > 0
        PROVE  g.seq <= q.seq /\ (g.seq = q.seq => LeavesAt(g, q))
    <3>1. g \in Sent(n) /\ q \in n.srv
      BY <1>1, <1>2, <1>3, <1>4, <1>5, <2>3
    <3> QED BY <2>3, <3>1 DEF InOrder
  <2>4. \A p, q \in m.srv : p.sub = q.sub => p = q
    BY <1>2, <1>3, <1>5 DEF InOrder
  <2>5. \A g \in Sent(m) : g.kind = "end" => g.pos # NoCursor
    BY <1>1, <1>4 DEF InOrder, Unnumbered, Sequenced
  <2>6. ASSUME NEW g \in Sent(m), NEW h \in Sent(m), g.sub = h.sub, g.seq > 0, g.seq < h.seq
        PROVE  g.pos <= h.pos
    <3>1. g \in Sent(n) /\ h \in Sent(n)
      BY <1>1, <1>4, <1>5, <2>6
    <3> QED BY <2>6, <3>1 DEF InOrder, Climbs
  <2>7. ASSUME NEW g \in Sent(m), NEW q \in m.srv, g.sub = q.sub, g.seq > 0
        PROVE  g.pos <= q.pos
    <3>1. g \in Sent(n) /\ q \in n.srv
      BY <1>1, <1>2, <1>3, <1>4, <1>5, <2>7
    <3> QED BY <2>7, <3>1 DEF InOrder, Climbs
  <2> QED BY <2>1, <2>2, <2>3, <2>4, <2>5, <2>6, <2>7 DEF InOrder, Climbs
<1>7. Subs(m) \subseteq Subs(n) \cup {id}
  BY <1>1, <1>2, <1>3, <1>4 DEF Subs
<1>8. ASSUME NEW x, NEW c, NEW v, NEW k \in Nat, x # id, Reads(n, x, k, c, v)
      PROVE  Reads(m, x, k, c, v)
  <2>1. f.seq # k + 1
    BY <1>1
  <2> QED BY <1>2, <1>3, <1>4, <1>8, <2>1 DEF Reads
<1>9. ASSUME NEW c, NEW v, pos \in {c, NoCursor}
      PROVE  Reads(m, id, 0, c, v)
  <2>1. \A g \in Sent(m) : ~(g.sub = id /\ g.seq = 0 + 1)
    BY <1>1, <1>4, <1>5
  <2>2. \A q \in m.srv : q.sub = id => q = r
    BY <1>2, <1>5
  <2> QED BY <1>3, <1>9, <2>1, <2>2 DEF Reads
<1>10. r \in m.srv /\ \A q \in m.srv : q.sub = id => q = r
  BY <1>2, <1>5
<1>11. ASSUME NEW x, NEW k \in Nat, NEW h, NEW d, NEW top, x # id, Ahead(n, x, k, h, d, top)
       PROVE  Ahead(m, x, k, h, d, top)
  <2>1. ~(f.seq > k)
    BY <1>1
  <2> QED BY <1>2, <1>3, <1>4, <1>11, <2>1 DEF Ahead
<1>12. ASSUME NEW h, NEW top, pos <= top, pos = NoCursor \/ h <= pos
       PROVE  Ahead(m, id, 0, h, ch, top)
  <2>1. \A g \in Sent(m) : ~(g.sub = id /\ g.seq > 0)
    BY <1>1, <1>4, <1>5
  <2> QED BY <1>3, <1>10, <1>12, <2>1 DEF Ahead
<1> QED BY <1>3, <1>6, <1>7, <1>8, <1>9, <1>10, <1>11, <1>12

\* What the server sends by itself.
LEMMA SendKeeps ==
    ASSUME NEW n \in Network, InOrder(n), NEW r \in n.srv, NEW at \in Positions, at = log[r.ch]
    PROVE  /\ \A m \in Serving(n, r, at) : Keeps(n, m)
           /\ \A m \in Recovering(n, r) : Keeps(n, m)
           /\ \A kind : \A m \in Failing(n, r, kind, at) : Keeps(n, m)
<1>1. /\ r \in ServerSubs /\ r.sub \in Nat /\ r.pos \in Cursors /\ at \in Nat
      /\ Len(Units) \in Nat /\ Positions = 0 .. Len(Units)
  BY SentFields, LastUnit DEF Network, Positions
<1>2. r.pos # NoCursor => r.pos \in Nat
  BY <1>1 DEF Cursors
<1>3. \A m \in Serving(n, r, at) : Keeps(n, m)
  <2>1. CASE r.pos = NoCursor
    BY <2>1, SnapshotKeeps DEF Serving
  <2>2. CASE r.pos # NoCursor /\ r.pos < at
    <3> DEFINE kind == IF Units[r.pos + 1].put \cup Units[r.pos + 1].removed = {} THEN "covered" ELSE "unit"
    <3>1. /\ r.pos + 1 \in Positions \ {0} /\ r.pos = (r.pos + 1) - 1 /\ r.pos + 1 \in Cursors
          /\ r.pos + 1 <= log[r.ch]
      BY <1>1, <1>2, <2>2 DEF Cursors
    <3>2. kind \in Changes /\ (kind = "covered" => \A o \in OrderIds : ~Touched(o, r.pos + 1))
      BY DEF Changes, Touched
    <3>3. kind \notin Remarks
      BY <3>2 DEF Remarks, Changes
    <3> HIDE DEF kind
    <3>4. Keeps(n, Emit(n, r, r, <<kind>>, r.pos + 1, "none"))
      BY <1>1, <3>1, <3>2, <3>3, EmitOneKeeps DEF Changes
    <3> QED BY <2>2, <3>4 DEF Serving, kind
  <2>3. CASE r.pos # NoCursor /\ ~(r.pos < at)
    <3>1. /\ [r EXCEPT !.ready = TRUE] \in ServerSubs /\ [r EXCEPT !.ready = TRUE].sub = r.sub
          /\ [r EXCEPT !.ready = TRUE].ch = r.ch
      BY <1>1 DEF ServerSubs
    <3>2. Keeps(n, Emit(n, r, [r EXCEPT !.ready = TRUE], <<"ready">>, r.pos, "none"))
      BY <1>1, <3>1, EmitOneKeeps DEF Remarks, Changes
    <3> QED BY <2>3, <3>2 DEF Serving
  <2> QED BY <2>1, <2>2, <2>3
<1>4. \A m \in Recovering(n, r) : Keeps(n, m)
  <2>1. /\ [r EXCEPT !.stale = "no"] \in ServerSubs /\ [r EXCEPT !.stale = "no"].sub = r.sub /\ "no" \in Scopes
        /\ [r EXCEPT !.stale = "no"].ch = r.ch
    BY <1>1 DEF ServerSubs, Scopes
  <2>2. Keeps(n, Emit(n, r, [r EXCEPT !.stale = "no"], <<"available">>, r.pos, "no"))
    BY <1>1, <2>1, EmitOneKeeps DEF Remarks, Changes
  <2> QED BY <2>2 DEF Recovering
<1>5. ASSUME NEW kind, NEW m \in Failing(n, r, kind, at)
      PROVE  Keeps(n, m)
  <2>1. ASSUME NEW scope \in Scopes
        PROVE  Keeps(n, Emit(n, r, [r EXCEPT !.stale = scope], <<"unavailable">>, r.pos, scope))
    <3>1. /\ [r EXCEPT !.stale = scope] \in ServerSubs /\ [r EXCEPT !.stale = scope].sub = r.sub
          /\ [r EXCEPT !.stale = scope].ch = r.ch
      BY <1>1 DEF ServerSubs
    <3> QED BY <1>1, <3>1, EmitOneKeeps DEF Remarks, Changes
  <2>2. ASSUME NEW k \in {"expiring", "unsubscribed", "error"}, NEW note \in {"none", "unknown", "other"}
        PROVE  /\ Keeps(n, Post(n, Reply(k, 0, r.sub, note)))
               /\ Keeps(n, [Post(n, Reply(k, 0, r.sub, note)) EXCEPT !.srv = @ \ {r}])
    <3>1. k \in Plain \ Sequenced /\ note \in Notes
      BY ReplyKinds, ReplyNotes
    <3> DEFINE p == Post(n, Reply(k, 0, r.sub, note))
    <3>2. p.srv \subseteq n.srv /\ [p EXCEPT !.srv = @ \ {r}].wire = p.wire /\ [p EXCEPT !.srv = @ \ {r}].srv \subseteq n.srv
      BY DEF Post, Network
    <3>3. \A x : x.wire = p.wire /\ x.srv \subseteq n.srv => Keeps(n, x)
      BY <1>1, <3>1, PostKeeps
    <3> HIDE DEF p
    <3>4. Keeps(n, p) /\ Keeps(n, [p EXCEPT !.srv = @ \ {r}])
      BY <3>2, <3>3
    <3> QED BY <3>4 DEF p
  <2>3. CASE kind = "shortSnapshot"
    <3>1. r.pos = NoCursor /\ m = Emit(n, r, r, <<"begin", "end">>, at, "none")
      BY <1>5, <2>3 DEF Failing
    <3> QED BY <3>1, SnapshotKeeps
  <2>4. CASE kind = "unavailable"
    BY <1>5, <2>1, <2>4 DEF Failing
  <2>5. CASE kind = "expiring"
    BY <1>5, <2>2, <2>5 DEF Failing
  <2>6. CASE kind \in {"ended", "forgotten"}
    BY <1>5, <2>2, <2>6 DEF Failing
  <2>7. CASE kind = "streamError"
    BY <1>5, <2>2, <2>7 DEF Failing
  <2>8. CASE kind \notin {"shortSnapshot", "unavailable", "expiring", "ended", "forgotten", "streamError"}
    BY <1>5, <2>8 DEF Failing
  <2> QED BY <2>3, <2>4, <2>5, <2>6, <2>7, <2>8
<1> QED BY <1>3, <1>4, <1>5

\* A frame is read, or one is cut out of its sequence.
LEMMA ReadKeeps ==
    ASSUME NEW n \in Network, InOrder(n), n.wire # <<>>
    PROVE  /\ Head(n.wire) \in Sent(n)
           /\ \A m : m.wire = Tail(n.wire) /\ m.srv \subseteq n.srv => Keeps(n, m) /\ Sent(m) \subseteq Sent(n)
<1>1. n.wire \in Seq(Frames) /\ Len(n.wire) \in Nat /\ DOMAIN n.wire = 1 .. Len(n.wire)
  BY NetFields
<1>2. 1 \in DOMAIN n.wire /\ Head(n.wire) = n.wire[1]
  BY <1>1, EmptySeq, LenProperties
<1>3. ASSUME NEW m, m.wire = Tail(n.wire), m.srv \subseteq n.srv
      PROVE  Keeps(n, m) /\ Sent(m) \subseteq Sent(n)
  <2>1. /\ Len(m.wire) = Len(n.wire) - 1 /\ DOMAIN m.wire = 1 .. (Len(n.wire) - 1)
        /\ \A i \in 1 .. (Len(n.wire) - 1) : m.wire[i] = n.wire[i + 1]
    BY <1>1, <1>3, HeadTailProperties, LenProperties
  <2>2. \A i \in 1 .. (Len(n.wire) - 1) : i + 1 \in DOMAIN n.wire
    BY <1>1
  <2>3. Sent(m) \subseteq Sent(n)
    BY <2>1, <2>2 DEF Sent
  <2>4. Less(n, m)
    BY <1>3, <2>3 DEF Less
  <2> QED BY <2>3, <2>4, LessKeeps
<1> QED BY <1>2, <1>3 DEF Sent

LEMMA CutKeeps ==
    ASSUME NEW n \in Network, InOrder(n), NEW i \in DOMAIN n.wire, NEW m, m.srv = n.srv,
           m.wire = SubSeq(n.wire, 1, i - 1) \o SubSeq(n.wire, i + 1, Len(n.wire))
    PROVE  Keeps(n, m)
<1>1. /\ Len(n.wire) \in Nat /\ DOMAIN n.wire = 1 .. Len(n.wire) /\ DOMAIN m.wire = 1 .. (Len(n.wire) - 1)
      /\ \A k \in 1 .. (Len(n.wire) - 1) : m.wire[k] = n.wire[IF k < i THEN k ELSE k + 1]
  BY CutFrame
<1>2. \A k \in DOMAIN m.wire : m.wire[k] \in Sent(n)
  <2> TAKE k \in DOMAIN m.wire
  <2>1. (IF k < i THEN k ELSE k + 1) \in DOMAIN n.wire
    BY <1>1
  <2> QED BY <1>1, <2>1 DEF Sent
<1>3. Less(n, m)
  BY <1>2 DEF Less, Sent
<1> QED BY <1>3, LessKeeps

-----------------------------------------------------------------------------
(* What the units do to the account's view.                                *)

LEMMA ViewSteps ==
    ASSUME NEW n \in Positions \ {0}
    PROVE  /\ n - 1 \in Positions
           /\ Apply(ViewAt(n - 1), n) = ViewAt(n)
           /\ (\A o \in OrderIds : ~Touched(o, n)) => ViewAt(n) = ViewAt(n - 1)
<1>1. n \in Nat /\ n # 0 /\ n - 1 \in Positions /\ n \in 1 .. n
  BY LastUnit DEF Positions
<1> DEFINE Put(o, m) == o \in Units[m].put \ Units[m].removed
<1>2. ASSUME NEW o \in OrderIds, ~Touched(o, n)
      PROVE  ViewAt(n)[o] = ViewAt(n - 1)[o]
  <2>1. \A m \in 1 .. n : Put(o, m) => m \in 1 .. (n - 1)
    <3>1. ~Put(o, n)
      BY <1>2 DEF Touched
    <3>2. \A m \in 1 .. n : m = n \/ m \in 1 .. (n - 1)
      BY <1>1
    <3> QED BY <3>1, <3>2
  <2>2. ASSUME NEW m \in 1 .. (n - 1)
        PROVE  (\A k \in (m + 1) .. n : ~Touched(o, k)) <=> (\A k \in (m + 1) .. (n - 1) : ~Touched(o, k))
    <3>1. \A k \in (m + 1) .. n : k = n \/ k \in (m + 1) .. (n - 1)
      BY <1>1
    <3>2. \A k \in (m + 1) .. (n - 1) : k \in (m + 1) .. n
      BY <1>1
    <3> QED BY <1>2, <3>1, <3>2
  <2>3. \A m \in 1 .. (n - 1) : m \in 1 .. n
    BY <1>1
  <2>4. /\ ViewAt(n)[o] = {m \in 1 .. n : Put(o, m) /\ \A k \in (m + 1) .. n : ~Touched(o, k)}
        /\ ViewAt(n - 1)[o] = {m \in 1 .. (n - 1) : Put(o, m) /\ \A k \in (m + 1) .. (n - 1) : ~Touched(o, k)}
    BY DEF ViewAt
  <2> HIDE DEF Put
  <2> QED BY <2>1, <2>2, <2>3, <2>4
<1>3. ASSUME NEW o \in OrderIds, Touched(o, n)
      PROVE  ViewAt(n)[o] = IF Put(o, n) THEN {n} ELSE {}
  <2>1. ASSUME NEW m \in 1 .. n, \A k \in (m + 1) .. n : ~Touched(o, k)
        PROVE  m = n
    <3>1. m # n => n \in (m + 1) .. n
      BY <1>1
    <3> QED BY <1>3, <2>1, <3>1
  <2>2. \A k \in (n + 1) .. n : FALSE
    BY <1>1
  <2>3. ViewAt(n)[o] = {m \in 1 .. n : Put(o, m) /\ \A k \in (m + 1) .. n : ~Touched(o, k)}
    BY DEF ViewAt
  <2> HIDE DEF Put
  <2> QED BY <1>1, <2>1, <2>2, <2>3
<1>4. ASSUME NEW o \in OrderIds
      PROVE  Apply(ViewAt(n - 1), n)[o] = ViewAt(n)[o]
  <2>1. Apply(ViewAt(n - 1), n)[o] = IF o \in Units[n].removed THEN {}
                                     ELSE IF o \in Units[n].put THEN {n} ELSE ViewAt(n - 1)[o]
    BY DEF Apply
  <2>2. CASE Touched(o, n)
    BY <1>3, <2>1, <2>2 DEF Touched
  <2>3. CASE ~Touched(o, n)
    BY <1>2, <2>1, <2>3 DEF Touched
  <2> QED BY <2>2, <2>3
<1>5. /\ \A m : ViewAt(m) = [o \in OrderIds |-> ViewAt(m)[o]]
      /\ \A v : Apply(v, n) = [o \in OrderIds |-> Apply(v, n)[o]]
  BY DEF ViewAt, Apply
<1>6. Apply(ViewAt(n - 1), n) = ViewAt(n)
  BY <1>4, <1>5
<1>7. ASSUME \A o \in OrderIds : ~Touched(o, n)
      PROVE  ViewAt(n) = ViewAt(n - 1)
  BY <1>2, <1>5, <1>7
<1> QED BY <1>1, <1>6, <1>7

\* A snapshot without orders is complete only if there are none.
LEMMA EmptyCount ==
    ASSUME NEW n \in Cursors, Count(EmptyView) = Count(ViewAt(n))
    PROVE  EmptyView = ViewAt(n)
<1> DEFINE held == {o \in OrderIds : ViewAt(n)[o] # {}}
<1>1. {o \in OrderIds : EmptyView[o] # {}} = {}
  BY DEF EmptyView
<1>2. Cardinality(held) = 0
  BY <1>1, FS_EmptySet DEF Count
<1>3. IsFiniteSet(held)
  BY OrdersAssumption, FS_Subset
<1>4. held = {}
  BY <1>2, <1>3, FS_EmptySet
<1>5. \A o \in OrderIds : ViewAt(n)[o] = {}
  BY <1>4
<1>6. ViewAt(n) = [o \in OrderIds |-> ViewAt(n)[o]]
  BY DEF ViewAt
<1> QED BY <1>5, <1>6 DEF EmptyView

-----------------------------------------------------------------------------
(* The client reads in step with the server.                               *)

\* A name that is in use was given out, and no token is being fetched for it.
FreshInv == \A x \in Subs(net) : x <= req.seq /\ \A f \in fetches : f.kind = "subscribe" => f.id # x

ReadersInv ==
    /\ \A b \in req.bySub : Reads(net, b.sub, stream[b.s].seq, stream[b.s].cursor, stream[b.s].staged)
    /\ \A p \in req.pending : p.kind = "subscribe" => Reads(net, p.id, 0, stream[p.s].cursor, NoView)

HeldInv == \A s \in Streams : stream[s].cursor # NoCursor => stream[s].orders = ViewAt(stream[s].cursor)

InStep == InOrder(net) /\ FreshInv /\ ReadersInv /\ HeldInv

\* A stream keeps its view, and its place in the sequence as long as it is subscribed.
GoesOn(s) == /\ stream'[s].cursor = stream[s].cursor /\ stream'[s].orders = stream[s].orders
             /\ stream'[s].sub # 0 => /\ stream'[s].sub = stream[s].sub /\ stream'[s].seq = stream[s].seq
                                      /\ stream'[s].staged = stream[s].staged

\* A stream will ask for a new snapshot.
Restarts(s) == /\ stream'[s].cursor = NoCursor /\ stream'[s].sub = 0 /\ stream'[s].orders = stream[s].orders
               /\ \A p \in req'.pending : p \notin Asking(s)

Carries == Keeps(net, net') /\ \A s \in Streams : GoesOn(s) \/ Restarts(s)

\* The request a token was fetched for is accepted.
Accepted(f) ==
    /\ f.kind = "subscribe" /\ fetches' = fetches \ {f} /\ UNCHANGED <<stream, req>>
    /\ Request(f.id, "subscribe", f.s) \in req.pending
    /\ InOrder(net') /\ Subs(net') \subseteq Subs(net) \cup {f.id}
    /\ \A x, c, v : \A k \in Nat : x # f.id /\ Reads(net, x, k, c, v) => Reads(net', x, k, c, v)
    /\ \A v : Reads(net', f.id, 0, stream[f.s].cursor, v)
    /\ \A x : \A k \in Nat, h \in Cursors, ch \in Channels :
          x # f.id /\ h <= log[ch] /\ Ahead(net, x, k, h, ch, log[ch]) => Ahead(net', x, k, h, ch, log[ch])
    /\ \A h \in Cursors :
          h <= log[stream[f.s].channel] /\ stream[f.s].cursor \in {h, NoCursor}
          => Ahead(net', f.id, 0, h, stream[f.s].channel, log[stream[f.s].channel])

\* Stream s has the subscription it asked for in request id.
Subscribes(id, s) ==
    /\ Request(id, "subscribe", s) \in req.pending /\ Keeps(net, net') /\ UNCHANGED fetches
    /\ req'.seq = req.seq /\ req'.pending \subseteq req.pending
    /\ req'.bySub = req.bySub \cup {[sub |-> id, s |-> s]}
    /\ \A t \in Streams \ {s} : stream'[t] = stream[t]
    /\ stream'[s].cursor = stream[s].cursor /\ stream'[s].orders = stream[s].orders /\ stream'[s].seq = 0
    /\ stream'[s].channel = stream[s].channel

\* What is true of a stream that has read frame f, and had the fields x before.
After(f, x, r) ==
               /\ r.seq = f.seq /\ r.channel = x.channel
               /\ \/ r.cursor = x.cursor /\ r.orders = x.orders
                  \/ r.cursor = f.pos /\ f.pos # NoCursor
               /\ f.kind \notin {"begin", "page"} /\ f.pos # NoCursor => r.cursor = f.pos
               /\ f.kind = "begin" => r.staged = EmptyView
               /\ f.kind = "page"  => r.staged = ViewAt(f.pos)
               /\ r.cursor # NoCursor => r.orders = ViewAt(r.cursor)

\* A subscribed stream has read the next frame of its sequence.
Advanced(b, f, r) ==
    /\ UNCHANGED <<req, fetches>> /\ f.sub = b.sub /\ f.seq = stream[b.s].seq + 1
    /\ Keeps(net, net') /\ Sent(net') \subseteq Sent(net) /\ net'.srv = net.srv
    /\ stream' = [stream EXCEPT ![b.s] = r] /\ After(f, stream[b.s], r)

\* What a step does to the readers.
Proceeds == \/ Carries
            \/ \E f \in fetches : Accepted(f)
            \/ \E id, s : Subscribes(id, s)
            \/ \E r : \E b \in req.bySub, f \in Sent(net) : Advanced(b, f, r)

LEMMA NewReads ==
    ASSUME NEW n \in Network, NEW x, x \notin Subs(n), NEW c, NEW v
    PROVE  Reads(n, x, 0, c, v)
<1>1. \A f \in Sent(n) : f.sub = x => f.seq = 0
  BY SentFields DEF Subs
<1>2. \A r \in n.srv : r.sub # x
  BY DEF Subs
<1> QED BY <1>1, <1>2 DEF Reads

LEMMA SubNumbers == \A n \in Network : \A x \in Subs(n) : x \in Nat
BY SentFields DEF Subs

LEMMA TablesMove ==
    ASSUME TypeOK, TypeOK', RequestsInv, Outcome \/ SocketOpens
    PROVE  /\ req.seq \in Nat /\ req'.seq \in Nat /\ req.seq <= req'.seq
           /\ \A p \in req'.pending : p.kind = "subscribe" => p \in req.pending \/ p.id > req.seq
           /\ \A f \in fetches' : f.kind = "subscribe" => f \in fetches \/ f.id > req.seq
           /\ req'.bySub \subseteq req.bySub \/ \E s \in Streams, id \in Nat : Confirms(s, id)
<1>1. req.seq \in Nat /\ req'.seq \in Nat
  BY DEF TypeOK, Tables
<1>2. CASE Quiet
  BY <1>1, <1>2 DEF Quiet, Fewer, Harmless
<1>3. CASE Ends
  BY <1>1, <1>3 DEF Ends
<1>4. CASE Dials
  BY <1>1, <1>4 DEF Dials
<1>5. CASE Connects
  BY <1>1, <1>5 DEF Connects
<1>6. CASE \E s \in Streams : Leaves(s) \/ Waits(s)
  BY <1>1, <1>6 DEF Leaves, Waits, Fewer, NamedBut
<1>7. ASSUME NEW s \in Streams, Asks(s)
      PROVE  /\ req.seq < req'.seq /\ req'.bySub \subseteq req.bySub
             /\ \A p \in req'.pending : p \in req.pending \/ p.id = req'.seq
             /\ \A f \in fetches' : f \in fetches \/ f.id = req'.seq
  BY <1>7 DEF Asks, NamedBut, Request, Fetch
<1>8. ASSUME NEW s \in Streams, Refreshes(s)
      PROVE  /\ req'.seq = req.seq + 1 /\ req'.bySub \subseteq req.bySub /\ fetches' \subseteq fetches
             /\ \A p \in req'.pending : p \in req.pending \/ p.kind = "refresh"
  BY <1>8 DEF Refreshes, Request
<1>9. CASE \E s \in Streams, id \in Nat : Confirms(s, id)
  BY <1>1, <1>9 DEF Confirms
<1>10. CASE \E f \in fetches : Accepts(f) \/ Fails(f)
  BY <1>1, <1>10 DEF Accepts, Fails
<1>11. CASE SocketOpens
  <2>1. Cardinality(Current) \in Nat
    <3>1. IsFiniteSet(Current)
      BY CurrentStreams, FiniteAssumption, FS_Subset
    <3> QED BY <3>1, FS_CardinalityType
  <2>2. PICK rank \in [Current -> 1 .. Cardinality(Current)] :
          /\ req' = [req EXCEPT !.seq = @ + Cardinality(Current), !.pending = @ \cup
                        {Request(req.seq + rank[s], "subscribe", s) : s \in Current}]
          /\ fetches' = fetches \cup
                        {Fetch("subscribe", conn.ws, 0, s, req.seq + rank[s]) : s \in Current}
    BY <1>11 DEF SocketOpens
  <2>3. \A s \in Current : rank[s] \in Nat /\ rank[s] > 0
    BY <2>1
  <2>4. req'.seq = req.seq + Cardinality(Current) /\ req'.bySub = req.bySub
    BY <2>2 DEF TypeOK, Tables
  <2>5. \A p \in req'.pending : p \in req.pending \/ \E s \in Current : p = Request(req.seq + rank[s], "subscribe", s)
    BY <2>2 DEF TypeOK, Tables
  <2>6. \A s \in Current : req.seq + rank[s] > req.seq
    BY <1>1, <2>3
  <2>7. \A p \in req'.pending : p \in req.pending \/ p.id > req.seq
    BY <2>5, <2>6 DEF Request
  <2>8. \A f \in fetches' : f \in fetches \/ f.id > req.seq
    BY <2>2, <2>6 DEF Fetch
  <2> QED BY <1>1, <2>1, <2>4, <2>7, <2>8
<1> QED BY <1>1, <1>2, <1>3, <1>4, <1>5, <1>6, <1>7, <1>8, <1>9, <1>10, <1>11 DEF Outcome

\* The names in use are those that were, but for requests the server has not seen.
LEMMA CarriesNames ==
    ASSUME TypeOK, TypeOK', RequestsInv, RequestsInv', Outcome \/ SocketOpens, InStep, Carries
    PROVE  /\ FreshInv'
           /\ \A b \in req'.bySub : b \in req.bySub /\ b.s \in Streams /\ GoesOn(b.s)
                                   /\ stream'[b.s].sub = b.sub /\ b.sub # 0
           /\ \A p \in req'.pending : p.kind = "subscribe" =>
                 /\ p.s \in Streams
                 /\ (p \in req.pending /\ GoesOn(p.s)) \/ p.id \notin Subs(net')
<1>1. net \in Network /\ net' \in Network /\ InOrder(net') /\ Subs(net') \subseteq Subs(net)
  BY DEF TypeOK, Carries, Keeps
<1>2. /\ req.seq \in Nat /\ req'.seq \in Nat /\ req.seq <= req'.seq
      /\ \A p \in req'.pending : p.kind = "subscribe" => p \in req.pending \/ p.id > req.seq
      /\ \A f \in fetches' : f.kind = "subscribe" => f \in fetches \/ f.id > req.seq
  BY TablesMove
<1>3. req'.bySub \subseteq req.bySub
  <2> SUFFICES ASSUME NEW s \in Streams, NEW id \in Nat, Confirms(s, id) PROVE FALSE
    BY TablesMove
  <2>1. Request(id, "subscribe", s) \in req.pending /\ Request(id, "subscribe", s) \in Asking(s)
    BY DEF Confirms, Asking, Request
  <2>2. IsCurrent(s) /\ stream[s].sub = 0
    BY <2>1 DEF RequestsInv, Settled, Tidy, Asking
  <2>3. id # 0 /\ stream'[s].sub = id
    BY <2>1 DEF RequestsInv, IdsInv, Confirms, Request
  <2> QED BY <2>2, <2>3 DEF Carries, GoesOn, Restarts
<1>4. FreshInv'
  <2> SUFFICES ASSUME NEW x \in Subs(net')
               PROVE  x <= req'.seq /\ \A f \in fetches' : f.kind = "subscribe" => f.id # x
    BY DEF FreshInv
  <2>1. x \in Nat /\ x <= req.seq /\ \A f \in fetches : f.kind = "subscribe" => f.id # x
    BY <1>1, SubNumbers DEF InStep, FreshInv
  <2>2. \A f \in fetches' : f.id \in Nat
    BY FetchFields DEF TypeOK, Fetches
  <2> QED BY <1>2, <2>1, <2>2
<1>5. \A s \in Streams : GoesOn(s) \/ Restarts(s)
  BY DEF Carries
<1>6. ASSUME NEW b \in req'.bySub
      PROVE  b \in req.bySub /\ b.s \in Streams /\ GoesOn(b.s) /\ stream'[b.s].sub = b.sub /\ b.sub # 0
  <2>1. b.s \in Streams
    BY DEF TypeOK, Tables
  <2>2. Settled(b.s)' /\ IdsInv'
    BY <2>1 DEF RequestsInv
  <2>3. stream'[b.s].sub = b.sub /\ b.sub # 0
    BY <2>2 DEF Settled, IdsInv
  <2> QED BY <1>3, <1>5, <2>1, <2>3 DEF Restarts
<1>7. ASSUME NEW p \in req'.pending, p.kind = "subscribe"
      PROVE  /\ p.s \in Streams
             /\ (p \in req.pending /\ GoesOn(p.s)) \/ p.id \notin Subs(net')
  <2>1. p.s \in Streams /\ p.id \in Nat
    BY DEF TypeOK, Tables, Requests
  <2>2. CASE p \in req.pending
    <3>1. p \in Asking(p.s)
      BY <1>7, <2>2 DEF Asking
    <3> QED BY <1>5, <2>1, <2>2, <3>1 DEF Restarts
  <2>3. CASE p.id > req.seq
    <3>1. p.id \notin Subs(net')
      BY <1>1, <1>2, <2>1, <2>3, SubNumbers DEF InStep, FreshInv
    <3> QED BY <2>1, <3>1
  <2> QED BY <1>2, <1>7, <2>2, <2>3
<1> QED BY <1>4, <1>6, <1>7

LEMMA CarriesInStep ==
    ASSUME TypeOK, TypeOK', RequestsInv, RequestsInv', Outcome \/ SocketOpens, InStep, Carries
    PROVE  InStep'
<1>1. /\ FreshInv'
      /\ \A b \in req'.bySub : b \in req.bySub /\ b.s \in Streams /\ GoesOn(b.s)
                              /\ stream'[b.s].sub = b.sub /\ b.sub # 0
      /\ \A p \in req'.pending : p.kind = "subscribe" =>
            /\ p.s \in Streams
            /\ (p \in req.pending /\ GoesOn(p.s)) \/ p.id \notin Subs(net')
  BY CarriesNames
<1>2. /\ net' \in Network /\ InOrder(net')
      /\ \A x, c, v : \A k \in Nat : Reads(net, x, k, c, v) => Reads(net', x, k, c, v)
  BY DEF TypeOK, Carries, Keeps
<1>3. ASSUME NEW b \in req'.bySub
      PROVE  Reads(net', b.sub, stream'[b.s].seq, stream'[b.s].cursor, stream'[b.s].staged)
  <2>1. Reads(net, b.sub, stream[b.s].seq, stream[b.s].cursor, stream[b.s].staged) /\ stream[b.s].seq \in Nat
    BY <1>1 DEF InStep, ReadersInv, TypeOK, StreamObject
  <2> QED BY <1>1, <1>2, <2>1 DEF GoesOn
<1>4. ASSUME NEW p \in req'.pending, p.kind = "subscribe"
      PROVE  Reads(net', p.id, 0, stream'[p.s].cursor, NoView)
  <2>1. CASE p \in req.pending /\ GoesOn(p.s)
    <3>1. Reads(net, p.id, 0, stream[p.s].cursor, NoView)
      BY <1>4, <2>1 DEF InStep, ReadersInv
    <3> QED BY <1>2, <2>1, <3>1 DEF GoesOn
  <2> QED BY <1>1, <1>2, <1>4, <2>1, NewReads
<1>5. HeldInv'
  BY DEF InStep, HeldInv, Carries, GoesOn, Restarts
<1> QED BY <1>1, <1>2, <1>3, <1>4, <1>5 DEF InStep, ReadersInv

LEMMA AcceptInStep ==
    ASSUME TypeOK, TypeOK', RequestsInv, InStep, NEW f \in fetches, Accepted(f)
    PROVE  InStep'
<1> DEFINE p == Request(f.id, "subscribe", f.s)
<1>1. /\ p \in req.pending /\ p.id = f.id /\ p.s = f.s
      /\ f.kind = "subscribe" /\ fetches' = fetches \ {f} /\ UNCHANGED <<stream, req>>
      /\ InOrder(net') /\ Subs(net') \subseteq Subs(net) \cup {f.id}
      /\ \A x, c, v : \A k \in Nat : x # f.id /\ Reads(net, x, k, c, v) => Reads(net', x, k, c, v)
      /\ \A v : Reads(net', f.id, 0, stream[f.s].cursor, v)
  BY DEF Accepted, Request
<1>2. /\ f.id <= req.seq /\ \A g \in fetches : g.kind = "subscribe" /\ g.id = f.id => f = g
      /\ \A q \in req.pending : q.id = f.id => q = p
      /\ \A b \in req.bySub : b.sub # f.id
  BY <1>1 DEF RequestsInv, IdsInv
<1> HIDE DEF p
<1>3. FreshInv'
  BY <1>1, <1>2 DEF InStep, FreshInv
<1>4. ASSUME NEW b \in req.bySub
      PROVE  Reads(net', b.sub, stream[b.s].seq, stream[b.s].cursor, stream[b.s].staged)
  <2>1. stream[b.s].seq \in Nat
    BY DEF TypeOK, Tables, StreamObject
  <2> QED BY <1>1, <1>2, <2>1 DEF InStep, ReadersInv
<1>5. ASSUME NEW q \in req.pending, q.kind = "subscribe"
      PROVE  Reads(net', q.id, 0, stream[q.s].cursor, NoView)
  <2>1. CASE q.id = f.id
    BY <1>1, <1>2, <2>1
  <2>2. CASE q.id # f.id
    BY <1>1, <1>5, <2>2 DEF InStep, ReadersInv
  <2> QED BY <2>1, <2>2
<1> QED BY <1>1, <1>3, <1>4, <1>5 DEF InStep, ReadersInv, HeldInv

\* A subscribed stream reads the next frame of its sequence.
LEMMA AdvanceInStep ==
    ASSUME TypeOK, TypeOK', RequestsInv, InStep, NEW b \in req.bySub, NEW f \in Sent(net), NEW r, Advanced(b, f, r)
    PROVE  InStep'
<1> SUFFICES ASSUME NEW s, s = b.s, UNCHANGED <<req, fetches>>, f.sub = b.sub, f.seq = stream[s].seq + 1,
                    Keeps(net, net'), Sent(net') \subseteq Sent(net), net'.srv = net.srv,
                    stream' = [stream EXCEPT ![s] = r], NEW x, After(f, x, r)
             PROVE  InStep'
  BY DEF Advanced
<1>1. net \in Network /\ net' \in Network /\ InOrder(net') /\ Subs(net') \subseteq Subs(net)
  BY DEF TypeOK, Keeps
<1>2. /\ s \in Streams /\ IsCurrent(s) /\ stream[s].sub = b.sub /\ b.sub # 0 /\ Asking(s) = {}
      /\ stream[s].seq \in Nat /\ f.seq \in Nat /\ f.seq > 0 /\ f.pos \in Cursors
  <2>1. s \in Streams
    BY DEF TypeOK, Tables
  <2>2. stream[s].seq \in Nat
    BY <2>1 DEF TypeOK, StreamObject
  <2> QED BY <1>1, <2>1, <2>2, OwnNames, SentFields
<1>3. stream'[s] = r /\ \A t \in Streams : t # s => stream'[t] = stream[t]
  BY <1>2 DEF TypeOK
<1>4. FreshInv'
  BY <1>1 DEF InStep, FreshInv
<1>5. Reads(net', b.sub, f.seq, r.cursor, r.staged)
  <2>1. ASSUME NEW g \in Sent(net'), g.sub = b.sub, g.seq = f.seq + 1
        PROVE  Fits(g, r.cursor, r.staged)
    <3>1. Goes(f, g) /\ (g.kind \in Changes => Covers(g))
      BY <1>1, <1>2, <2>1 DEF InStep, InOrder
    <3>2. CASE g.kind \in Changes
      <4>1. f.kind \notin {"begin", "page"} /\ f.pos = g.pos - 1 /\ g.pos \in Nat /\ g.pos # 0
        BY <3>1, <3>2, LastUnit DEF Goes, Covers
      <4>2. f.pos # NoCursor
        BY <4>1 DEF NoCursor
      <4> QED BY <3>2, <4>1, <4>2 DEF After, Fits, Changes, Remarks
    <3>3. CASE g.kind \in Remarks
      BY <3>1, <3>3 DEF After, Fits, Goes, Changes, Remarks
    <3>4. CASE g.kind \in {"page", "end"}
      BY <3>1, <3>4 DEF After, Fits, Goes, Changes, Remarks
    <3>5. CASE g.kind \notin Changes \cup Remarks \cup {"page", "end"}
      BY <3>5 DEF Fits
    <3> QED BY <3>2, <3>3, <3>4, <3>5
  <2>2. ASSUME NEW q \in net'.srv, q.sub = b.sub
        PROVE  f.seq <= q.seq /\ (q.seq = f.seq /\ q.pos # NoCursor => r.cursor = q.pos)
    <3>1. f.seq <= q.seq /\ (f.seq = q.seq => LeavesAt(f, q))
      BY <1>2, <2>2 DEF InStep, InOrder
    <3> QED BY <3>1 DEF LeavesAt, After
  <2> QED BY <2>1, <2>2 DEF Reads
<1>6. ASSUME NEW c \in req.bySub
      PROVE  Reads(net', c.sub, stream'[c.s].seq, stream'[c.s].cursor, stream'[c.s].staged)
  <2>1. c.s \in Streams /\ stream[c.s].seq \in Nat
    BY DEF TypeOK, Tables, StreamObject
  <2>2. CASE c.s = s
    <3>1. c.sub = b.sub
      BY <1>2, <2>1, <2>2, OwnNames
    <3> QED BY <1>3, <1>5, <2>2, <3>1 DEF After
  <2>3. CASE c.s # s
    BY <1>3, <2>1, <2>3 DEF InStep, ReadersInv, Keeps
  <2> QED BY <2>2, <2>3
<1>7. ASSUME NEW p \in req.pending, p.kind = "subscribe"
      PROVE  Reads(net', p.id, 0, stream'[p.s].cursor, NoView)
  <2>1. p.s \in Streams /\ p.s # s
    BY <1>2, <1>7 DEF TypeOK, Tables, Requests, Asking
  <2> QED BY <1>3, <1>7, <2>1 DEF InStep, ReadersInv, Keeps
<1>8. HeldInv'
  BY <1>3 DEF InStep, HeldInv, After
<1> QED BY <1>1, <1>4, <1>6, <1>7, <1>8 DEF InStep, ReadersInv

\* A stream's request is confirmed: it reads the subscription from its beginning.
LEMMA ConfirmInStep ==
    ASSUME TypeOK, TypeOK', RequestsInv, InStep, NEW id, NEW s, Subscribes(id, s)
    PROVE  InStep'
<1> SUFFICES ASSUME Request(id, "subscribe", s) \in req.pending, Keeps(net, net'), UNCHANGED fetches,
                    req'.seq = req.seq, req'.pending \subseteq req.pending,
                    req'.bySub = req.bySub \cup {[sub |-> id, s |-> s]},
                    \A t \in Streams \ {s} : stream'[t] = stream[t],
                    stream'[s].cursor = stream[s].cursor, stream'[s].orders = stream[s].orders, stream'[s].seq = 0
             PROVE  InStep'
  BY DEF Subscribes
<1> DEFINE p == Request(id, "subscribe", s)
<1>1. net \in Network /\ net' \in Network /\ InOrder(net') /\ Subs(net') \subseteq Subs(net)
  BY DEF TypeOK, Keeps
<1>2. p \in req.pending /\ p.id = id /\ p.s = s /\ p.kind = "subscribe" /\ s \in Streams
  BY DEF Request, TypeOK, Tables, Requests
<1>3. IsCurrent(s) /\ stream[s].sub = 0
  BY <1>2 DEF RequestsInv, Settled, Tidy, Asking
<1> HIDE DEF p
<1>4. FreshInv'
  BY <1>1 DEF InStep, FreshInv
<1>5. ASSUME NEW v
      PROVE  Reads(net', id, 0, stream[s].cursor, v)
  <2>1. Reads(net', id, 0, stream[s].cursor, NoView)
    BY <1>2 DEF InStep, ReadersInv, Keeps
  <2>2. ASSUME NEW g \in Sent(net'), g.sub = id, g.seq = 0 + 1
        PROVE  Fits(g, stream[s].cursor, v)
    <3>1. Fits(g, stream[s].cursor, NoView) /\ g.pos \in Cursors
      BY <1>1, <2>1, <2>2, SentFields DEF Reads
    <3>2. NoView # EmptyView /\ NoView # ViewAt(g.pos)
      BY <3>1, ViewTypes
    <3> QED BY <3>1, <3>2 DEF Fits
  <2> QED BY <2>1, <2>2 DEF Reads
<1>6. ASSUME NEW c \in req'.bySub
      PROVE  Reads(net', c.sub, stream'[c.s].seq, stream'[c.s].cursor, stream'[c.s].staged)
  <2>1. CASE c = [sub |-> id, s |-> s]
    BY <1>5, <2>1
  <2>2. CASE c \in req.bySub
    <3>1. c.s \in Streams
      BY <2>2 DEF TypeOK, Tables
    <3>2. stream[c.s].seq \in Nat
      BY <3>1 DEF TypeOK, StreamObject
    <3>3. c.sub = stream[c.s].sub /\ c.sub # 0
      BY <2>2, <3>1, OwnNames
    <3>4. c.s # s
      BY <1>3, <3>3
    <3> QED BY <2>2, <3>1, <3>2, <3>4 DEF InStep, ReadersInv, Keeps
  <2> QED BY <2>1, <2>2
<1>7. ASSUME NEW q \in req'.pending, q.kind = "subscribe"
      PROVE  Reads(net', q.id, 0, stream'[q.s].cursor, NoView)
  <2>1. q \in req.pending /\ q.s \in Streams
    BY DEF TypeOK, Tables, Requests
  <2>2. stream'[q.s].cursor = stream[q.s].cursor
    BY <2>1
  <2> QED BY <1>7, <2>1, <2>2 DEF InStep, ReadersInv, Keeps
<1>8. HeldInv'
  <2>1. \A t \in Streams : stream'[t].cursor = stream[t].cursor /\ stream'[t].orders = stream[t].orders
    OBVIOUS
  <2> QED BY <2>1 DEF InStep, HeldInv
<1> QED BY <1>1, <1>4, <1>6, <1>7, <1>8 DEF InStep, ReadersInv

LEMMA ProceedsInStep ==
    ASSUME TypeOK, TypeOK', RequestsInv, RequestsInv', Outcome \/ SocketOpens, InStep, Proceeds
    PROVE  InStep'
BY CarriesInStep, AcceptInStep, ConfirmInStep, AdvanceInStep DEF Proceeds

-----------------------------------------------------------------------------
(* What each action does to the views.                                     *)

LEMMA GoingOn ==
    ASSUME TypeOK
    PROVE  /\ UNCHANGED stream => \A s \in Streams : GoesOn(s)
           /\ \A t, r : (/\ r.cursor = stream[t].cursor /\ r.orders = stream[t].orders
                         /\ r.sub # 0 => /\ r.sub = stream[t].sub /\ r.seq = stream[t].seq
                                         /\ r.staged = stream[t].staged
                         /\ stream' = [stream EXCEPT ![t] = r]) => \A s \in Streams : GoesOn(s)
BY DEF GoesOn, TypeOK

LEMMA NetGoesOn ==
    ASSUME TypeOK, InStep
    PROVE  /\ UNCHANGED net => Keeps(net, net')
           /\ net' = Offline => Keeps(net, net')
<1>1. net \in Network /\ InOrder(net)
  BY DEF TypeOK, InStep
<1> QED BY <1>1, KeepsSelf DEF Offline

LEMMA AppCarries ==
    ASSUME TypeOK, InStep, App
    PROVE  Carries
<1>1. ASSUME NEW c \in Consumers, NEW ch \in Channels, Connect(c, ch)
      PROVE  Carries
  <2>1. UNCHANGED net
    BY <1>1 DEF Connect
  <2>2. CASE Join(c, subs[ch])
    <3>1. \A s \in Streams : GoesOn(s)
      BY <2>2 DEF Join, GoesOn, TypeOK, StreamObject
    <3> QED BY <2>1, <3>1, NetGoesOn DEF Carries
  <2>3. ASSUME NEW s \in Streams, Establish(c, ch, s)
        PROVE  Carries
    <3>1. \A t \in Streams : GoesOn(t)
      BY <2>3 DEF Establish, GoesOn, TypeOK, StreamObject
    <3> QED BY <2>1, <3>1, NetGoesOn DEF Carries
  <2> QED BY <1>1, <2>2, <2>3 DEF Connect
<1>2. ASSUME NEW c \in Consumers, Remove(c)
      PROVE  Carries
  <2>1. \A s \in Streams : GoesOn(s)
    BY <1>2 DEF Remove, GoesOn, TypeOK, StreamObject
  <2> QED BY <1>2, <2>1, NetGoesOn DEF Carries, Remove, env
<1>3. CASE Disconnect
  <2>1. \A s \in Streams : GoesOn(s)
    BY <1>3 DEF Disconnect, GoesOn, TypeOK, StreamObject
  <2> QED BY <1>3, <2>1, NetGoesOn DEF Carries, Disconnect
<1> QED BY <1>1, <1>2, <1>3 DEF App

LEMMA TeardownCarries ==
    ASSUME TypeOK, InStep, NEW s \in Streams, NEW r \in StreamObject,
           r.cursor = stream[s].cursor, r.orders = stream[s].orders, Teardown(s, r)
    PROVE  Carries
<1> DEFINE drop == conn.ws # 0 /\ r.sub # 0
           q    == IF drop THEN Unsubscribing(req, r.sub) ELSE req
           gone == [r EXCEPT !.consumers = {}, !.retryTimer = 0, !.sub = 0]
<1>1. net \in Network /\ InOrder(net) /\ r.sub \in Nat /\ req.seq \in Nat
  BY DEF TypeOK, InStep, Tables, StreamObject
<1>2. gone.cursor = stream[s].cursor /\ gone.orders = stream[s].orders /\ gone.sub = 0
  BY DEF StreamObject
<1> HIDE DEF gone
<1>3. stream' = [stream EXCEPT ![s] = gone]
  BY DEF Teardown, gone
<1>4. drop => q.seq = req.seq + 1
  BY DEF Unsubscribing, TypeOK, Tables
<1> HIDE DEF q
<1>5. net' = Offline \/ net' = net \/ (drop /\ net' = Cancel(net, q.seq, r.sub))
  BY DEF Teardown, q
<1>6. drop => q.seq \in Nat
  BY <1>1, <1>4
<1>7. Keeps(net, net')
  <2>1. CASE drop /\ net' = Cancel(net, q.seq, r.sub)
    BY <1>1, <1>6, <2>1, CancelKeeps
  <2>2. CASE net' = Offline \/ net' = net
    BY <2>2, NetGoesOn
  <2> QED BY <1>5, <2>1, <2>2
<1> QED BY <1>2, <1>3, <1>7, GoingOn DEF Carries

LEMMA RunMicrotaskCarries ==
    ASSUME TypeOK, InStep, RunMicrotask
    PROVE  Carries
<1>1. Head(micro) \in Tasks
  BY HeadTailProperties DEF RunMicrotask, TypeOK
<1>2. CASE UNCHANGED <<core, net>>
  BY <1>2, NetGoesOn, GoingOn DEF Carries, core
<1>3. CASE /\ Head(micro).do = "teardown" /\ IsCurrent(Head(micro).s)
           /\ Teardown(Head(micro).s, stream[Head(micro).s])
  <2>1. Head(micro).s \in Streams
    BY <1>3, CurrentStreams DEF IsCurrent
  <2>2. stream[Head(micro).s] \in StreamObject
    BY <2>1 DEF TypeOK
  <2> QED BY <1>3, <2>1, <2>2, TeardownCarries
<1> QED BY <1>2, <1>3 DEF RunMicrotask

\* A frame that belongs to no sequence is sent.
LEMMA PostCarries ==
    ASSUME TypeOK, InStep, UNCHANGED stream, NEW kind, NEW id \in Nat, NEW sub \in Nat, NEW note,
           kind \in {"error", "tokenExpiring"}, note \in {"forbidden", "cursorInvalid", "other"},
           net' = Post(net, Reply(kind, id, sub, note))
    PROVE  Carries
<1>1. net \in Network /\ InOrder(net)
  BY DEF TypeOK, InStep
<1>2. kind \in Plain \ Sequenced /\ note \in Notes
  BY ReplyKinds, ReplyNotes
<1>3. net'.wire = Post(net, Reply(kind, id, sub, note)).wire /\ net'.srv \subseteq net.srv
  BY <1>1 DEF Post, Network
<1>4. Keeps(net, net')
  BY <1>1, <1>2, <1>3, PostKeeps
<1> QED BY <1>4, GoingOn DEF Carries

LEMMA SubscribeTokenInStep ==
    ASSUME TypeOK, TypeOK', Created, RequestsInv, InStep, NEW f \in fetches, f.kind = "subscribe", Wanted(f),
           fetches' = fetches \ {f}, SubscribeToken(f)
    PROVE  Proceeds
<1> DEFINE p  == Request(f.id, "subscribe", f.s)
           ch == stream[f.s].channel
           at == stream[f.s].cursor
<1>1. /\ f.s \in Streams /\ f.id \in Nat /\ p \in req.pending /\ UNCHANGED stream
      /\ net \in Network /\ InOrder(net) /\ f.id \notin Subs(net)
  BY FetchFields DEF TypeOK, Wanted, SubscribeToken, InStep, FreshInv
<1>2. p.s = f.s
  BY DEF Request
<1>3. /\ ch \in Channels /\ at \in Cursors /\ log[ch] \in Nat
      /\ NoCursor \in Cursors /\ NoCursor <= log[ch]
  <2>1. ch \in Channels /\ at \in Cursors
    BY <1>1, <1>2 DEF Created, Named, TypeOK, StreamObject
  <2>2. log[ch] \in Nat
    BY <2>1, LastUnit DEF TypeOK, Positions
  <2> QED BY <2>1, <2>2 DEF Cursors, NoCursor
<1> HIDE DEF p, ch, at
<1>4. CASE UNCHANGED net
  BY <1>1, <1>4, NetGoesOn, GoingOn DEF Carries, Proceeds
<1>5. CASE /\ UNCHANGED req
           /\ \/ net' = Accept(net, f.id, ch, at)
              \/ LET n == Accept(net, f.id, ch, NoCursor)
                     r == CHOOSE x \in n.srv : x.sub = f.id
                 IN  net' = Emit(n, r, r, <<"resync">>, NoCursor, "none")
  <2>1. CASE net' = Accept(net, f.id, ch, at)
    <3>1. /\ InOrder(net') /\ Subs(net') \subseteq Subs(net) \cup {f.id}
          /\ \A x, c, v : \A k \in Nat : x # f.id /\ Reads(net, x, k, c, v) => Reads(net', x, k, c, v)
          /\ \A v : Reads(net', f.id, 0, at, v)
          /\ \A x, k, h, d, top : x # f.id /\ k \in Nat /\ Ahead(net, x, k, h, d, top) => Ahead(net', x, k, h, d, top)
          /\ \A h, top : at <= top /\ (at = NoCursor \/ h <= at) => Ahead(net', f.id, 0, h, ch, top)
      BY <1>1, <1>3, <2>1, AcceptSends
    <3>2. ASSUME NEW h \in Cursors, h <= log[ch], at \in {h, NoCursor}
          PROVE  Ahead(net', f.id, 0, h, ch, log[ch])
      <4>1. h \in Int
        BY <1>1, SentFields
      <4>2. at <= log[ch] /\ (at = NoCursor \/ h <= at)
        BY <1>3, <3>2, <4>1
      <4> QED BY <3>1, <4>2
    <3>3. Accepted(f)
      BY <1>1, <1>5, <3>1, <3>2 DEF Accepted, p, at, ch
    <3> QED BY <3>3 DEF Proceeds
  <2>2. CASE LET n == Accept(net, f.id, ch, NoCursor)
                 r == CHOOSE x \in n.srv : x.sub = f.id
             IN  net' = Emit(n, r, r, <<"resync">>, NoCursor, "none")
    <3> DEFINE n == Accept(net, f.id, ch, NoCursor)
               r == CHOOSE x \in n.srv : x.sub = f.id
    <3>1. NoCursor \in Cursors
      BY <1>3
    <3>2. /\ InOrder(n) /\ Subs(n) \subseteq Subs(net) \cup {f.id}
          /\ \A x, c, v : \A k \in Nat : x # f.id /\ Reads(net, x, k, c, v) => Reads(n, x, k, c, v)
          /\ \A v : Reads(n, f.id, 0, at, v)
          /\ \A x, k, h, d, top : x # f.id /\ k \in Nat /\ Ahead(net, x, k, h, d, top) => Ahead(n, x, k, h, d, top)
          /\ \A h, top : NoCursor <= top => Ahead(n, f.id, 0, h, ch, top)
          /\ \E x \in n.srv : /\ x.sub = f.id /\ x.pos = NoCursor
                              /\ \A q \in n.srv : q.sub = f.id => q = x
      BY <1>1, <1>3, <3>1, AcceptSends
    <3>3. n \in Network
      BY <1>1, <1>3, <3>1, AcceptType DEF Like
    <3>4. r \in n.srv /\ r.sub = f.id /\ r.pos = NoCursor
      BY <3>2
    <3>5. net' = Emit(n, r, r, <<"resync">>, NoCursor, "none")
      BY <2>2
    <3> HIDE DEF n, r
    <3>6. r \in ServerSubs
      BY <3>3, <3>4, NetFields
    <3>7. Keeps(n, net')
      <4>1. "resync" \in Changes \cup Remarks /\ "none" \in Scopes \cup {"none"} /\ "resync" \notin Changes
        BY DEF Changes, Remarks
      <4> QED BY <3>1, <3>2, <3>3, <3>4, <3>5, <3>6, <4>1, EmitOneKeeps
    <3>8. /\ InOrder(net') /\ Subs(net') \subseteq Subs(net) \cup {f.id}
          /\ \A x, c, v : \A k \in Nat : x # f.id /\ Reads(net, x, k, c, v) => Reads(net', x, k, c, v)
          /\ \A v : Reads(net', f.id, 0, at, v)
      BY <3>2, <3>7 DEF Keeps
    <3>9. /\ \A x : \A k \in Nat, h \in Cursors, d \in Channels :
                x # f.id /\ h <= log[d] /\ Ahead(net, x, k, h, d, log[d]) => Ahead(net', x, k, h, d, log[d])
          /\ \A h \in Cursors : h <= log[ch] => Ahead(net', f.id, 0, h, ch, log[ch])
      BY <1>3, <3>2, <3>7 DEF Keeps
    <3>10. Accepted(f)
      BY <1>1, <1>5, <3>8, <3>9 DEF Accepted, p, at, ch
    <3> QED BY <3>10 DEF Proceeds
  <2> QED BY <1>5, <2>1, <2>2
<1>6. CASE \E note \in {"cursorInvalid", "forbidden"} : net' = Post(net, Reply("error", f.id, 0, note))
  BY <1>1, <1>6, PostCarries DEF Proceeds
<1>7. \/ UNCHANGED net
      \/ ServerAnswers(f.id, ch, at) /\ UNCHANGED req
  BY DEF SubscribeToken, ch, at
<1>8. ServerAnswers(f.id, ch, at) =>
        \/ net' = Accept(net, f.id, ch, at) \/ UNCHANGED net
        \/ LET n == Accept(net, f.id, ch, NoCursor)
               r == CHOOSE x \in n.srv : x.sub = f.id
           IN  net' = Emit(n, r, r, <<"resync">>, NoCursor, "none")
        \/ \E note \in {"cursorInvalid", "forbidden"} : net' = Post(net, Reply("error", f.id, 0, note))
  BY DEF ServerAnswers
<1> QED BY <1>4, <1>5, <1>6, <1>7, <1>8

LEMMA FetchInStep ==
    ASSUME TypeOK, TypeOK', Created, RequestsInv, InStep, FetchSettles
    PROVE  Proceeds
<1>1. PICK f \in fetches :
         /\ fetches' = fetches \ {f}
         /\ \/ /\ Wanted(f)
               /\ \/ f.kind = "connect"   /\ ConnectToken(f)
                  \/ f.kind = "reauth"    /\ ReauthToken
                  \/ f.kind = "subscribe" /\ SubscribeToken(f)
                  \/ f.kind = "refresh"   /\ RefreshToken(f)
            \/ ~Wanted(f) /\ UNCHANGED <<core, turn, net, faults>>
  BY DEF FetchSettles
<1>2. net \in Network /\ InOrder(net)
  BY DEF TypeOK, InStep
<1>3. ASSUME UNCHANGED <<stream, net>>
      PROVE  Carries
  BY <1>3, NetGoesOn, GoingOn DEF Carries
<1>4. ASSUME ConnectToken(f)
      PROVE  Carries
  <2>1. UNCHANGED stream /\ (UNCHANGED net \/ net' = [Offline EXCEPT !.phase = "connecting"])
    BY <1>4 DEF ConnectToken
  <2>2. CASE net' = [Offline EXCEPT !.phase = "connecting"]
    <3>1. net'.wire = <<>> /\ net'.srv = {}
      BY <2>2 DEF Offline
    <3> QED BY <1>2, <2>1, <3>1, KeepsSelf, GoingOn DEF Carries
  <2> QED BY <1>3, <2>1, <2>2
<1>5. ASSUME f.kind = "refresh" /\ RefreshToken(f)
      PROVE  Carries
  <2>1. f.id \in Nat /\ req.seq + 1 \in Nat /\ UNCHANGED stream
    BY <1>5, FetchFields, FetchNumbers DEF TypeOK, RefreshToken
  <2>2. CASE net' = Renew(net, req.seq + 1, f.id)
    BY <1>2, <2>1, <2>2, CancelKeeps, GoingOn DEF Carries
  <2>3. CASE net' = Post(net, Reply("error", req.seq + 1, f.id, "forbidden"))
    BY <2>1, <2>3, PostCarries
  <2> QED BY <1>3, <1>5, <2>1, <2>2, <2>3 DEF RefreshToken
<1>6. ASSUME ReauthToken \/ UNCHANGED <<core, net>>
      PROVE  Carries
  BY <1>3, <1>6 DEF ReauthToken, core
<1> QED BY <1>1, <1>4, <1>5, <1>6, SubscribeTokenInStep DEF Proceeds

LEMMA TimersCarry ==
    ASSUME TypeOK, InStep, ReconnectTimer \/ (\E s \in Streams : RetryTimer(s)) \/ SocketOpens
    PROVE  Carries
<1>1. CASE ReconnectTimer
  BY <1>1, NetGoesOn, GoingOn DEF Carries, ReconnectTimer
<1>2. ASSUME NEW s \in Streams, RetryTimer(s)
      PROVE  Carries
  <2>1. UNCHANGED net
    BY <1>2 DEF RetryTimer, env
  <2>2. \A t \in Streams : GoesOn(t)
    BY <1>2 DEF RetryTimer, GoesOn, TypeOK, StreamObject
  <2> QED BY <2>1, <2>2, NetGoesOn DEF Carries
<1>3. CASE SocketOpens
  <2>1. net \in Network /\ InOrder(net) /\ UNCHANGED stream
    BY <1>3 DEF TypeOK, InStep, SocketOpens
  <2>2. net'.wire = net.wire /\ net'.srv \subseteq net.srv
    BY <1>3, <2>1 DEF SocketOpens, Network
  <2> QED BY <2>1, <2>2, KeepsSelf, GoingOn DEF Carries
<1> QED BY <1>1, <1>2, <1>3

LEMMA ClosedCarries ==
    ASSUME TypeOK, InStep, NEW terminal, Closed(terminal)
    PROVE  Carries
<1>1. \A s \in Streams : stream[s] \in StreamObject
  BY DEF TypeOK
<1>2. \A s \in Streams : GoesOn(s)
  BY <1>1 DEF Closed, GoesOn, Detached, StreamObject
<1> QED BY <1>2, NetGoesOn DEF Carries, Closed

-----------------------------------------------------------------------------
(* Frames.                                                                 *)

\* What reading a frame does to the network.
LEMMA ReadCarries ==
    ASSUME TypeOK, InStep, net.wire # <<>>
    PROVE  /\ Head(net.wire) \in Sent(net) /\ Head(net.wire) \in Frames
           /\ Read \in Network /\ InOrder(Read) /\ Read.srv = net.srv
           /\ Keeps(net, Read) /\ Sent(Read) \subseteq Sent(net)
           /\ \A m : Keeps(Read, m) => Keeps(net, m)
<1>1. net \in Network /\ InOrder(net)
  BY DEF TypeOK, InStep
<1>2. Read.wire = Tail(net.wire) /\ Read.srv = net.srv
  BY <1>1 DEF Read, Network
<1>3. Keeps(net, Read) /\ Sent(Read) \subseteq Sent(net) /\ Head(net.wire) \in Sent(net)
  BY <1>1, <1>2, ReadKeeps
<1>4. InOrder(Read)
  BY <1>3 DEF Keeps
<1> QED BY <1>2, <1>3, <1>4, ReadType, KeepsOnwards

LEMMA AnsweredCarries ==
    ASSUME TypeOK, InStep, net.wire # <<>>, NEW q, NEW jobs, Answered(q, jobs)
    PROVE  Carries
BY ReadCarries, GoingOn DEF Answered, Carries

LEMMA ResubscribeCarries ==
    ASSUME TypeOK, RequestsInv, InStep, net.wire # <<>>, NEW s \in Streams, IsCurrent(s), stream[s].sub # 0,
           NEW r \in StreamObject, r.orders = stream[s].orders, r.cursor \in {NoCursor, stream[s].cursor},
           NEW q \in Tables, q.seq = req.seq, Resubscribe(s, r, q, Read)
    PROVE  Carries
<1> DEFINE drop == r.sub # 0
           q2   == IF drop THEN Unsubscribing(q, r.sub) ELSE q
           gone == [r EXCEPT !.sub = 0, !.seq = 0, !.staged = NoView,
                             !.state = IF @ = "connected" THEN "disconnected" ELSE @]
<1>1. r.sub \in Nat /\ req.seq \in Nat /\ Asking(s) = {}
  BY OwnNames DEF StreamObject, TypeOK, Tables
<1>2. drop => q2.seq = req.seq + 1
  BY DEF Unsubscribing, Tables
<1>3. /\ [gone EXCEPT !.retries = 1].cursor = r.cursor /\ [gone EXCEPT !.retries = 1].orders = r.orders
      /\ [gone EXCEPT !.retries = 1].sub = 0
      /\ Retrying(gone, conn.ws).cursor = r.cursor /\ Retrying(gone, conn.ws).orders = r.orders
      /\ Retrying(gone, conn.ws).sub = 0
  BY DEF StreamObject, Retrying
<1> HIDE DEF gone, q2
<1>4. /\ net' = IF drop THEN Cancel(Read, q2.seq, r.sub) ELSE Read
      /\ \/ stream' = [stream EXCEPT ![s] = Retrying(gone, conn.ws)]
         \/ stream' = [stream EXCEPT ![s] = [gone EXCEPT !.retries = 1]]
  BY DEF Resubscribe, gone, q2
<1>5. Keeps(net, net')
  <2>1. CASE drop
    <3>1. q2.seq \in Nat
      BY <1>1, <1>2, <2>1
    <3>2. Keeps(Read, Cancel(Read, q2.seq, r.sub))
      BY <1>1, <3>1, ReadCarries, CancelKeeps
    <3> QED BY <1>4, <2>1, <3>2, ReadCarries
  <2>2. CASE ~drop
    BY <1>4, <2>2, ReadCarries
  <2> QED BY <2>1, <2>2
<1>6. PICK x : /\ stream' = [stream EXCEPT ![s] = x]
               /\ x.cursor = r.cursor /\ x.orders = r.orders /\ x.sub = 0
  BY <1>3, <1>4
<1>7. CASE r.cursor = stream[s].cursor
  BY <1>5, <1>6, <1>7, GoingOn DEF Carries
<1>8. CASE r.cursor = NoCursor
  <2>1. Restarts(s)
    BY <1>1, <1>6, <1>8 DEF Restarts, TypeOK
  <2>2. \A t \in Streams \ {s} : GoesOn(t)
    BY <1>6 DEF GoesOn, TypeOK
  <2> QED BY <1>5, <2>1, <2>2 DEF Carries
<1> QED BY <1>7, <1>8

LEMMA EndedCarries ==
    ASSUME TypeOK, RequestsInv, InStep, net.wire # <<>>, NEW s \in Streams, IsCurrent(s), stream[s].sub # 0,
           NEW q \in Tables, q.seq = req.seq, Ended(s, q)
    PROVE  Carries
<1> DEFINE r == [stream[s] EXCEPT !.sub = 0]
           q1 == Unnamed(q, stream[s].sub)
<1>1. r \in StreamObject /\ r.orders = stream[s].orders /\ r.cursor = stream[s].cursor /\ stream[s].sub \in Nat
  BY DEF TypeOK, StreamObject
<1>2. q1 \in Tables /\ q1.seq = q.seq
  BY <1>1, TableTypes DEF Unnamed, Tables
<1>3. Resubscribe(s, r, q1, Read)
  BY DEF Ended
<1> HIDE DEF r, q1
<1> QED BY <1>1, <1>2, <1>3, ResubscribeCarries

LEMMA OnSubscribedInStep ==
    ASSUME TypeOK, TypeOK', RequestsInv, InStep, net.wire # <<>>, NEW f, f = Head(net.wire),
           f.kind = "subscribed", OnSubscribed(f)
    PROVE  Proceeds
<1>1. f.sub = f.id /\ f.id \in Nat /\ f.sub \in Nat
  BY ReadCalm, FrameFields DEF RequestsInv, IdsInv
<1>2. ASSUME NEW s \in Streams, Request(f.id, "subscribe", s) \in req.pending,
             req' = [Forget(f.id) EXCEPT !.bySub = @ \cup {[sub |-> f.sub, s |-> s]}],
             stream' = [stream EXCEPT ![s].sub = f.sub, ![s].seq = 0, ![s].state = "connected"],
             net' = Read, UNCHANGED <<subs, conn, fetches>>
      PROVE  Proceeds
  <2>1. /\ req'.seq = req.seq /\ req'.pending \subseteq req.pending
        /\ req'.bySub = req.bySub \cup {[sub |-> f.id, s |-> s]}
    BY <1>1, <1>2, ForgetTables DEF Tables
  <2>2. /\ \A t \in Streams \ {s} : stream'[t] = stream[t]
        /\ stream'[s].cursor = stream[s].cursor /\ stream'[s].orders = stream[s].orders /\ stream'[s].seq = 0
        /\ stream'[s].channel = stream[s].channel
    BY <1>1, <1>2 DEF TypeOK, StreamObject
  <2>3. Keeps(net, net')
    BY <1>2, ReadCarries
  <2>4. Subscribes(f.id, s)
    BY <1>2, <2>1, <2>2, <2>3 DEF Subscribes
  <2> QED BY <2>4 DEF Proceeds
<1>3. CASE DropUnwanted(f)
  <2>1. UNCHANGED stream /\ net' = Cancel(Read, req.seq + 1, f.sub)
    BY <1>3 DEF DropUnwanted
  <2>2. Keeps(Read, net')
    BY <1>1, <2>1, ReadCarries, CancelKeeps, FetchNumbers
  <2> QED BY <2>1, <2>2, ReadCarries, GoingOn DEF Carries, Proceeds
<1> QED BY <1>2, <1>3 DEF OnSubscribed

LEMMA OnErrorCarries ==
    ASSUME TypeOK, RequestsInv, InStep, net.wire # <<>>, NEW f, f = Head(net.wire), f.kind = "error", OnError(f)
    PROVE  Carries
<1> DEFINE asked == {p \in req.pending : p.id = f.id}
           Other(s) == IF f.note = "unknown" /\ stream[s].sub = f.sub THEN Ended(s, Forget(f.id))
                       ELSE Answered(Forget(f.id), <<Report(s)>>)
<1>1. IsPlain(f)
  BY ReadCalm DEF RequestsInv, IdsInv
<1>2. ASSUME NEW s \in Streams, IsCurrent(s), Other(s)
      PROVE  Carries
  <2>1. CASE f.note = "unknown" /\ stream[s].sub = f.sub
    <3>1. stream[s].sub # 0 /\ Ended(s, Forget(f.id))
      BY <1>1, <1>2, <2>1 DEF IsPlain, Names
    <3> QED BY <1>2, <3>1, ForgetTables, EndedCarries
  <2>2. CASE ~(f.note = "unknown" /\ stream[s].sub = f.sub)
    BY <1>2, <2>2, AnsweredCarries
  <2> QED BY <2>1, <2>2
<1>3. ASSUME NEW p \in asked, p.kind = "subscribe", SubscribeError(p.s, f)
      PROVE  Carries
  <2> DEFINE s == p.s
  <2>1. s \in Streams /\ IsCurrent(s) /\ p \in Asking(s)
    BY <1>3, OwnNames DEF Asking, TypeOK, Tables, Requests
  <2>2. (\A x \in Asking(s) : x = p) /\ stream[s].sub = 0
    BY <2>1 DEF RequestsInv, Settled, Tidy
  <2>3. CASE f.note = "cursorInvalid"
    <3>1. /\ stream' = [stream EXCEPT ![s].cursor = NoCursor] /\ StartSubscribe(s, Forget(f.id))
          /\ net' = Read
      BY <1>3, <2>3 DEF SubscribeError
    <3>2. req'.pending = {x \in req.pending : x.id # f.id} \cup {Request(req.seq + 1, "subscribe", s)}
      <4>1. /\ Forget(f.id) \in Tables /\ Forget(f.id).pending = {x \in req.pending : x.id # f.id}
            /\ Forget(f.id).seq = req.seq
        BY ForgetTables
      <4> HIDE DEF s
      <4> QED BY <3>1, <4>1 DEF StartSubscribe, Tables
    <3>3. req.seq + 1 \in Nat /\ \A x \in req.pending : x.id # req.seq + 1
      <4>1. \A x \in req.pending : x.id \in Nat /\ x.id <= req.seq
        BY DEF RequestsInv, IdsInv, TypeOK, Tables, Requests
      <4> QED BY <4>1, FetchNumbers
    <3>4. \A x \in req'.pending : x \notin Asking(s)
      BY <1>3, <2>2, <3>2, <3>3 DEF Asking, Request
    <3>5. Restarts(s)
      BY <2>1, <2>2, <3>1, <3>4 DEF Restarts, TypeOK, StreamObject
    <3>6. \A t \in Streams \ {s} : GoesOn(t)
      BY <3>1 DEF GoesOn, TypeOK
    <3> QED BY <3>1, <3>5, <3>6, ReadCarries DEF Carries
  <2>4. CASE f.note # "cursorInvalid"
    BY <1>3, <2>4, AnsweredCarries DEF SubscribeError
  <2> QED BY <2>3, <2>4
<1>4. CASE \E q, jobs : Answered(q, jobs)
  BY <1>4, AnsweredCarries
<1>5. ASSUME NEW p \in asked, p.kind # "subscribe", Other(p.s)
      PROVE  Carries
  <2>1. p.s \in Streams /\ IsCurrent(p.s)
    BY OwnNames DEF TypeOK, Tables, Requests
  <2> QED BY <1>2, <1>5, <2>1
<1>6. ASSUME NEW b \in req.bySub, Other(b.s)
      PROVE  Carries
  <2>1. b.s \in Streams /\ IsCurrent(b.s)
    BY OwnNames DEF TypeOK, Tables
  <2> QED BY <1>2, <1>6, <2>1
<1>7. \/ Answered([req EXCEPT !.unsubscribing = @ \ {f.id}], <<>>)
      \/ Answered(req, <<>>)
      \/ \E p \in asked : IF p.kind = "subscribe" THEN SubscribeError(p.s, f) ELSE Other(p.s)
      \/ \E b \in req.bySub : Other(b.s)
      \/ Answered(req, <<Every("reportAll")>>)
  BY DEF OnError
<1> HIDE DEF asked, Other
<1> QED BY <1>3, <1>4, <1>5, <1>6, <1>7

\* Each frame of a sequence does what the frames before it led the reader to expect.
LEMMA UpdateInStep ==
    ASSUME TypeOK, TypeOK', RequestsInv, InStep, net.wire # <<>>, NEW b \in req.bySub, NEW s, s = b.s,
           NEW f, f = Head(net.wire), f.sub = b.sub, f.seq = stream[s].seq + 1,
           NEW r, NEW jobs, Update(s, r, jobs), After(f, stream[s], r)
    PROVE  Proceeds
<1>1. /\ stream' = [stream EXCEPT ![s] = r] /\ net' = Read /\ UNCHANGED <<req, fetches>>
  BY DEF Update
<1>2. f \in Sent(net) /\ Keeps(net, net') /\ Sent(net') \subseteq Sent(net) /\ net'.srv = net.srv
  BY <1>1, ReadCarries
<1>3. Advanced(b, f, r)
  BY <1>1, <1>2 DEF Advanced
<1> QED BY <1>2, <1>3 DEF Proceeds

LEMMA OnStreamFrameInStep ==
    ASSUME TypeOK, TypeOK', RequestsInv, InStep, net.wire # <<>>, NEW b \in req.bySub,
           NEW f, f = Head(net.wire), f.sub = b.sub, OnStreamFrame(b.s, f)
    PROVE  Proceeds
<1> DEFINE s == b.s
           x == stream[s]
           r == IF f.seq > 0 THEN [stream[s] EXCEPT !.seq = f.seq] ELSE stream[s]
<1>1. /\ s \in Streams /\ IsCurrent(s) /\ x.sub # 0 /\ x.sub = b.sub
  BY OwnNames DEF TypeOK, Tables
<1>2. x \in StreamObject /\ req \in Tables /\ f \in Sent(net) /\ f \in Frames /\ f.seq \in Nat /\ f.pos \in Cursors
  BY <1>1, ReadCarries, FrameFields, SentFields DEF TypeOK
<1>3. /\ f.seq > 0 <=> f.kind \in Sequenced
      /\ f.kind \in Changes => Covers(f)
      /\ f.kind = "end" => f.pos # NoCursor
      /\ x.cursor # NoCursor => x.orders = ViewAt(x.cursor)
  BY <1>1, <1>2 DEF InStep, InOrder, HeldInv
<1>4. f.seq = x.seq + 1 => Fits(f, x.cursor, x.staged)
  BY <1>1, <1>2 DEF InStep, ReadersInv, Reads
<1>5. CASE Resubscribe(s, x, req, Read)
  BY <1>1, <1>2, <1>5, ResubscribeCarries DEF Proceeds
<1>6. CASE Ended(s, req)
  BY <1>1, <1>2, <1>6, EndedCarries DEF Proceeds
<1>7. CASE net' = Read /\ UNCHANGED core
  BY <1>7, ReadCarries, GoingOn DEF Carries, core, Proceeds
<1>8. ASSUME f.seq = x.seq + 1, NEW y, After(f, x, y), NEW jobs, Update(s, y, jobs)
      PROVE  Proceeds
  BY <1>8, UpdateInStep
<1>9. CASE f.kind = "begin" /\ f.seq = x.seq + 1 /\ Update(s, [r EXCEPT !.staged = EmptyView], <<>>)
  <2> DEFINE y == [r EXCEPT !.staged = EmptyView]
  <2>1. y.seq = f.seq /\ y.staged = EmptyView /\ y.cursor = x.cursor /\ y.orders = x.orders /\ y.channel = x.channel
    BY <1>2, <1>3, <1>9 DEF StreamObject, Sequenced
  <2>2. Update(s, y, <<>>)
    BY <1>9
  <2> HIDE DEF y, s, x
  <2>3. After(f, x, y)
    BY <1>3, <1>9, <2>1 DEF After
  <2> QED BY <1>8, <1>9, <2>2, <2>3
<1>10. CASE /\ f.kind = "page" /\ f.seq = x.seq + 1
            /\ Update(s, [r EXCEPT !.staged = IF @ = NoView THEN @ ELSE ViewAt(f.pos)], <<>>)
  <2> DEFINE y == [r EXCEPT !.staged = IF @ = NoView THEN @ ELSE ViewAt(f.pos)]
  <2>1. x.staged # NoView
    BY <1>4, <1>10, ViewTypes DEF Fits
  <2>2. y.seq = f.seq /\ y.staged = ViewAt(f.pos) /\ y.cursor = x.cursor /\ y.orders = x.orders /\ y.channel = x.channel
    BY <1>2, <1>3, <1>10, <2>1 DEF StreamObject, Sequenced
  <2>3. Update(s, y, <<>>)
    BY <1>10
  <2> HIDE DEF y, s, x
  <2>4. After(f, x, y)
    BY <1>3, <1>10, <2>2 DEF After
  <2> QED BY <1>8, <1>10, <2>3, <2>4
<1>11. CASE f.kind = "end" /\ f.seq = x.seq + 1 /\ SnapshotEnd(s, f)
  <2> DEFINE z == [x EXCEPT !.seq = f.seq, !.staged = NoView]
             view == x.staged
  <2>1. CASE Resubscribe(s, [z EXCEPT !.cursor = NoCursor], req, Read)
    <3> DEFINE y == [z EXCEPT !.cursor = NoCursor]
    <3>1. y \in StreamObject
      BY <1>2 DEF StreamObject, MaybeView, Cursors
    <3>2. y.orders = x.orders /\ y.cursor = NoCursor
      BY <1>2 DEF StreamObject
    <3>3. Resubscribe(s, y, req, Read)
      BY <2>1
    <3> HIDE DEF y
    <3> QED BY <1>1, <1>2, <3>1, <3>2, <3>3, ResubscribeCarries DEF Proceeds
  <2>2. CASE /\ view # NoView /\ Count(view) = Count(ViewAt(f.pos))
             /\ Update(s, [z EXCEPT !.cursor = f.pos, !.retries = 0, !.orders = view], <<Deliver(s, Snapshot(view))>>)
    <3> DEFINE y == [z EXCEPT !.cursor = f.pos, !.retries = 0, !.orders = view]
    <3>1. y.seq = f.seq /\ y.cursor = f.pos /\ y.orders = view /\ y.channel = x.channel
      BY <1>2 DEF StreamObject
    <3>2. Update(s, y, <<Deliver(s, Snapshot(view))>>)
      BY <2>2
    <3>3. view = ViewAt(f.pos)
      BY <1>2, <1>4, <1>11, <2>2, EmptyCount DEF Fits
    <3> HIDE DEF y, s, x
    <3>4. After(f, x, y)
      BY <1>3, <1>11, <3>1, <3>3 DEF After
    <3> QED BY <1>8, <1>11, <3>2, <3>4
  <2> QED BY <1>11, <2>1, <2>2 DEF SnapshotEnd
<1>12. CASE f.kind = "unit" /\ f.seq = x.seq + 1 /\ OnUnit(s, f)
  <2> DEFINE view == IF x.orders = NoView THEN x.orders ELSE Apply(x.orders, f.pos)
             y == [x EXCEPT !.seq = f.seq, !.cursor = f.pos, !.retries = 0, !.orders = view]
  <2>1. f.pos \in Positions \ {0} /\ x.cursor = f.pos - 1
    BY <1>3, <1>4, <1>12 DEF Fits, Covers, Changes
  <2>2. f.pos - 1 \in Positions /\ Apply(ViewAt(f.pos - 1), f.pos) = ViewAt(f.pos) /\ f.pos - 1 # NoCursor
    <3>1. f.pos - 1 # NoCursor
      BY <2>1, LastUnit DEF NoCursor
    <3> QED BY <2>1, <3>1, ViewSteps
  <2>3. x.orders = ViewAt(f.pos - 1) /\ ViewAt(f.pos - 1) # NoView
    BY <1>3, <2>1, <2>2, ViewTypes DEF Cursors
  <2>4. view = ViewAt(f.pos)
    BY <2>2, <2>3
  <2>5. y.seq = f.seq /\ y.cursor = f.pos /\ y.orders = view /\ y.channel = x.channel
    BY <1>2 DEF StreamObject
  <2>6. Update(s, y, <<Deliver(s, UnitEvent(f.pos))>>)
    BY <1>12 DEF OnUnit
  <2> HIDE DEF y, view, s, x
  <2>7. f.pos # NoCursor
    BY <2>1, LastUnit DEF NoCursor
  <2>8. After(f, x, y)
    BY <1>12, <2>4, <2>5, <2>7 DEF After
  <2> QED BY <1>8, <1>12, <2>6, <2>8
<1>13. CASE f.kind = "covered" /\ f.seq = x.seq + 1 /\ Update(s, [r EXCEPT !.cursor = f.pos, !.retries = 0], <<>>)
  <2> DEFINE y == [r EXCEPT !.cursor = f.pos, !.retries = 0]
  <2>1. f.pos \in Positions \ {0} /\ x.cursor = f.pos - 1 /\ \A o \in OrderIds : ~Touched(o, f.pos)
    BY <1>3, <1>4, <1>13 DEF Fits, Covers, Changes
  <2>2. f.pos - 1 \in Positions /\ ViewAt(f.pos) = ViewAt(f.pos - 1) /\ f.pos - 1 # NoCursor
    <3>1. f.pos - 1 # NoCursor
      BY <2>1, LastUnit DEF NoCursor
    <3> QED BY <2>1, <3>1, ViewSteps
  <2>3. x.orders = ViewAt(f.pos)
    BY <1>3, <2>1, <2>2
  <2>4. y.seq = f.seq /\ y.cursor = f.pos /\ y.orders = x.orders /\ y.channel = x.channel
    BY <1>2, <1>3, <1>13 DEF StreamObject, Sequenced
  <2>5. Update(s, y, <<>>)
    BY <1>13
  <2> HIDE DEF y, s, x
  <2>6. f.pos # NoCursor
    BY <2>1, LastUnit DEF NoCursor
  <2>7. After(f, x, y)
    BY <1>13, <2>3, <2>4, <2>6 DEF After
  <2> QED BY <1>8, <1>13, <2>5, <2>7
<1>14. ASSUME f.kind \in Remarks, f.seq = x.seq + 1, NEW y, y.seq = r.seq, y.cursor = r.cursor,
              y.orders = r.orders, y.channel = r.channel, NEW jobs, Update(s, y, jobs)
       PROVE  Proceeds
  <2>1. f.pos # NoCursor => x.cursor = f.pos
    BY <1>4, <1>14 DEF Fits
  <2>2. y.seq = f.seq /\ y.cursor = x.cursor /\ y.orders = x.orders /\ y.channel = x.channel
    BY <1>2, <1>3, <1>14 DEF StreamObject, Sequenced, Remarks
  <2> HIDE DEF s, x, r
  <2>3. After(f, x, y)
    BY <1>3, <1>14, <2>1, <2>2 DEF After, Remarks
  <2> QED BY <1>8, <1>14, <2>3
<1>15. \/ Resubscribe(s, x, req, Read)
       \/ net' = Read /\ UNCHANGED core
       \/ Ended(s, req)
       \/ /\ InSequence(s, f)
          /\ \/ f.kind = "begin"   /\ Update(s, [r EXCEPT !.staged = EmptyView], <<>>)
             \/ f.kind = "page"    /\ Update(s, [r EXCEPT !.staged = IF @ = NoView THEN @ ELSE ViewAt(f.pos)], <<>>)
             \/ f.kind = "end"     /\ SnapshotEnd(s, f)
             \/ f.kind = "unit"    /\ OnUnit(s, f)
             \/ f.kind = "covered" /\ Update(s, [r EXCEPT !.cursor = f.pos, !.retries = 0], <<>>)
             \/ f.kind = "ready"   /\ Update(s, [r EXCEPT !.retries = 0], <<>>)
             \/ f.kind = "resync"  /\ Update(s, r, <<>>)
             \/ /\ f.kind \in {"unavailable", "available"}
                /\ Update(s, [r EXCEPT !.stale = f.note], <<Deliver(s, Stale(f.note))>>)
  BY DEF OnStreamFrame
<1>16. InSequence(s, f) /\ f.kind \in Sequenced => f.seq = x.seq + 1
  BY <1>3 DEF InSequence
<1>17. /\ \A v : LET y == [r EXCEPT !.stale = v]
                 IN  y.seq = r.seq /\ y.cursor = r.cursor /\ y.orders = r.orders /\ y.channel = r.channel
       /\ LET y == [r EXCEPT !.retries = 0]
          IN  y.seq = r.seq /\ y.cursor = r.cursor /\ y.orders = r.orders /\ y.channel = r.channel
  BY <1>2 DEF StreamObject
<1> HIDE DEF s, x, r
<1>18. CASE f.kind \in Remarks /\ InSequence(s, f)
  <2>1. f.seq = x.seq + 1
    BY <1>16, <1>18 DEF Remarks, Sequenced
  <2>2. CASE f.kind = "ready" /\ Update(s, [r EXCEPT !.retries = 0], <<>>)
    BY <1>14, <1>17, <1>18, <2>1, <2>2
  <2>3. CASE f.kind = "resync" /\ Update(s, r, <<>>)
    BY <1>14, <1>18, <2>1, <2>3
  <2>4. CASE Update(s, [r EXCEPT !.stale = f.note], <<Deliver(s, Stale(f.note))>>)
    BY <1>14, <1>17, <1>18, <2>1, <2>4
  <2> QED BY <1>5, <1>6, <1>7, <1>15, <1>18, <2>2, <2>3, <2>4 DEF Remarks
<1>19. CASE f.kind \in {"begin", "page", "end", "unit", "covered"} /\ InSequence(s, f)
  <2>1. f.seq = x.seq + 1
    BY <1>16, <1>19 DEF Sequenced
  <2> QED BY <1>5, <1>6, <1>7, <1>9, <1>10, <1>11, <1>12, <1>13, <1>15, <1>19, <2>1
<1> QED BY <1>5, <1>6, <1>7, <1>15, <1>18, <1>19 DEF Remarks

LEMMA OnFrameInStep ==
    ASSUME TypeOK, TypeOK', RequestsInv, InStep, OnFrame \/ OnGarbledFrame
    PROVE  Proceeds
<1> DEFINE f == Head(net.wire)
<1>1. net.wire # <<>>
  BY DEF OnFrame, OnGarbledFrame
<1>2. CASE \E q, jobs : Answered(q, jobs)
  BY <1>1, <1>2, AnsweredCarries DEF Proceeds
<1>3. CASE net' = Read /\ UNCHANGED core
  BY <1>1, <1>3, ReadCarries, GoingOn DEF Carries, core, Proceeds
<1>4. CASE \E b \in req.bySub : b.sub = f.sub /\ OnStreamFrame(b.s, f)
  BY <1>1, <1>4, OnStreamFrameInStep
<1>5. CASE f.kind = "subscribed" /\ OnSubscribed(f)
  BY <1>1, <1>5, OnSubscribedInStep
<1>6. CASE f.kind = "error" /\ OnError(f)
  BY <1>1, <1>6, OnErrorCarries DEF Proceeds
<1> QED BY <1>2, <1>3, <1>4, <1>5, <1>6 DEF OnFrame, OnGarbledFrame

-----------------------------------------------------------------------------
(* The rest of a turn, and the world outside.                              *)

LEMMA TurnCarries ==
    ASSUME TypeOK, InStep, CallConsumer \/ CallsDone \/ NextStream \/ Resume
    PROVE  Carries
<1>1. ASSUME UNCHANGED net, NEW t, NEW r, stream' = [stream EXCEPT ![t] = r],
             r.cursor = stream[t].cursor, r.orders = stream[t].orders, r.sub = stream[t].sub,
             r.seq = stream[t].seq, r.staged = stream[t].staged
      PROVE  Carries
  BY <1>1, NetGoesOn, GoingOn DEF Carries
<1>2. CASE UNCHANGED <<stream, net>>
  BY <1>2, NetGoesOn, GoingOn DEF Carries
<1>3. ASSUME UNCHANGED net, NEW t, NEW v, stream' = [stream EXCEPT ![t].state = v]
      PROVE  Carries
  <2>1. \A s \in Streams : GoesOn(s)
    BY <1>3 DEF GoesOn, TypeOK, StreamObject
  <2> QED BY <1>3, <2>1, NetGoesOn DEF Carries
<1>4. CASE CallConsumer \/ CallsDone
  BY <1>2, <1>4 DEF CallConsumer, CallsDone, core, env
<1>5. CASE NextStream
  <2>1. UNCHANGED net
    BY <1>5 DEF NextStream, env
  <2>2. UNCHANGED stream \/ \E s : stream' = [stream EXCEPT ![s].state = "disconnected"]
    BY <1>5 DEF NextStream
  <2> QED BY <1>2, <1>3, <2>1, <2>2
<1>6. CASE Resume
  <2> DEFINE s == Head(turn).s
  <2>1. CASE Head(turn).do = "finish" /\ FinishTerminate(s)
    <3> DEFINE r == [stream[s] EXCEPT !.state = "disconnected"]
    <3>1. s \in Streams
      BY <1>6, <2>1, TurnType, JobFields DEF Resume
    <3>2. r \in StreamObject /\ r.cursor = stream[s].cursor /\ r.orders = stream[s].orders
          /\ r.sub = stream[s].sub /\ r.seq = stream[s].seq /\ r.staged = stream[s].staged
      BY <3>1 DEF TypeOK, StreamObject, LinkStates
    <3>3. Teardown(s, r) \/ (stream' = [stream EXCEPT ![s] = r] /\ UNCHANGED net)
      BY <2>1 DEF FinishTerminate
    <3> HIDE DEF r, s
    <3> QED BY <1>1, <3>1, <3>2, <3>3, TeardownCarries
  <2>2. CASE stream' = [stream EXCEPT ![s].stale = "no"] /\ UNCHANGED net
    <3>1. \A t \in Streams : GoesOn(t)
      BY <2>2 DEF GoesOn, TypeOK, StreamObject
    <3> QED BY <2>2, <3>1, NetGoesOn DEF Carries
  <2>3. ASSUME NEW sock, stream' = [stream EXCEPT ![s] = Retrying(@, sock)], UNCHANGED net
        PROVE  Carries
    <3>1. \A t \in Streams : GoesOn(t)
      BY <2>3 DEF GoesOn, Retrying, TypeOK, StreamObject
    <3> QED BY <2>3, <3>1, NetGoesOn DEF Carries
  <2>4. \/ UNCHANGED <<stream, net>>
        \/ Head(turn).do = "finish" /\ FinishTerminate(s)
        \/ stream' = [stream EXCEPT ![s].stale = "no"] /\ UNCHANGED net
        \/ \E sock : stream' = [stream EXCEPT ![s] = Retrying(@, sock)] /\ UNCHANGED net
    BY <1>6 DEF Resume, core
  <2> HIDE DEF s
  <2> QED BY <1>2, <2>1, <2>2, <2>3, <2>4
<1> QED BY <1>4, <1>5, <1>6

LEMMA ServerCarries ==
    ASSUME TypeOK, InStep, Server
    PROVE  Carries
<1>1. net \in Network /\ InOrder(net) /\ UNCHANGED stream
  BY DEF TypeOK, InStep, Server, AccountMoves, ServerSends, FrameLost, ConnectionEnds, core
<1>2. CASE \E ch \in Channels : AccountMoves(ch)
  BY <1>1, <1>2, NetGoesOn, GoingOn DEF Carries, AccountMoves
<1>3. CASE ServerSends
  <2>1. ASSUME NEW r \in net.srv
        PROVE  log[r.ch] \in Positions
    <3>1. r.ch \in Channels
      BY <1>1 DEF Network, ServerSubs
    <3> QED BY <3>1 DEF TypeOK
  <2>2. ASSUME NEW r \in net.srv, \/ net' \in Serving(net, r, log[r.ch])
                                  \/ net' \in Recovering(net, r)
                                  \/ \E kind \in ServerFaults : net' \in Failing(net, r, kind, log[r.ch])
        PROVE  Keeps(net, net')
    BY <1>1, <2>1, <2>2, SendKeeps
  <2>3. ASSUME NEW kind \in {"tokenExpiring", "error"}, net' = Post(net, Reply(kind, 0, 0, "other"))
        PROVE  Carries
    BY <1>1, <2>3, PostCarries
  <2> QED BY <1>1, <1>3, <2>2, <2>3, GoingOn DEF ServerSends, Carries
<1>4. CASE FrameLost
  <2>1. PICK i \in DOMAIN net.wire :
          net' = [net EXCEPT !.wire = SubSeq(@, 1, i - 1) \o SubSeq(@, i + 1, Len(@))]
    BY <1>4 DEF FrameLost
  <2>2. /\ net'.srv = net.srv
        /\ net'.wire = SubSeq(net.wire, 1, i - 1) \o SubSeq(net.wire, i + 1, Len(net.wire))
    BY <1>1, <2>1 DEF Network
  <2>3. Keeps(net, net')
    BY <1>1, <2>2, CutKeeps
  <2> QED BY <1>1, <2>3, GoingOn DEF Carries
<1>5. CASE ConnectionEnds
  <2>1. net'.wire = net.wire /\ net'.srv \subseteq net.srv
    BY <1>1, <1>5 DEF ConnectionEnds, Network
  <2> QED BY <1>1, <2>1, KeepsSelf, GoingOn DEF Carries
<1> QED BY <1>2, <1>3, <1>4, <1>5 DEF Server

LEMMA StepProceeds ==
    ASSUME TypeOK, Created, LinkInv, RequestsInv, InStep, [Next]_vars
    PROVE  Proceeds
<1>1. TypeOK' /\ RequestsInv' /\ (Outcome \/ SocketOpens)
  BY StepKeepsTypes, StepKeepsRequests, StepDoes
<1>2. CASE UNCHANGED vars
  BY <1>2, NetGoesOn, GoingOn DEF Carries, Proceeds, vars, core, env
<1>3. CASE App \/ Server
  BY <1>1, <1>3, AppCarries, ServerCarries DEF Proceeds
<1>4. CASE Client
  <2>1. SocketCloses \/ HeartbeatTimer => Carries
    BY ClosedCarries DEF SocketCloses, HeartbeatTimer
  <2>2. RunMicrotask \/ ReconnectTimer \/ (\E s \in Streams : RetryTimer(s)) \/ SocketOpens
        \/ CallConsumer \/ CallsDone \/ NextStream \/ Resume => Carries
    BY RunMicrotaskCarries, TimersCarry, TurnCarries
  <2> QED BY <1>1, <1>4, <2>1, <2>2, FetchInStep, OnFrameInStep DEF Client, Proceeds
<1> QED BY <1>2, <1>3, <1>4 DEF Next

LEMMA StepKeepsInStep ==
    ASSUME TypeOK, Created, LinkInv, RequestsInv, InStep, [Next]_vars
    PROVE  InStep'
BY StepKeepsTypes, StepKeepsRequests, StepDoes, StepProceeds, ProceedsInStep

LEMMA InitInStep == Init => InStep
<1> SUFFICES ASSUME Init PROVE InStep
  OBVIOUS
<1>1. Sent(net) = {} /\ net.srv = {}
  BY DEF Init, Offline, Sent
<1>2. InOrder(net) /\ FreshInv
  BY <1>1 DEF InOrder, Climbs, FreshInv, Subs
<1>3. ReadersInv /\ HeldInv
  BY DEF Init, ReadersInv, HeldInv, NewStream
<1> QED BY <1>2, <1>3 DEF InStep

-----------------------------------------------------------------------------

\* A stream's orders are the account's live view at the cursor it would resume from:
\* no unit is skipped, repeated or applied to another's view, whatever frames the
\* server skips, sends late or sends for a subscription the client has let go.
THEOREM ViewMatchesCursorHolds == Spec => []ViewMatchesCursor
<1> DEFINE Inv == TypeOK /\ Created /\ LinkInv /\ RequestsInv /\ InStep
<1>1. Init => Inv
  <2> SUFFICES ASSUME Init PROVE Inv
    OBVIOUS
  <2>1. Created
    BY DEF Init, Created, Named, Current
  <2>2. LinkInv
    BY DEF Init, LinkInv, DialledBefore, Dialled, OneConnection, Offline
  <2> QED BY <2>1, <2>2, InitTypes, InitRequests, InitInStep
<1>2. Inv /\ [Next]_vars => Inv'
  BY StepKeepsTypes, StepKeepsCreated, StepKeepsLink, StepKeepsRequests, StepKeepsInStep
<1>3. Inv => ViewMatchesCursor
  BY CurrentStreams DEF InStep, HeldInv, ViewMatchesCursor
<1> QED BY <1>1, <1>2, <1>3, PTL DEF Spec

-----------------------------------------------------------------------------
(* What the stream owes its consumers.                                     *)

Links     == {"connected", "disconnected"}
OrderNews == {"snapshot", "unit"}

Untold(c) == /\ ~consumer[c].caughtUp /\ consumer[c].state = "pending"
             /\ consumer[c].view = NoView /\ consumer[c].stale = "no"
Promised(s, c) == \E i \in DOMAIN micro : micro[i] = Task("catchUp", s, {c})

\* A consumer joins one stream once, and is caught up once.
JoinInv ==
    /\ \A c \in Consumers : consumer[c].s = NoStream => Untold(c)
    /\ \A s \in Streams : \A c \in stream[s].consumers :
          /\ IsCurrent(s) /\ consumer[c].s = s
          /\ consumer[c].caughtUp \/ (Untold(c) /\ Promised(s, c))
TasksInv ==
    \A i \in DOMAIN micro : micro[i].do = "catchUp" => \A c \in micro[i].c :
        /\ consumer[c].s = micro[i].s /\ ~consumer[c].caughtUp
        /\ \A j \in DOMAIN micro : micro[j].do = "catchUp" /\ c \in micro[j].c => i = j

\* A stream is blank until it is given a channel, and no job is about a blank one.
About(j) == {j.s} \cup (IF j.do \in {"terminateAll", "reportAll"} THEN j.left ELSE {})
HasChannel(s) == s # NoStream => stream[s].channel # NoChannel
BlankInv ==
    /\ \A s \in Streams : stream[s].channel = NoChannel => stream[s] = NewStream
    /\ \A j \in Due : \A s \in About(j) : HasChannel(s)

\* Events are delivered one at a time, except that a consumer is caught up with several.
ToldLate == {"connected", "snapshot", "stale"}
TurnShape ==
    \/ /\ \A i \in DOMAIN turn : turn[i].do = "deliver" /\ turn[i].ev.type \in ToldLate
       /\ \A i, j \in DOMAIN turn : turn[i].ev.type = turn[j].ev.type => i = j
       /\ \A i, j \in DOMAIN turn : i < j => turn[i].left \subseteq turn[j].left
    \/ \A i \in DOMAIN turn : i > 1 => turn[i].do \notin {"deliver", "call"}

\* An event says what its stream has come to, and is news to those it is delivered to.
TrueTo(s, ev) ==
    /\ ev.type \in Links => ev.type = stream[s].state
    /\ ev.type = "snapshot" => ev.view = stream[s].orders
    /\ ev.type = "stale" => ev.stale = stream[s].stale
NewsTo(s, c, ev) ==
    /\ ev.type \in Links => consumer[c].state # ev.type
    /\ ev.type = "unit" => consumer[c].view # NoView /\ stream[s].orders = Apply(consumer[c].view, ev.pos)
CallsTrue ==
    \A j \in Due :
        /\ j.do = "deliver" /\ IsCurrent(j.s) =>
              /\ TrueTo(j.s, j.ev)
              /\ \A c \in stream[j.s].consumers : c \in j.left /\ consumer[c].caughtUp => NewsTo(j.s, c, j.ev)
        /\ j.do = "call" =>
              /\ ~IsCurrent(j.s) /\ j.ev.type = "disconnected"
              /\ \A c \in j.left : consumer[c].s = j.s /\ consumer[c].state # "disconnected"

\* A consumer knows what its stream knows, or is about to be told.
Owed(s, c, types) == \E j \in Due : j.do = "deliver" /\ j.s = s /\ c \in j.left /\ j.ev.type \in types
KnowsLink(s, c) == \/ consumer[c].state = stream[s].state
                   \/ consumer[c].state = "pending" /\ stream[s].state = "disconnected"
ToldAll ==
    \A s \in Current : \A c \in stream[s].consumers : consumer[c].caughtUp =>
        /\ KnowsLink(s, c) \/ Owed(s, c, Links)
        /\ consumer[c].view = stream[s].orders \/ Owed(s, c, OrderNews)
        /\ consumer[c].stale = stream[s].stale \/ Owed(s, c, {"stale"})

TellInv  == TurnShape /\ CallsTrue /\ ToldAll
AgreeInv == JoinInv /\ TasksInv /\ BlankInv /\ TellInv

-----------------------------------------------------------------------------
(* The turn: the job that runs, and those that come later.                 *)

Later    == {turn[i] : i \in DOMAIN turn \ {1}}
Mute(js) == \A j \in js : j.do \notin {"deliver", "call"}

LEMMA TurnParts ==
    ASSUME TypeOK, turn # <<>>
    PROVE  /\ Due = {Head(turn)} \cup Later /\ Due \subseteq Jobs
           /\ Head(turn) = turn[1] /\ 1 \in DOMAIN turn
           /\ Len(turn) \in Nat /\ DOMAIN turn = 1 .. Len(turn)
<1>1. /\ turn \in Seq(Jobs) /\ Len(turn) \in Nat /\ Len(turn) # 0
      /\ DOMAIN turn = 1 .. Len(turn) /\ Head(turn) = turn[1]
  BY EmptySeq, LenProperties DEF TypeOK
<1>2. \A i \in DOMAIN turn : turn[i] \in Jobs
  BY <1>1, ElementOfSeq
<1> QED BY <1>1, <1>2 DEF Due, Later

LEMMA PushParts ==
    ASSUME TypeOK, turn # <<>>, NEW jobs \in Seq(Jobs), Push(jobs)
    PROVE  /\ Due' = {jobs[i] : i \in DOMAIN jobs} \cup Later
           /\ Len(jobs) \in Nat /\ DOMAIN turn' = 1 .. (Len(jobs) + (Len(turn) - 1))
           /\ \A i \in 1 .. Len(jobs) : turn'[i] = jobs[i]
           /\ \A i \in DOMAIN turn' : i > Len(jobs) =>
                 /\ i - Len(jobs) + 1 \in DOMAIN turn \ {1}
                 /\ turn'[i] = turn[i - Len(jobs) + 1]
<1>1. /\ turn \in Seq(Jobs) /\ Len(turn) \in Nat /\ Len(turn) # 0
      /\ Tail(turn) \in Seq(Jobs) /\ Len(Tail(turn)) = Len(turn) - 1
      /\ \A i \in 1 .. (Len(turn) - 1) : Tail(turn)[i] = turn[i + 1]
      /\ DOMAIN turn = 1 .. Len(turn)
  BY HeadTailProperties, EmptySeq, LenProperties DEF TypeOK
<1> DEFINE rest == Tail(turn)
<1>2. /\ Len(jobs) \in Nat /\ DOMAIN jobs = 1 .. Len(jobs)
      /\ turn' = jobs \o rest /\ DOMAIN (jobs \o rest) = 1 .. (Len(jobs) + Len(rest))
      /\ \A i \in 1 .. Len(jobs) : (jobs \o rest)[i] = jobs[i]
      /\ \A i \in (Len(jobs) + 1) .. (Len(jobs) + Len(rest)) : (jobs \o rest)[i] = rest[i - Len(jobs)]
  BY <1>1, ConcatProperties, LenProperties DEF Push
<1>3. DOMAIN turn' = 1 .. (Len(jobs) + (Len(turn) - 1)) /\ \A i \in 1 .. Len(jobs) : turn'[i] = jobs[i]
  BY <1>1, <1>2
<1>4. ASSUME NEW i \in DOMAIN turn', i > Len(jobs)
      PROVE  i - Len(jobs) + 1 \in DOMAIN turn \ {1} /\ turn'[i] = turn[i - Len(jobs) + 1]
  <2>1. i \in (Len(jobs) + 1) .. (Len(jobs) + Len(rest)) /\ i - Len(jobs) \in 1 .. (Len(turn) - 1)
    BY <1>1, <1>2, <1>3, <1>4
  <2> QED BY <1>1, <1>2, <2>1
<1>5. ASSUME NEW i \in DOMAIN turn, i # 1
      PROVE  turn[i] \in Due'
  <2> DEFINE k == Len(jobs) + (i - 1)
  <2>1. k \in DOMAIN turn' /\ k > Len(jobs) /\ k - Len(jobs) + 1 = i
    BY <1>1, <1>2, <1>3, <1>5
  <2>2. turn'[k] = turn[i]
    BY <1>4, <2>1
  <2> QED BY <2>1, <2>2 DEF Due
<1>6. Due' \subseteq {jobs[i] : i \in DOMAIN jobs} \cup Later
  <2> SUFFICES ASSUME NEW i \in DOMAIN turn' PROVE turn'[i] \in {jobs[k] : k \in DOMAIN jobs} \cup Later
    BY DEF Due
  <2>1. CASE i > Len(jobs)
    BY <1>4, <2>1 DEF Later
  <2>2. CASE ~(i > Len(jobs))
    BY <1>2, <1>3, <2>2
  <2> QED BY <2>1, <2>2
<1>7. {jobs[i] : i \in DOMAIN jobs} \cup Later \subseteq Due'
  <2>1. \A i \in DOMAIN jobs : jobs[i] \in Due'
    BY <1>1, <1>2, <1>3 DEF Due
  <2> QED BY <1>5, <2>1 DEF Later
<1> QED BY <1>2, <1>3, <1>4, <1>6, <1>7

\* Behind an event that is delivered there is nothing of its kind; behind
\* anything else, nothing is delivered.
LEMMA ShapeParts ==
    ASSUME TypeOK, turn # <<>>, TurnShape
    PROVE  /\ \A j \in Later : j.do # "call"
           /\ Head(turn).do # "deliver" => Mute(Later)
           /\ \A j \in Later : j.do = "deliver" =>
                 /\ {j.ev.type, Head(turn).ev.type} \subseteq ToldLate
                 /\ j.ev.type # Head(turn).ev.type
BY TurnParts DEF TurnShape, Later, Mute

LEMMA ShapeKept ==
    ASSUME TypeOK, turn # <<>>, TurnShape, NEW jobs \in Seq(Jobs), Push(jobs),
           \/ jobs = <<>>
           \/ \E job : /\ jobs = <<job>> /\ job.do = Head(turn).do /\ job.ev = Head(turn).ev
                       /\ job.left \subseteq Head(turn).left
           \/ Head(turn).do # "deliver" /\ \A i \in DOMAIN jobs : i > 1 => jobs[i].do \notin {"deliver", "call"}
    PROVE  TurnShape'
<1>1. /\ Len(jobs) \in Nat /\ DOMAIN jobs = 1 .. Len(jobs) /\ Len(turn) \in Nat /\ Len(turn) # 0
      /\ DOMAIN turn = 1 .. Len(turn) /\ Head(turn) = turn[1]
  BY TurnParts, LenProperties, EmptySeq
<1>2. /\ DOMAIN turn' = 1 .. (Len(jobs) + (Len(turn) - 1))
      /\ \A i \in 1 .. Len(jobs) : turn'[i] = jobs[i]
      /\ \A i \in DOMAIN turn' : i > Len(jobs) =>
            i - Len(jobs) + 1 \in DOMAIN turn \ {1} /\ turn'[i] = turn[i - Len(jobs) + 1]
  BY PushParts
<1>3. CASE Head(turn).do # "deliver" /\ \A i \in DOMAIN jobs : i > 1 => jobs[i].do \notin {"deliver", "call"}
  <2>1. \A i \in DOMAIN turn : i > 1 => turn[i].do \notin {"deliver", "call"}
    BY <1>1, <1>3 DEF TurnShape
  <2>2. ASSUME NEW i \in DOMAIN turn', i > 1
        PROVE  turn'[i].do \notin {"deliver", "call"}
    <3>1. CASE i > Len(jobs)
      <4>1. i - Len(jobs) + 1 \in DOMAIN turn /\ i - Len(jobs) + 1 > 1 /\ turn'[i] = turn[i - Len(jobs) + 1]
        BY <1>1, <1>2, <3>1
      <4> QED BY <2>1, <4>1
    <3>2. CASE ~(i > Len(jobs))
      BY <1>1, <1>2, <1>3, <2>2, <3>2
    <3> QED BY <3>1, <3>2
  <2> QED BY <2>2 DEF TurnShape
<1>4. CASE jobs = <<>>
  <2>1. Len(jobs) = 0
    BY <1>4
  <2>2. \A i \in DOMAIN turn' : i + 1 \in DOMAIN turn /\ i + 1 > 1 /\ turn'[i] = turn[i + 1] /\ i \in Nat
    BY <1>1, <1>2, <2>1
  <2>3. CASE \A i \in DOMAIN turn : i > 1 => turn[i].do \notin {"deliver", "call"}
    BY <2>2, <2>3 DEF TurnShape
  <2>4. CASE /\ \A i \in DOMAIN turn : turn[i].do = "deliver" /\ turn[i].ev.type \in ToldLate
             /\ \A i, j \in DOMAIN turn : turn[i].ev.type = turn[j].ev.type => i = j
             /\ \A i, j \in DOMAIN turn : i < j => turn[i].left \subseteq turn[j].left
    <3>1. \A i, j \in DOMAIN turn' : turn'[i].ev.type = turn'[j].ev.type => i = j
      <4> SUFFICES ASSUME NEW i \in DOMAIN turn', NEW j \in DOMAIN turn', turn'[i].ev.type = turn'[j].ev.type
                   PROVE  i = j
        OBVIOUS
      <4>1. i + 1 = j + 1
        BY <2>2, <2>4
      <4> QED BY <2>2, <4>1
    <3>2. \A i, j \in DOMAIN turn' : i < j => turn'[i].left \subseteq turn'[j].left
      <4> SUFFICES ASSUME NEW i \in DOMAIN turn', NEW j \in DOMAIN turn', i < j
                   PROVE  turn'[i].left \subseteq turn'[j].left
        OBVIOUS
      <4>1. i + 1 < j + 1
        BY <2>2
      <4> QED BY <2>2, <2>4, <4>1
    <3> QED BY <2>2, <2>4, <3>1, <3>2 DEF TurnShape
  <2> QED BY <2>3, <2>4 DEF TurnShape
<1>5. ASSUME NEW job, jobs = <<job>>, job.do = Head(turn).do, job.ev = Head(turn).ev,
             job.left \subseteq Head(turn).left
      PROVE  TurnShape'
  <2>1. Len(jobs) = 1 /\ jobs[1] = job
    BY <1>5
  <2>2. /\ DOMAIN turn' = DOMAIN turn
        /\ \A i \in DOMAIN turn : /\ turn'[i].do = turn[i].do /\ turn'[i].ev = turn[i].ev
                                 /\ turn'[i].left \subseteq turn[i].left /\ (i > 1 => turn'[i] = turn[i])
    <3>1. DOMAIN turn' = 1 .. Len(turn)
      BY <1>1, <1>2, <2>1
    <3>2. ASSUME NEW i \in DOMAIN turn
          PROVE  /\ turn'[i].do = turn[i].do /\ turn'[i].ev = turn[i].ev
                 /\ turn'[i].left \subseteq turn[i].left /\ (i > 1 => turn'[i] = turn[i])
      <4>1. CASE i = 1
        BY <1>1, <1>2, <1>5, <2>1, <4>1
      <4>2. CASE i # 1
        <5>1. i > Len(jobs) /\ i - Len(jobs) + 1 = i
          BY <1>1, <2>1, <4>2
        <5> QED BY <1>1, <1>2, <3>1, <5>1
      <4> QED BY <4>1, <4>2
    <3> QED BY <1>1, <3>1, <3>2
  <2>3. ASSUME NEW i \in DOMAIN turn, NEW j \in DOMAIN turn, i < j, turn[i].left \subseteq turn[j].left
        PROVE  turn'[i].left \subseteq turn'[j].left
    <3>1. j > 1
      BY <1>1, <2>3
    <3> QED BY <2>2, <2>3, <3>1
  <2> QED BY <2>2, <2>3 DEF TurnShape
<1> QED BY <1>3, <1>4, <1>5

-----------------------------------------------------------------------------
(* What a step changes for the consumers.                                  *)

MicroGrows == UNCHANGED micro \/ \E task \in Tasks : task.c = {} /\ micro' = Append(micro, task)

LEMMA Grown ==
    ASSUME TypeOK, NEW task \in Tasks, micro' = Append(micro, task)
    PROVE  /\ Len(micro) + 1 \notin DOMAIN micro
           /\ DOMAIN micro' = DOMAIN micro \cup {Len(micro) + 1} /\ micro'[Len(micro) + 1] = task
           /\ \A i \in DOMAIN micro : micro'[i] = micro[i]
<1>1. /\ micro \in Seq(Tasks) /\ Len(micro) \in Nat /\ DOMAIN micro = 1 .. Len(micro)
      /\ DOMAIN micro' = 1 .. (Len(micro) + 1) /\ micro'[Len(micro) + 1] = task
      /\ \A i \in 1 .. Len(micro) : micro'[i] = micro[i]
  BY AppendProperties, LenProperties DEF TypeOK
<1> QED BY <1>1

LEMMA Shrunk ==
    ASSUME TypeOK, micro # <<>>, micro' = Tail(micro)
    PROVE  /\ Head(micro) = micro[1] /\ 1 \in DOMAIN micro /\ Head(micro) \in Tasks
           /\ \A i \in DOMAIN micro' : i \in Nat /\ i + 1 \in DOMAIN micro /\ i + 1 # 1 /\ micro'[i] = micro[i + 1]
           /\ \A i \in DOMAIN micro : i # 1 => i - 1 \in DOMAIN micro' /\ micro'[i - 1] = micro[i]
<1>1. /\ micro \in Seq(Tasks) /\ Len(micro) \in Nat /\ DOMAIN micro = 1 .. Len(micro) /\ Head(micro) = micro[1]
      /\ DOMAIN micro' = 1 .. (Len(micro) - 1) /\ Len(micro) # 0 /\ Head(micro) \in Tasks
      /\ \A i \in 1 .. (Len(micro) - 1) : micro'[i] = micro[i + 1]
  BY HeadTailProperties, EmptySeq, LenProperties DEF TypeOK
<1> QED BY <1>1

\* Consumers leave; streams only come to an end without consumers.
LEMMA JoinStays ==
    ASSUME TypeOK, JoinInv, consumer' = consumer,
           \A i \in DOMAIN micro : micro[i].do = "catchUp" => \E k \in DOMAIN micro' : micro'[k] = micro[i],
           \A s \in Streams : stream'[s].consumers = {} \/
              /\ stream'[s].consumers \subseteq stream[s].consumers
              /\ IsCurrent(s) => IsCurrent(s)'
    PROVE  JoinInv'
<1>1. \A s, c : Promised(s, c) => Promised(s, c)'
  BY DEF Promised, Task
<1>2. \A c : Untold(c) => Untold(c)'
  BY DEF Untold
<1> QED BY <1>1, <1>2 DEF JoinInv

LEMMA TasksStay ==
    ASSUME TypeOK, TasksInv, consumer' = consumer, MicroGrows
    PROVE  /\ TasksInv'
           /\ \A i \in DOMAIN micro : micro[i].do = "catchUp" => \E k \in DOMAIN micro' : micro'[k] = micro[i]
<1>1. CASE UNCHANGED micro
  BY <1>1 DEF TasksInv
<1>2. ASSUME NEW task \in Tasks, task.c = {}, micro' = Append(micro, task)
      PROVE  /\ TasksInv'
             /\ \A i \in DOMAIN micro : micro[i].do = "catchUp" => \E k \in DOMAIN micro' : micro'[k] = micro[i]
  BY <1>2, Grown DEF TasksInv
<1> QED BY <1>1, <1>2 DEF MicroGrows

\* The head of the queue is taken off; it may have caught somebody up.
LEMMA TasksGo ==
    ASSUME TypeOK, TasksInv, micro # <<>>, micro' = Tail(micro),
           \A d \in Consumers : \/ consumer'[d] = consumer[d]
                                \/ /\ Head(micro).do = "catchUp" /\ d \in Head(micro).c
                                   /\ consumer'[d].s = consumer[d].s
    PROVE  /\ TasksInv'
           /\ \A i \in DOMAIN micro : micro[i] = Head(micro) \/ \E k \in DOMAIN micro' : micro'[k] = micro[i]
<1>1. ASSUME NEW i \in DOMAIN micro', micro'[i].do = "catchUp", NEW c \in micro'[i].c
      PROVE  /\ consumer'[c].s = micro'[i].s /\ ~consumer'[c].caughtUp
             /\ \A j \in DOMAIN micro' : micro'[j].do = "catchUp" /\ c \in micro'[j].c => i = j
  <2>1. /\ \A j \in DOMAIN micro' : j \in Nat /\ j + 1 \in DOMAIN micro /\ j + 1 # 1 /\ micro'[j] = micro[j + 1]
        /\ Head(micro) = micro[1] /\ 1 \in DOMAIN micro
    BY Shrunk
  <2>2. /\ consumer[c].s = micro[i + 1].s /\ ~consumer[c].caughtUp
        /\ \A j \in DOMAIN micro : micro[j].do = "catchUp" /\ c \in micro[j].c => i + 1 = j
    BY <1>1, <2>1 DEF TasksInv
  <2>3. ASSUME NEW j \in DOMAIN micro', micro'[j].do = "catchUp", c \in micro'[j].c
        PROVE  i = j
    <3>1. i + 1 = j + 1
      BY <2>1, <2>2, <2>3
    <3> QED BY <2>1, <3>1
  <2>4. consumer'[c] = consumer[c]
    <3>1. ~(Head(micro).do = "catchUp" /\ c \in Head(micro).c)
      BY <2>1, <2>2
    <3>2. c \in Consumers
      <4>1. micro[i + 1] \in Tasks
        BY <2>1, LenProperties, ElementOfSeq DEF TypeOK
      <4> QED BY <1>1, <2>1, <4>1 DEF Tasks
    <3> QED BY <3>1, <3>2
  <2> QED BY <2>1, <2>2, <2>3, <2>4
<1> QED BY <1>1, Shrunk DEF TasksInv

JobsKnown ==
    /\ Due \subseteq Jobs
    /\ \A j \in Due : About(j) \subseteq Streams \cup {NoStream}
    /\ \A j \in Due : j.do \in {"deliver", "call"} => j.s \in Streams /\ j.ev \in Events /\ j.left \subseteq Consumers

LEMMA DueFields == TypeOK => JobsKnown
<1> SUFFICES ASSUME TypeOK PROVE JobsKnown
  OBVIOUS
<1>1. Due \subseteq Jobs
  <2>1. turn \in Seq(Jobs)
    BY DEF TypeOK
  <2>2. DOMAIN turn = 1 .. Len(turn) /\ \A i \in DOMAIN turn : turn[i] \in Jobs
    BY <2>1, LenProperties, ElementOfSeq
  <2> QED BY <2>2 DEF Due
<1>2. \A j \in Jobs : About(j) \subseteq Streams \cup {NoStream}
  BY DEF About, Jobs, CallJobs, StreamJobs, ClientJobs
<1> QED BY <1>1, <1>2, JobFields DEF JobsKnown

LEMMA DueFieldsNext == TypeOK' => JobsKnown'
BY DueFields, PTL

\* A stream keeps its channel and its consumers; a blank one is left alone.
Steady(s) == /\ stream'[s].channel = stream[s].channel
             /\ stream'[s].consumers = stream[s].consumers
             /\ stream[s].channel # NoChannel \/ stream'[s] = stream[s]

\* No stream changes its channel; jobs are about streams that have one.
LEMMA BlankStays ==
    ASSUME TypeOK, TypeOK', BlankInv,
           \A s \in Streams : \/ stream'[s] = stream[s]
                              \/ stream[s].channel # NoChannel /\ stream'[s].channel = stream[s].channel,
           \A j \in Due' : j \in Due \/ \A s \in About(j) : HasChannel(s)
    PROVE  BlankInv'
<1>1. \A s \in Streams : stream'[s].channel = stream[s].channel
  OBVIOUS
<1>2. \A j \in Due' : About(j) \subseteq Streams \cup {NoStream}
  BY DueFieldsNext DEF JobsKnown, About
<1>3. ASSUME NEW j \in Due', NEW s \in About(j)
      PROVE  HasChannel(s)'
  <2>1. HasChannel(s) /\ s \in Streams \cup {NoStream}
    BY <1>2, <1>3 DEF BlankInv
  <2> QED BY <1>1, <2>1 DEF HasChannel
<1>4. \A s \in Streams : stream'[s].channel = NoChannel => stream'[s] = NewStream
  BY DEF BlankInv
<1>5. NewStream' = NewStream
  BY DEF NewStream
<1>6. \A j \in Due' : \A s \in About(j) : HasChannel(s)'
  BY <1>3
<1> QED BY <1>4, <1>5, <1>6 DEF BlankInv, About

-----------------------------------------------------------------------------
(* What a step tells the consumers.                                        *)

\* Nobody is to be told anything: everyone knows.
Agreed == \A s \in Current : \A c \in stream[s].consumers : consumer[c].caughtUp =>
             /\ KnowsLink(s, c)
             /\ consumer[c].view = stream[s].orders
             /\ consumer[c].stale = stream[s].stale

LEMMA MuteAgrees == ToldAll /\ Mute(Due) => Agreed
BY DEF ToldAll, Mute, Agreed, Owed

\* A stream is shown as before, maybe to fewer consumers.
Looks(s) == /\ stream'[s].consumers \subseteq stream[s].consumers
            /\ stream'[s].orders = stream[s].orders /\ stream'[s].state = stream[s].state
            /\ stream'[s].stale = stream[s].stale
Looked   == consumer' = consumer /\ \A s \in Current' : s \in Current /\ Looks(s)

\* Nothing is told.
LEMMA SilentTells ==
    ASSUME Agreed, Looked, Mute(Due')
    PROVE  TellInv'
<1>1. TurnShape'
  BY DEF TurnShape, Mute, Due
<1>2. CallsTrue'
  BY DEF CallsTrue, Mute
<1>3. ToldAll'
  BY DEF ToldAll, Agreed, Looked, Looks, KnowsLink
<1> QED BY <1>1, <1>2, <1>3 DEF TellInv

\* A call from inside a turn changes nothing of what the turn tells.
LEMMA SameTurnTells ==
    ASSUME TypeOK, TellInv, Looked, turn' = turn
    PROVE  TellInv'
<1>1. Due' = Due
  BY DEF Due
<1>2. TurnShape'
  BY DEF TurnShape, TellInv
<1>3. \A s \in Current' : \A ev : TrueTo(s, ev) => TrueTo(s, ev)'
  BY DEF TrueTo, Looked, Looks
<1>4. \A s \in Current' : \A c, ev : NewsTo(s, c, ev) => NewsTo(s, c, ev)'
  BY DEF NewsTo, Looked, Looks
<1>5. CallsTrue'
  <2>1. ASSUME NEW j \in Due, j.do = "deliver", IsCurrent(j.s)'
        PROVE  /\ TrueTo(j.s, j.ev)'
               /\ \A c \in stream'[j.s].consumers : c \in j.left /\ consumer'[c].caughtUp => NewsTo(j.s, c, j.ev)'
    <3>1. j.s \in Current' /\ IsCurrent(j.s) /\ stream'[j.s].consumers \subseteq stream[j.s].consumers
      BY <2>1 DEF IsCurrent, Looked, Looks
    <3>2. TrueTo(j.s, j.ev) /\ \A c \in stream[j.s].consumers : c \in j.left /\ consumer[c].caughtUp => NewsTo(j.s, c, j.ev)
      BY <2>1, <3>1 DEF CallsTrue, TellInv
    <3> QED BY <1>3, <1>4, <3>1, <3>2 DEF Looked
  <2>2. \A j \in Due : j.do = "call" => /\ ~IsCurrent(j.s)' /\ j.ev.type = "disconnected"
                                        /\ \A c \in j.left : consumer'[c].s = j.s /\ consumer'[c].state # "disconnected"
    BY DEF CallsTrue, TellInv, Looked, IsCurrent
  <2> QED BY <1>1, <2>1, <2>2 DEF CallsTrue
<1>6. \A s, c, types : Owed(s, c, types) => Owed(s, c, types)'
  BY <1>1 DEF Owed
<1>7. \A s \in Current' : \A c : KnowsLink(s, c) => KnowsLink(s, c)'
  BY DEF KnowsLink, Looked, Looks
<1>8. ToldAll'
  BY <1>6, <1>7 DEF ToldAll, TellInv, Looked, Looks
<1> QED BY <1>2, <1>5, <1>8 DEF TellInv

\* One event of one stream is delivered to all its consumers.
Changed(s, ev) ==
    /\ ev.type \in Links => stream[s].state # ev.type /\ stream'[s].state = ev.type
    /\ ev.type \notin Links => stream'[s].state = stream[s].state
    /\ ev.type = "snapshot" => ev.view = stream'[s].orders
    /\ ev.type = "unit" => stream[s].orders # NoView /\ stream'[s].orders = Apply(stream[s].orders, ev.pos)
    /\ ev.type \notin OrderNews => stream'[s].orders = stream[s].orders
    /\ ev.type = "stale" => stream'[s].stale = ev.stale
    /\ ev.type # "stale" => stream'[s].stale = stream[s].stale
Delivers(s, ev) ==
    /\ turn' # <<>> /\ turn'[1] = Deliver(s, ev)
    /\ \A i \in DOMAIN turn' : i # 1 => turn'[i].do \notin {"deliver", "call"}

LEMMA DeliverTells ==
    ASSUME TypeOK, TypeOK', Agreed, consumer' = consumer, subs' = subs, NEW s \in Streams, IsCurrent(s), NEW ev \in Events,
           Delivers(s, ev), Changed(s, ev), stream'[s].consumers = stream[s].consumers,
           \A t \in Streams \ {s} : Looks(t)
    PROVE  TellInv'
<1>0. Current' = Current /\ Current \subseteq Streams
  BY SameCurrent, CurrentStreams
<1>1. turn' \in Seq(Jobs) /\ DOMAIN turn' = 1 .. Len(turn') /\ Len(turn') \in Nat /\ 1 \in DOMAIN turn'
  BY LenProperties, EmptySeq DEF TypeOK, Delivers
<1>2. TurnShape'
  BY <1>1 DEF TurnShape, Delivers
<1>3. \A j \in Due' : j = Deliver(s, ev) \/ j.do \notin {"deliver", "call"}
  BY DEF Due, Delivers
<1>4. Deliver(s, ev) \in Due'
  BY <1>1 DEF Due, Delivers
<1>5. LET j == Deliver(s, ev) IN j.do = "deliver" /\ j.s = s /\ j.ev = ev /\ j.left = Consumers
  BY DEF Deliver, Job
<1>6. TrueTo(s, ev)'
  BY DEF TrueTo, Changed, Links
<1>7. ASSUME NEW c \in stream[s].consumers, consumer[c].caughtUp
      PROVE  NewsTo(s, c, ev)'
  <2>1. KnowsLink(s, c) /\ consumer[c].view = stream[s].orders
    BY <1>7 DEF Agreed, IsCurrent
  <2> QED BY <2>1 DEF NewsTo, Changed, KnowsLink, Links
<1>8. CallsTrue'
  BY <1>3, <1>5, <1>6, <1>7 DEF CallsTrue
<1>9. ASSUME NEW t \in Current', NEW c \in stream'[t].consumers, consumer'[c].caughtUp
      PROVE  /\ KnowsLink(t, c)' \/ Owed(t, c, Links)'
             /\ consumer'[c].view = stream'[t].orders \/ Owed(t, c, OrderNews)'
             /\ consumer'[c].stale = stream'[t].stale \/ Owed(t, c, {"stale"})'
  <2>1. t \in Streams /\ c \in Consumers
    BY <1>0 DEF TypeOK, StreamObject
  <2>2. CASE t # s
    BY <1>0, <1>9, <2>1, <2>2 DEF Agreed, Looks, KnowsLink
  <2>3. CASE t = s
    <3>1. KnowsLink(s, c) /\ consumer[c].view = stream[s].orders /\ consumer[c].stale = stream[s].stale
      BY <1>9, <2>3 DEF Agreed, IsCurrent
    <3>2. \A types : ev.type \in types => Owed(t, c, types)'
      BY <1>4, <1>5, <2>1, <2>3 DEF Owed
    <3> QED BY <2>3, <3>1, <3>2 DEF Changed, KnowsLink
  <2> QED BY <2>2, <2>3
<1>10. ToldAll'
  BY <1>9 DEF ToldAll
<1> QED BY <1>2, <1>8, <1>10 DEF TellInv

-----------------------------------------------------------------------------
(* The calls of a turn.                                                    *)

LEMMA ToldFields ==
    ASSUME NEW h \in Held, NEW ev \in Events
    PROVE  LET n == Told(h, ev)
           IN  /\ n.s = h.s /\ n.caughtUp = h.caughtUp
               /\ ev.type \in Links => n.state = ev.type /\ n.view = h.view /\ n.stale = h.stale
               /\ ev.type = "snapshot" => n.state = h.state /\ n.view = ev.view /\ n.stale = h.stale
               /\ ev.type = "unit" => /\ n.state = h.state /\ n.stale = h.stale
                                      /\ h.view # NoView => n.view = Apply(h.view, ev.pos)
               /\ ev.type = "stale" => n.state = h.state /\ n.view = h.view /\ n.stale = ev.stale
               /\ ev.type \in Links \cup OrderNews \cup {"stale"}
<1>1. ev.type \in Links \cup OrderNews \cup {"stale"}
  BY DEF Events, Links, OrderNews
<1>2. CASE ev.type \in Links
  BY <1>1, <1>2 DEF Told, Held, Links, OrderNews
<1>3. CASE ev.type = "snapshot"
  BY <1>1, <1>3 DEF Told, Held, Links, OrderNews
<1>4. CASE ev.type = "unit"
  BY <1>1, <1>4 DEF Told, Held, Links, OrderNews
<1>5. CASE ev.type = "stale"
  BY <1>1, <1>5 DEF Told, Held, Links, OrderNews
<1> QED BY <1>1, <1>2, <1>3, <1>4, <1>5 DEF OrderNews

LEMMA ToldJoins ==
    ASSUME TypeOK, JoinInv, TasksInv, UNCHANGED <<subs, stream, micro>>, NEW c \in Consumers, NEW h,
           consumer' = [consumer EXCEPT ![c] = h], h.s = consumer[c].s, h.caughtUp = consumer[c].caughtUp,
           consumer[c].s # NoStream, consumer[c].caughtUp \/ \A s \in Streams : c \notin stream[s].consumers
    PROVE  JoinInv' /\ TasksInv'
<1>1. /\ \A d \in Consumers : d # c => consumer'[d] = consumer[d]
      /\ consumer'[c] = h /\ Current' = Current
      /\ \A d \in Consumers : consumer'[d].s = consumer[d].s /\ consumer'[d].caughtUp = consumer[d].caughtUp
  BY SameCurrent DEF TypeOK
<1>2. \A d \in Consumers : d # c /\ Untold(d) => Untold(d)'
  BY <1>1 DEF Untold
<1>3. \A s, d : Promised(s, d) => Promised(s, d)'
  BY DEF Promised
<1>4. \A s \in Streams : stream[s].consumers \subseteq Consumers
  BY DEF TypeOK, StreamObject
<1>5. JoinInv'
  <2>1. \A d \in Consumers : consumer'[d].s = NoStream => Untold(d)'
    BY <1>1, <1>2 DEF JoinInv
  <2>2. ASSUME NEW s \in Streams, NEW d \in stream[s].consumers
        PROVE  /\ IsCurrent(s)' /\ consumer'[d].s = s
               /\ consumer'[d].caughtUp \/ (Untold(d)' /\ Promised(s, d)')
    <3>1. /\ IsCurrent(s) /\ consumer[d].s = s /\ d \in Consumers
          /\ consumer[d].caughtUp \/ (Untold(d) /\ Promised(s, d))
      BY <1>4 DEF JoinInv
    <3> QED BY <1>1, <1>2, <1>3, <3>1 DEF IsCurrent
  <2> QED BY <2>1, <2>2 DEF JoinInv
<1>6. TasksInv'
  <2>1. \A i \in DOMAIN micro : micro[i].c \subseteq Consumers
    <3>1. micro \in Seq(Tasks) /\ \A t \in Tasks : t.c \subseteq Consumers
      BY DEF TypeOK, Tasks
    <3> QED BY <3>1, LenProperties, ElementOfSeq
  <2> QED BY <1>1, <2>1 DEF TasksInv
<1> QED BY <1>5, <1>6

LEMMA CallConsumerAgrees ==
    ASSUME TypeOK, TypeOK', AgreeInv, CallConsumer
    PROVE  AgreeInv'
<1> DEFINE job == Head(turn)
<1>1. PICK c \in Callable(job) :
        /\ Push(<<[job EXCEPT !.left = @ \ {c}, !.called = TRUE]>>)
        /\ consumer' = IF job.do = "report" THEN consumer ELSE [consumer EXCEPT ![c] = Told(@, job.ev)]
  BY DEF CallConsumer
<1> DEFINE next == [job EXCEPT !.left = @ \ {c}, !.called = TRUE]
<1>2. /\ turn # <<>> /\ UNCHANGED <<subs, stream, micro>> /\ Current' = Current
  BY SameCurrent DEF CallConsumer, core
<1>3. /\ job.do \in {"deliver", "report", "call"} /\ c \in job.left
      /\ job.do \in {"deliver", "report"} => c \in stream[job.s].consumers
      /\ job.do = "deliver" => consumer[c].caughtUp
  BY DEF Callable, Attached
<1>4. /\ job \in CallJobs /\ job.s \in Streams /\ job.ev \in Events /\ job.left \subseteq Consumers
      /\ consumer[c] \in Held
  <2>1. job \in CallJobs /\ job.s \in Streams /\ job.ev \in Events /\ job.left \subseteq Consumers
    BY <1>2, <1>3, TurnType, JobFields
  <2> QED BY <1>3, <2>1 DEF TypeOK
<1>5. /\ next \in Jobs /\ next.do = job.do /\ next.s = job.s /\ next.ev = job.ev /\ next.left = job.left \ {c}
  BY <1>4 DEF CallJobs, Jobs
<1>6. Due' = {next} \cup Later /\ Due = {job} \cup Later
  <2>1. <<next>> \in Seq(Jobs) /\ DOMAIN <<next>> = {1} /\ <<next>>[1] = next
    BY <1>5
  <2> HIDE DEF next
  <2>2. Due' = {<<next>>[i] : i \in DOMAIN <<next>>} \cup Later
    BY <1>1, <1>2, <2>1, PushParts DEF next
  <2> QED BY <1>2, <2>1, <2>2, TurnParts
<1>7. TurnShape'
  <2>1. <<next>> \in Seq(Jobs) /\ Push(<<next>>)
    BY <1>1, <1>5
  <2> HIDE DEF next
  <2>2. \E j : /\ <<next>> = <<j>> /\ j.do = Head(turn).do /\ j.ev = Head(turn).ev
              /\ j.left \subseteq Head(turn).left
    BY <1>5
  <2> QED BY <1>2, <2>1, <2>2, ShapeKept DEF AgreeInv, TellInv
<1>8. BlankInv'
  <2>1. job.do \notin {"terminateAll", "reportAll"}
    BY <1>3
  <2>2. \A j \in Due' : j \in Due \/ About(j) = About(job)
    BY <1>5, <1>6, <2>1 DEF About
  <2> HIDE DEF job
  <2>3. \A j \in Due' : j \in Due \/ \A s \in About(j) : HasChannel(s)
    BY <1>6, <2>2 DEF AgreeInv, BlankInv
  <2> QED BY <1>2, <2>3, BlankStays DEF AgreeInv
<1>9. /\ \A j \in Later : j.do # "call"
      /\ job.do # "deliver" => Mute(Later)
      /\ \A j \in Later : j.do = "deliver" =>
            {j.ev.type, job.ev.type} \subseteq ToldLate /\ j.ev.type # job.ev.type
  BY <1>2, ShapeParts DEF AgreeInv, TellInv
<1> HIDE DEF job, next
<1>10. CASE job.do = "report"
  <2>1. Mute(Due) /\ Mute(Due')
    BY <1>5, <1>6, <1>9, <1>10 DEF Mute
  <2>2. Looked
    BY <1>1, <1>2, <1>10 DEF Looked, Looks
  <2>3. TellInv'
    BY <2>1, <2>2, MuteAgrees, SilentTells DEF AgreeInv, TellInv
  <2>4. JoinInv' /\ TasksInv'
    <3>1. consumer' = consumer
      BY <1>1, <1>10
    <3>2. \A s \in Streams : IsCurrent(s)' <=> IsCurrent(s)
      BY <1>2 DEF IsCurrent
    <3> QED BY <1>2, <3>1, <3>2, JoinStays, TasksStay DEF AgreeInv, MicroGrows
  <2> QED BY <1>8, <2>3, <2>4 DEF AgreeInv
<1> DEFINE h == Told(consumer[c], job.ev)
<1>11. /\ h.s = consumer[c].s /\ h.caughtUp = consumer[c].caughtUp
       /\ job.ev.type \in Links => h.state = job.ev.type /\ h.view = consumer[c].view /\ h.stale = consumer[c].stale
       /\ job.ev.type = "snapshot" => h.state = consumer[c].state /\ h.view = job.ev.view /\ h.stale = consumer[c].stale
       /\ job.ev.type = "unit" => /\ h.state = consumer[c].state /\ h.stale = consumer[c].stale
                                  /\ consumer[c].view # NoView => h.view = Apply(consumer[c].view, job.ev.pos)
       /\ job.ev.type = "stale" => h.state = consumer[c].state /\ h.view = consumer[c].view /\ h.stale = job.ev.stale
       /\ job.ev.type \in Links \cup OrderNews \cup {"stale"}
  BY <1>4, ToldFields
<1> HIDE DEF h
<1>12. c \in Consumers /\ (job.do # "report" => consumer' = [consumer EXCEPT ![c] = h])
  BY <1>1, <1>3, <1>4 DEF h
<1>13. job.do # "report" =>
          consumer'[c] = h /\ \A d \in Consumers : d # c => consumer'[d] = consumer[d]
  BY <1>12 DEF TypeOK
<1>14. \A s \in Streams : stream[s].consumers \subseteq Consumers
  BY DEF TypeOK, StreamObject
<1>15. job.s \in Streams /\ job.s # NoStream
  BY <1>4, SentinelAssumption
<1>16. CASE job.do = "call"
  <2>1. /\ ~IsCurrent(job.s) /\ job.ev.type = "disconnected" /\ consumer[c].s = job.s
        /\ \A d \in job.left : consumer[d].s = job.s /\ consumer[d].state # "disconnected"
    BY <1>3, <1>6, <1>16 DEF AgreeInv, TellInv, CallsTrue
  <2>2. \A s \in Streams : c \notin stream[s].consumers
    BY <2>1 DEF AgreeInv, JoinInv
  <2>3. JoinInv' /\ TasksInv'
    BY <1>2, <1>11, <1>12, <1>15, <1>16, <2>1, <2>2, ToldJoins DEF AgreeInv
  <2>4. Mute(Later)
    BY <1>9, <1>16
  <2>5. CallsTrue'
    <3>1. \A j \in Due' : j.do \notin {"deliver", "call"} \/ j = next
      BY <1>6, <2>4 DEF Mute
    <3>2. \A d \in next.left : d \in Consumers /\ d # c /\ d \in job.left
      BY <1>4, <1>5
    <3>3. ASSUME NEW j \in Due', j.do \in {"deliver", "call"}
          PROVE  /\ j.do = "call" /\ ~IsCurrent(j.s)' /\ j.ev.type = "disconnected"
                 /\ \A d \in j.left : consumer'[d].s = j.s /\ consumer'[d].state # "disconnected"
      <4>1. j = next
        BY <3>1, <3>3
      <4>2. ~(j.s \in Current') /\ j.do = "call" /\ j.ev.type = "disconnected"
        BY <1>2, <1>5, <1>16, <2>1, <4>1 DEF IsCurrent
      <4>3. \A d \in j.left : consumer'[d].s = j.s /\ consumer'[d].state # "disconnected"
        BY <1>5, <1>13, <1>16, <2>1, <3>2, <4>1
      <4> QED BY <4>2, <4>3 DEF IsCurrent
    <3> QED BY <3>3 DEF CallsTrue
  <2>6. ToldAll'
    <3>1. \A s, d, types : ~Owed(s, d, types)
      BY <1>6, <1>16, <2>4 DEF Owed, Mute
    <3>2. ASSUME NEW s \in Current, NEW d \in stream[s].consumers, consumer'[d].caughtUp
          PROVE  KnowsLink(s, d)' /\ consumer'[d].view = stream[s].orders /\ consumer'[d].stale = stream[s].stale
      <4>1. s \in Streams /\ d # c /\ consumer'[d] = consumer[d]
        BY <1>13, <1>14, <1>16, <2>2, CurrentStreams
      <4> QED BY <1>2, <3>1, <3>2, <4>1 DEF AgreeInv, TellInv, ToldAll, KnowsLink
    <3> QED BY <1>2, <3>2 DEF ToldAll
  <2> QED BY <1>7, <1>8, <2>3, <2>5, <2>6 DEF AgreeInv, TellInv
<1>17. CASE job.do = "deliver"
  <2>1. IsCurrent(job.s) /\ consumer[c].s = job.s /\ consumer[c].caughtUp /\ c \in stream[job.s].consumers
    BY <1>3, <1>4, <1>17 DEF AgreeInv, JoinInv
  <2>2. JoinInv' /\ TasksInv'
    BY <1>2, <1>11, <1>12, <1>15, <1>17, <2>1, ToldJoins DEF AgreeInv
  <2>3. TrueTo(job.s, job.ev) /\ NewsTo(job.s, c, job.ev)
    BY <1>3, <1>6, <1>17, <2>1 DEF AgreeInv, TellInv, CallsTrue
  <2>4. \A s, ev : TrueTo(s, ev)' <=> TrueTo(s, ev)
    BY <1>2 DEF TrueTo
  <2>5. \A s, ev, d : d \in Consumers /\ d # c => (NewsTo(s, d, ev)' <=> NewsTo(s, d, ev))
    BY <1>2, <1>13, <1>17 DEF NewsTo
  <2>6. \A j \in Later : j.do = "deliver" /\ NewsTo(j.s, c, j.ev) => NewsTo(j.s, c, j.ev)'
    BY <1>2, <1>9, <1>11, <1>13, <1>17 DEF NewsTo, ToldLate, Links, OrderNews
  <2>7. CallsTrue'
    <3>1. ASSUME NEW j \in Due', j.do = "deliver", IsCurrent(j.s)', NEW d \in stream'[j.s].consumers,
                 d \in j.left, consumer'[d].caughtUp
          PROVE  NewsTo(j.s, d, j.ev)'
      <4>1. j.s \in Streams /\ d \in Consumers /\ consumer[d].caughtUp /\ IsCurrent(j.s)
        <5>1. j.s \in Streams
          BY <3>1, DueFieldsNext DEF JobsKnown
        <5>2. d \in Consumers
          BY <1>2, <1>14, <3>1, <5>1
        <5> QED BY <1>2, <1>11, <1>13, <1>17, <3>1, <5>1, <5>2 DEF IsCurrent
      <4>2. CASE j \in Later
        <5>1. NewsTo(j.s, d, j.ev)
          BY <1>2, <1>6, <3>1, <4>1, <4>2 DEF AgreeInv, TellInv, CallsTrue
        <5> QED BY <2>5, <2>6, <3>1, <4>1, <4>2, <5>1
      <4>3. CASE j = next
        <5>1. d # c /\ d \in job.left
          BY <1>5, <3>1, <4>3
        <5>2. NewsTo(job.s, d, job.ev)
          BY <1>2, <1>5, <1>6, <1>17, <3>1, <4>1, <4>3, <5>1 DEF AgreeInv, TellInv, CallsTrue
        <5> QED BY <1>5, <2>5, <4>1, <4>3, <5>1, <5>2
      <4> QED BY <1>6, <4>2, <4>3
    <3>2. ASSUME NEW j \in Due', j.do = "deliver", IsCurrent(j.s)'
          PROVE  TrueTo(j.s, j.ev)'
      <4>1. CASE j \in Later
        BY <1>2, <1>6, <2>4, <3>2, <4>1 DEF AgreeInv, TellInv, CallsTrue, IsCurrent
      <4>2. CASE j = next
        BY <1>5, <2>3, <2>4, <4>2
      <4> QED BY <1>6, <4>1, <4>2
    <3>3. \A j \in Due' : j.do # "call"
      BY <1>5, <1>6, <1>9, <1>17
    <3> QED BY <3>1, <3>2, <3>3 DEF CallsTrue
  <2>8. ToldAll'
    <3> SUFFICES ASSUME NEW s \in Current', NEW d \in stream'[s].consumers, consumer'[d].caughtUp
                 PROVE  /\ KnowsLink(s, d)' \/ Owed(s, d, Links)'
                        /\ consumer'[d].view = stream'[s].orders \/ Owed(s, d, OrderNews)'
                        /\ consumer'[d].stale = stream'[s].stale \/ Owed(s, d, {"stale"})'
      BY DEF ToldAll
    <3>1. s \in Streams /\ s \in Current /\ d \in Consumers /\ d \in stream[s].consumers /\ consumer[d].caughtUp
      <4>1. s \in Streams /\ s \in Current
        BY <1>2, CurrentStreams
      <4>2. d \in Consumers
        BY <1>2, <1>14, <4>1
      <4> QED BY <1>2, <1>11, <1>13, <1>17, <4>1, <4>2
    <3>2. /\ KnowsLink(s, d) \/ Owed(s, d, Links)
          /\ consumer[d].view = stream[s].orders \/ Owed(s, d, OrderNews)
          /\ consumer[d].stale = stream[s].stale \/ Owed(s, d, {"stale"})
      BY <3>1 DEF AgreeInv, TellInv, ToldAll
    <3>3. \A types : Owed(s, d, types) /\ (d # c \/ job.ev.type \notin types) => Owed(s, d, types)'
      BY <1>5, <1>6 DEF Owed
    <3>4. CASE d # c
      BY <1>2, <1>13, <1>17, <3>1, <3>2, <3>3, <3>4 DEF KnowsLink
    <3>5. CASE d = c
      <4>1. s = job.s
        BY <2>1, <3>1, <3>5 DEF AgreeInv, JoinInv
      <4>2. CASE job.ev.type \in Links
        BY <1>2, <1>11, <1>13, <1>17, <2>3, <3>2, <3>3, <3>5, <4>1, <4>2 DEF TrueTo, KnowsLink, Links, OrderNews
      <4>3. CASE job.ev.type \in OrderNews
        BY <1>2, <1>11, <1>13, <1>17, <2>3, <3>2, <3>3, <3>5, <4>1, <4>3
           DEF TrueTo, NewsTo, KnowsLink, Links, OrderNews
      <4>4. CASE job.ev.type = "stale"
        BY <1>2, <1>11, <1>13, <1>17, <2>3, <3>2, <3>3, <3>5, <4>1, <4>4 DEF TrueTo, KnowsLink, Links, OrderNews
      <4> QED BY <1>11, <4>2, <4>3, <4>4
    <3> QED BY <3>4, <3>5
  <2> QED BY <1>7, <1>8, <2>2, <2>7, <2>8 DEF AgreeInv, TellInv
<1> QED BY <1>3, <1>10, <1>16, <1>17

-----------------------------------------------------------------------------
(* Steps that tell nothing, and steps that deliver one event.              *)

\* The jobs of the next turn are about streams that have a channel.
JobsPlaced == \A j \in Due' : j \in Due \/ \A s \in About(j) : HasChannel(s)

LEMMA SteadyJoins ==
    ASSUME TypeOK, TypeOK', JoinInv, TasksInv, BlankInv, UNCHANGED <<subs, consumer>>, MicroGrows, JobsPlaced,
           \A s \in Streams : Steady(s)
    PROVE  JoinInv' /\ TasksInv' /\ BlankInv'
<1>1. \A s \in Streams : IsCurrent(s)' <=> IsCurrent(s)
  BY SameCurrent DEF IsCurrent
<1>2. TasksInv' /\ \A i \in DOMAIN micro : micro[i].do = "catchUp" => \E k \in DOMAIN micro' : micro'[k] = micro[i]
  BY TasksStay
<1>3. JoinInv'
  BY <1>1, <1>2, JoinStays DEF Steady
<1>4. BlankInv'
  BY BlankStays DEF Steady, JobsPlaced
<1> QED BY <1>2, <1>3, <1>4

\* Nobody joins, leaves or is called.
Continues == Mute(Due) /\ UNCHANGED <<subs, consumer>> /\ \A s \in Streams : Steady(s)
CarriesOn      == AgreeInv' /\ Continues

LEMMA QuietAgrees ==
    ASSUME TypeOK, TypeOK', AgreeInv, Mute(Due), UNCHANGED <<subs, consumer>>, MicroGrows,
           \A s \in Streams : Steady(s) /\ Looks(s), Mute(Due'), JobsPlaced
    PROVE  CarriesOn
<1>1. Looked
  BY SameCurrent, CurrentStreams DEF Looked
<1> QED BY <1>1, MuteAgrees, SilentTells, SteadyJoins DEF AgreeInv, TellInv, CarriesOn, Continues

LEMMA DeliverAgrees ==
    ASSUME TypeOK, TypeOK', AgreeInv, Mute(Due), UNCHANGED <<subs, consumer>>, MicroGrows,
           \A s \in Streams : Steady(s), JobsPlaced,
           NEW s \in Streams, IsCurrent(s), NEW ev \in Events, Delivers(s, ev), Changed(s, ev),
           \A t \in Streams \ {s} : Looks(t)
    PROVE  CarriesOn
BY MuteAgrees, DeliverTells, SteadyJoins DEF AgreeInv, TellInv, Steady, CarriesOn, Continues

LEMMA MutePush ==
    ASSUME TypeOK, turn # <<>>, TurnShape, Head(turn).do \notin {"deliver", "call"},
           NEW jobs \in Seq(Jobs), Push(jobs)
    PROVE  /\ Mute(Due) /\ \A j \in Due' : j \in Due \/ j \in {jobs[i] : i \in DOMAIN jobs}
           /\ (\A i \in DOMAIN jobs : jobs[i].do \notin {"deliver", "call"}) => Mute(Due')
           /\ \A s, ev : /\ jobs # <<>> /\ jobs[1] = Deliver(s, ev)
                         /\ \A i \in DOMAIN jobs : i # 1 => jobs[i].do \notin {"deliver", "call"}
                         => Delivers(s, ev)
<1>1. /\ Due = {Head(turn)} \cup Later /\ Due' = {jobs[i] : i \in DOMAIN jobs} \cup Later
      /\ Len(jobs) \in Nat /\ DOMAIN jobs = 1 .. Len(jobs) /\ Len(turn) \in Nat /\ Len(turn) # 0
      /\ DOMAIN turn' = 1 .. (Len(jobs) + (Len(turn) - 1))
      /\ \A i \in 1 .. Len(jobs) : turn'[i] = jobs[i]
      /\ \A i \in DOMAIN turn' : i > Len(jobs) =>
            i - Len(jobs) + 1 \in DOMAIN turn \ {1} /\ turn'[i] = turn[i - Len(jobs) + 1]
  BY TurnParts, PushParts, LenProperties, EmptySeq
<1>2. Mute(Later)
  BY ShapeParts
<1>3. Mute(Due) /\ ((\A i \in DOMAIN jobs : jobs[i].do \notin {"deliver", "call"}) => Mute(Due'))
  BY <1>1, <1>2 DEF Mute
<1>4. ASSUME NEW s, NEW ev, jobs # <<>>, jobs[1] = Deliver(s, ev),
             \A i \in DOMAIN jobs : i # 1 => jobs[i].do \notin {"deliver", "call"}
      PROVE  Delivers(s, ev)
  <2>1. Len(jobs) # 0
    BY <1>4, EmptySeq
  <2>2. ASSUME NEW i \in DOMAIN turn', i # 1
        PROVE  turn'[i].do \notin {"deliver", "call"}
    <3>1. CASE i > Len(jobs)
      BY <1>1, <1>2, <3>1 DEF Mute, Later
    <3>2. CASE ~(i > Len(jobs))
      BY <1>1, <1>4, <2>2, <3>2
    <3> QED BY <3>1, <3>2
  <2>3. turn' # <<>> /\ turn'[1] = jobs[1]
    <3>1. 1 \in DOMAIN turn' /\ 1 \in 1 .. Len(jobs)
      BY <1>1, <2>1
    <3> QED BY <1>1, <3>1
  <2> QED BY <1>4, <2>2, <2>3 DEF Delivers
<1> QED BY <1>1, <1>3, <1>4

LEMMA CallsDoneAgrees ==
    ASSUME TypeOK, TypeOK', AgreeInv, CallsDone
    PROVE  AgreeInv'
<1> DEFINE job == Head(turn)
<1>1. /\ turn # <<>> /\ Push(<<>>) /\ UNCHANGED <<subs, stream, micro, consumer>>
      /\ job.do \in {"deliver", "report", "call"} /\ Callable(job) = {}
  BY DEF CallsDone, core, Pop
<1>2. Current' = Current /\ <<>> \in Seq(Jobs) /\ DOMAIN <<>> = {}
  BY <1>1, SameCurrent, EmptySeq
<1>3. Due' = Later /\ Due = {job} \cup Later
  BY <1>1, <1>2, TurnParts, PushParts
<1>4. TurnShape'
  BY <1>1, <1>2, ShapeKept DEF AgreeInv, TellInv
<1>5. /\ Looked /\ MicroGrows /\ JobsPlaced /\ \A s \in Streams : Steady(s) /\ Looks(s)
  <2>1. \A s \in Streams : Steady(s) /\ Looks(s)
    BY <1>1 DEF Steady, Looks
  <2> QED BY <1>1, <1>2, <1>3, <2>1, CurrentStreams DEF Looked, MicroGrows, JobsPlaced
<1>6. JoinInv' /\ TasksInv' /\ BlankInv'
  BY <1>1, <1>5, SteadyJoins DEF AgreeInv
<1> HIDE DEF job
<1>7. CallsTrue'
  <2>1. \A s, ev : TrueTo(s, ev)' <=> TrueTo(s, ev)
    BY <1>1 DEF TrueTo
  <2>2. \A s, c, ev : NewsTo(s, c, ev)' <=> NewsTo(s, c, ev)
    BY <1>1 DEF NewsTo
  <2>3. \A s : IsCurrent(s)' <=> IsCurrent(s)
    BY <1>2 DEF IsCurrent
  <2> QED BY <1>1, <1>3, <2>1, <2>2, <2>3 DEF AgreeInv, TellInv, CallsTrue
<1>8. ToldAll'
  <2>1. ASSUME NEW s \in Current, NEW c \in stream[s].consumers, consumer[c].caughtUp, NEW types, Owed(s, c, types)
        PROVE  Owed(s, c, types)'
    <3>1. PICK j \in Due : j.do = "deliver" /\ j.s = s /\ c \in j.left /\ j.ev.type \in types
      BY <2>1 DEF Owed
    <3>2. j # job
      BY <1>1, <2>1, <3>1 DEF Callable, Attached
    <3> QED BY <1>3, <3>1, <3>2 DEF Owed
  <2>2. \A s, c : KnowsLink(s, c)' <=> KnowsLink(s, c)
    BY <1>1 DEF KnowsLink
  <2> QED BY <1>1, <1>2, <2>1, <2>2 DEF AgreeInv, TellInv, ToldAll
<1> QED BY <1>4, <1>6, <1>7, <1>8 DEF AgreeInv, TellInv

LEMMA JobKinds ==
    /\ \A do, s, ev, left : LET j == Job(do, s, ev, left)
                            IN  j.do = do /\ j.s = s /\ j.ev = ev /\ j.left = left
    /\ \A do, s : Step(do, s).do = do /\ Step(do, s).s = s
    /\ \A s : Report(s).do = "report" /\ Report(s).s = s
    /\ \A s, ev : /\ Deliver(s, ev).do = "deliver" /\ Deliver(s, ev).s = s /\ Deliver(s, ev).ev = ev
                  /\ Deliver(s, ev).left = Consumers
    /\ \A do : Every(do).do = do /\ Every(do).s = NoStream /\ Every(do).left = Current
BY DEF Job, Step, Report, Deliver, Every

\* Jobs about streams that have a channel.
PlacedJobs(jobs) == \A i \in DOMAIN jobs : \A s \in About(jobs[i]) : HasChannel(s)
MuteJobs(jobs)   == \A i \in DOMAIN jobs : jobs[i].do \notin {"deliver", "call"}

LEMMA PushQuiet ==
    ASSUME TypeOK, TypeOK', AgreeInv, turn # <<>>, Head(turn).do \notin {"deliver", "call"},
           UNCHANGED <<subs, consumer, micro>>, \A s \in Streams : Steady(s) /\ Looks(s),
           NEW jobs \in Seq(Jobs), Push(jobs), PlacedJobs(jobs), MuteJobs(jobs)
    PROVE  CarriesOn
<1>1. Mute(Due) /\ Mute(Due') /\ \A j \in Due' : j \in Due \/ j \in {jobs[i] : i \in DOMAIN jobs}
  BY MutePush DEF AgreeInv, TellInv, MuteJobs
<1>2. JobsPlaced
  BY <1>1 DEF JobsPlaced, PlacedJobs
<1> QED BY <1>1, <1>2, QuietAgrees DEF MicroGrows

LEMMA PushDeliver ==
    ASSUME TypeOK, TypeOK', AgreeInv, turn # <<>>, Head(turn).do \notin {"deliver", "call"},
           UNCHANGED <<subs, consumer, micro>>, \A t \in Streams : Steady(t),
           NEW s \in Streams, IsCurrent(s), NEW ev \in Events, Changed(s, ev), \A t \in Streams \ {s} : Looks(t),
           NEW jobs \in Seq(Jobs), Push(jobs), PlacedJobs(jobs), jobs # <<>>, jobs[1] = Deliver(s, ev),
           \A i \in DOMAIN jobs : i # 1 => jobs[i].do \notin {"deliver", "call"}
    PROVE  CarriesOn
<1>1. /\ Mute(Due) /\ Delivers(s, ev)
      /\ \A j \in Due' : j \in Due \/ j \in {jobs[i] : i \in DOMAIN jobs}
  BY MutePush DEF AgreeInv, TellInv
<1>2. JobsPlaced
  BY <1>1 DEF JobsPlaced, PlacedJobs
<1> QED BY <1>1, <1>2, DeliverAgrees DEF MicroGrows

LEMMA OneOrTwo ==
    /\ DOMAIN <<>> = {}
    /\ \A a : DOMAIN <<a>> = {1} /\ <<a>>[1] = a /\ <<a>> # <<>>
    /\ \A a, b : DOMAIN <<a, b>> = {1, 2} /\ <<a, b>>[1] = a /\ <<a, b>>[2] = b /\ <<a, b>> # <<>>
OBVIOUS

LEMMA FewJobs ==
    /\ PlacedJobs(<<>>) /\ MuteJobs(<<>>)
    /\ \A j : /\ (\A s \in About(j) : HasChannel(s)) => PlacedJobs(<<j>>)
              /\ j.do \notin {"deliver", "call"} => MuteJobs(<<j>>)
    /\ \A i, j : /\ (\A s \in About(i) \cup About(j) : HasChannel(s)) => PlacedJobs(<<i, j>>)
                 /\ i.do \notin {"deliver", "call"} /\ j.do \notin {"deliver", "call"} => MuteJobs(<<i, j>>)
BY OneOrTwo DEF PlacedJobs, MuteJobs

LEMMA CurrentPlaced ==
    ASSUME TypeOK, RequestsInv
    PROVE  \A s \in Current : HasChannel(s) /\ s \in Streams /\ s # NoStream /\ stream[s].channel # NoChannel
BY OwnNames, CurrentStreams, SentinelAssumption DEF IsCurrent, HasChannel

LEMMA NextStreamAgrees ==
    ASSUME TypeOK, TypeOK', RequestsInv, AgreeInv, NextStream
    PROVE  CarriesOn
<1> DEFINE job == Head(turn)
           rest(s) == [job EXCEPT !.left = @ \ {s}]
<1>1. /\ turn # <<>> /\ UNCHANGED <<subs, micro, consumer>> /\ job \in Jobs /\ job \in Due
      /\ \A s \in About(job) : HasChannel(s)
  <2>1. turn # <<>> /\ UNCHANGED <<subs, micro, consumer>>
    BY DEF NextStream
  <2>2. job \in Due
    BY <2>1, TurnParts
  <2> QED BY <2>1, <2>2, TurnType DEF AgreeInv, BlankInv
<1>2. CASE /\ job.do \in {"terminateAll", "reportAll"} /\ UNCHANGED stream
           /\ \/ \E s \in job.left :
                    Push(<<IF job.do = "reportAll" THEN Report(s) ELSE Step("terminate", s), rest(s)>>)
              \/ Pop
  <2>1. \A s \in Streams : Steady(s) /\ Looks(s)
    BY <1>2 DEF Steady, Looks
  <2>2. CASE Pop
    <3>1. <<>> \in Seq(Jobs)
      BY EmptySeq
    <3> QED BY <1>1, <1>2, <2>1, <2>2, <3>1, FewJobs, PushQuiet DEF Pop
  <2>3. ASSUME NEW s \in job.left,
               Push(<<IF job.do = "reportAll" THEN Report(s) ELSE Step("terminate", s), rest(s)>>)
        PROVE  CarriesOn
    <3> DEFINE one == IF job.do = "reportAll" THEN Report(s) ELSE Step("terminate", s)
               two == rest(s)
    <3>1. job.left \in SUBSET Streams /\ job \in ClientJobs
      BY <1>1, <1>2, JobFields
    <3>2. s \in Streams /\ one \in Jobs /\ one.do \in {"report", "terminate"} /\ one.s = s
      <4>1. s \in Streams
        BY <2>3, <3>1
      <4> QED BY <4>1, ClientJobTypes, JobTypes, EventTypes, JobKinds
    <3>3. two \in Jobs /\ two.do = job.do /\ two.s = job.s /\ two.left \subseteq job.left
      BY <1>2, <3>1 DEF ClientJobs, Jobs
    <3>4. About(one) = {s} /\ About(two) \subseteq About(job) /\ s \in About(job)
      BY <1>2, <2>3, <3>2, <3>3 DEF About
    <3> HIDE DEF one, two, job
    <3>5. PlacedJobs(<<one, two>>) /\ MuteJobs(<<one, two>>)
      BY <1>1, <1>2, <3>2, <3>3, <3>4, FewJobs
    <3>6. <<one, two>> \in Seq(Jobs) /\ Push(<<one, two>>)
      BY <2>3, <3>2, <3>3, ShortSeqs DEF one, two
    <3> QED BY <1>1, <1>2, <2>1, <3>5, <3>6, PushQuiet DEF job
  <2> QED BY <1>2, <2>2, <2>3
<1>3. ASSUME job.do = "closed", NEW s \in {t \in Current : stream[t].state = "connected"},
             stream' = [stream EXCEPT ![s].state = "disconnected"],
             Push(<<Deliver(s, Link("disconnected")), job>>)
      PROVE  CarriesOn
  <2> DEFINE ev == Link("disconnected")
             one == Deliver(s, ev)
  <2>1. s \in Streams /\ IsCurrent(s) /\ HasChannel(s) /\ stream[s].channel # NoChannel /\ stream[s].state = "connected"
    BY <1>3, CurrentPlaced DEF IsCurrent
  <2>2. /\ ev \in Events /\ ev.type = "disconnected" /\ one \in Jobs
        /\ one.do = "deliver" /\ one.s = s
    BY <2>1, EventTypes, JobTypes, JobKinds DEF Link, Event
  <2>3. \A t \in Streams : Steady(t) /\ (t # s => Looks(t))
    BY <1>3, <2>1 DEF Steady, Looks, TypeOK, StreamObject
  <2>4. Changed(s, ev)
    BY <1>3, <2>1, <2>2 DEF Changed, Links, OrderNews, TypeOK, StreamObject
  <2>5. About(one) = {s}
    BY <2>2 DEF About
  <2> HIDE DEF ev
  <2>6. Push(<<one, job>>)
    BY <1>3 DEF ev
  <2> HIDE DEF one, job
  <2>7. <<one, job>> \in Seq(Jobs) /\ PlacedJobs(<<one, job>>)
    BY <1>1, <2>1, <2>2, <2>5, ShortSeqs, FewJobs
  <2>8. /\ <<one, job>> # <<>> /\ <<one, job>>[1] = Deliver(s, ev)
        /\ \A i \in DOMAIN <<one, job>> : i # 1 => <<one, job>>[i].do \notin {"deliver", "call"}
    BY <1>3, OneOrTwo DEF one
  <2>9. Head(turn).do \notin {"deliver", "call"}
    BY <1>3 DEF job
  <2> QED BY <1>1, <2>1, <2>2, <2>3, <2>4, <2>6, <2>7, <2>8, <2>9, PushDeliver
<1>4. CASE job.do = "closed" /\ Pop /\ UNCHANGED stream
  <2>1. <<>> \in Seq(Jobs) /\ \A s \in Streams : Steady(s) /\ Looks(s)
    BY <1>4, EmptySeq DEF Steady, Looks
  <2> QED BY <1>1, <1>4, <2>1, FewJobs, PushQuiet DEF Pop
<1>5. \/ /\ job.do \in {"terminateAll", "reportAll"} /\ UNCHANGED stream
         /\ \/ \E s \in job.left :
                  Push(<<IF job.do = "reportAll" THEN Report(s) ELSE Step("terminate", s), rest(s)>>)
            \/ Pop
      \/ job.do = "closed" /\ \E s \in {t \in Current : stream[t].state = "connected"} :
             /\ stream' = [stream EXCEPT ![s].state = "disconnected"]
             /\ Push(<<Deliver(s, Link("disconnected")), job>>)
      \/ job.do = "closed" /\ Pop /\ UNCHANGED stream
  BY DEF NextStream
<1> HIDE DEF job
<1> QED BY <1>2, <1>3, <1>4, <1>5

\* A current stream is torn down: it has no consumers any more.
Torn(s) == /\ Current' = Current \ {s} /\ \A t \in Streams \ {s} : stream'[t] = stream[t]
           /\ stream'[s].consumers = {} /\ stream'[s].channel = stream[s].channel

LEMMA TeardownTears ==
    ASSUME TypeOK, RequestsInv, NEW s \in Streams, IsCurrent(s), NEW r \in StreamObject,
           r.channel = stream[s].channel, Teardown(s, r)
    PROVE  Torn(s)
<1>1. /\ subs' = [subs EXCEPT ![r.channel] = NoStream]
      /\ stream' = [stream EXCEPT ![s] = [r EXCEPT !.consumers = {}, !.retryTimer = 0, !.sub = 0]]
  BY DEF Teardown
<1>2. /\ stream[s].channel \in Channels /\ subs[stream[s].channel] = s
      /\ \A ch \in Channels : subs[ch] = s => ch = stream[s].channel
  BY OwnNames
<1>3. \A ch \in Channels : subs'[ch] = IF subs[ch] = s THEN NoStream ELSE subs[ch]
  BY <1>1, <1>2 DEF TypeOK
<1>4. Current' = Current \ {s}
  BY <1>3 DEF Current
<1>5. LET n == [r EXCEPT !.consumers = {}, !.retryTimer = 0, !.sub = 0]
      IN  n.consumers = {} /\ n.channel = r.channel
  BY DEF StreamObject
<1> QED BY <1>1, <1>4, <1>5 DEF Torn, TypeOK

LEMMA TornJoins ==
    ASSUME TypeOK, TypeOK', RequestsInv, JoinInv, BlankInv, NEW s \in Streams, IsCurrent(s), Torn(s), consumer' = consumer, JobsPlaced,
           \A i \in DOMAIN micro : micro[i].do = "catchUp" => \E k \in DOMAIN micro' : micro'[k] = micro[i]
    PROVE  JoinInv' /\ BlankInv' /\ Looked
<1>1. \A t \in Streams \ {s} : IsCurrent(t) => IsCurrent(t)'
  BY DEF IsCurrent, Torn
<1>2. JoinInv'
  <2>1. \A t \in Streams : stream'[t].consumers = {} \/
           (stream'[t].consumers \subseteq stream[t].consumers /\ (IsCurrent(t) => IsCurrent(t)'))
    BY <1>1 DEF Torn
  <2> QED BY <2>1, JoinStays
<1>3. BlankInv'
  <2>1. stream[s].channel # NoChannel
    BY CurrentPlaced DEF IsCurrent
  <2>2. \A t \in Streams : stream'[t] = stream[t] \/
           (stream[t].channel # NoChannel /\ stream'[t].channel = stream[t].channel)
    BY <2>1 DEF Torn
  <2> QED BY <2>2, BlankStays DEF JobsPlaced
<1>4. Looked
  BY CurrentStreams DEF Torn, Looked, Looks
<1> QED BY <1>2, <1>3, <1>4

\* A stream is terminated, and its consumers' calls are due.
Terminates == \E s \in Current :
            /\ Torn(s) /\ Mute(Due) /\ consumer' = consumer
            /\ \E j \in Due' : j.do = "call" /\ j.s = s /\ j.left = OwedClose(s)

LEMMA FinishAgrees ==
    ASSUME TypeOK, TypeOK', RequestsInv, AgreeInv, turn # <<>>, Head(turn).do = "finish",
           UNCHANGED <<micro, consumer>>, FinishTerminate(Head(turn).s)
    PROVE  CarriesOn \/ (AgreeInv' /\ Terminates)
<1> DEFINE s == Head(turn).s
           r == [stream[s] EXCEPT !.state = "disconnected"]
           ev == Link("disconnected")
           call == Job("call", s, ev, OwedClose(s))
<1>1. /\ s \in Streams /\ s # NoStream /\ Head(turn) \in Due /\ stream[s] \in StreamObject
      /\ stream[s].consumers \subseteq Consumers
  <2>1. s \in Streams
    BY TurnType, JobFields
  <2> QED BY <2>1, TurnParts, SentinelAssumption DEF TypeOK, StreamObject
<1>2. /\ r \in StreamObject /\ r.channel = stream[s].channel /\ r.consumers = stream[s].consumers
  BY <1>1 DEF StreamObject, LinkStates
<1>3. stream[s].channel # NoChannel /\ HasChannel(s)
  BY <1>1 DEF AgreeInv, BlankInv, About, HasChannel
<1>4. /\ call \in Jobs /\ call.do = "call" /\ call.s = s /\ call.ev = ev /\ call.left = OwedClose(s)
      /\ ev.type = "disconnected" /\ OwedClose(s) \subseteq stream[s].consumers
  <2>1. OwedClose(s) \subseteq stream[s].consumers
    BY DEF OwedClose
  <2> QED BY <1>1, <2>1, EventTypes, JobTypes, JobKinds DEF Link, Event
<1>5. Push(<<call>>) /\ (IF IsCurrent(s) THEN Teardown(s, r) ELSE stream' = [stream EXCEPT ![s] = r] /\ subs' = subs)
  BY DEF FinishTerminate
<1> HIDE DEF call, ev, r
<1>6. <<call>> \in Seq(Jobs) /\ DOMAIN <<call>> = {1} /\ <<call>>[1] = call
  BY <1>4, ShortSeqs
<1>7. Due' = {call} \cup Later /\ Mute(Later) /\ Mute(Due)
  <2>1. Due' = {<<call>>[i] : i \in DOMAIN <<call>>} \cup Later
    BY <1>5, <1>6, PushParts
  <2>2. Mute(Later) /\ Due = {Head(turn)} \cup Later
    BY ShapeParts, TurnParts DEF AgreeInv, TellInv
  <2> QED BY <1>6, <2>1, <2>2 DEF Mute
<1>8. TurnShape'
  <2>1. \A i \in DOMAIN <<call>> : i > 1 => <<call>>[i].do \notin {"deliver", "call"}
    BY <1>6
  <2> QED BY <1>5, <1>6, <2>1, ShapeKept DEF AgreeInv, TellInv
<1>9. JobsPlaced
  <2>1. About(call) = {s}
    BY <1>4 DEF About
  <2>2. Later \subseteq Due
    BY TurnParts
  <2> QED BY <1>3, <1>7, <2>1, <2>2 DEF JobsPlaced
<1>10. Agreed
  BY <1>7, MuteAgrees DEF AgreeInv, TellInv
<1>11. \A c \in OwedClose(s) : IsCurrent(s) /\ consumer[c].s = s /\ consumer[c].state # "disconnected"
  <2> SUFFICES ASSUME NEW c \in OwedClose(s)
               PROVE  IsCurrent(s) /\ consumer[c].s = s /\ consumer[c].state # "disconnected"
    OBVIOUS
  <2>1. /\ c \in stream[s].consumers /\ (~consumer[c].caughtUp \/ stream[s].state # "disconnected")
    BY DEF OwedClose
  <2>2. IsCurrent(s) /\ consumer[c].s = s /\ (consumer[c].caughtUp \/ Untold(c))
    BY <1>1, <2>1 DEF AgreeInv, JoinInv
  <2>3. CASE Untold(c)
    BY <2>2, <2>3 DEF Untold
  <2>4. CASE consumer[c].caughtUp
    <3>1. KnowsLink(s, c)
      BY <1>10, <2>1, <2>2, <2>4 DEF Agreed, IsCurrent
    <3> QED BY <2>1, <2>2, <2>4, <3>1 DEF KnowsLink
  <2> QED BY <2>2, <2>3, <2>4
<1> HIDE DEF s
<1>12. ASSUME s \notin Current', Looked
       PROVE  TellInv'
  <2>1. CallsTrue'
    <3> SUFFICES ASSUME NEW j \in Due', j.do \in {"deliver", "call"}
                 PROVE  /\ j.do = "call" /\ j.s \notin Current' /\ j.ev.type = "disconnected"
                        /\ \A c \in j.left : consumer'[c].s = j.s /\ consumer'[c].state # "disconnected"
      BY DEF CallsTrue, IsCurrent
    <3>1. j = call
      BY <1>7 DEF Mute
    <3>2. /\ j.do = "call" /\ j.s = s /\ j.ev.type = "disconnected"
          /\ \A c \in j.left : consumer[c].s = j.s /\ consumer[c].state # "disconnected"
      BY <1>4, <1>11, <3>1
    <3> QED BY <1>12, <3>2 DEF Looked
  <2>2. ToldAll'
    BY <1>10, <1>12 DEF ToldAll, Agreed, Looked, Looks, KnowsLink
  <2> QED BY <1>8, <2>1, <2>2 DEF TellInv
<1>13. TasksInv' /\ \A i \in DOMAIN micro : micro[i].do = "catchUp" => \E k \in DOMAIN micro' : micro'[k] = micro[i]
  BY TasksStay DEF AgreeInv, MicroGrows
<1>14. CASE IsCurrent(s)
  <2>1. Torn(s)
    BY <1>1, <1>2, <1>5, <1>14, TeardownTears
  <2>2. JoinInv' /\ BlankInv' /\ Looked
    BY <1>1, <1>9, <1>13, <1>14, <2>1, TornJoins DEF AgreeInv
  <2>3. ~(s \in Current')
    BY <2>1 DEF Torn
  <2>4. AgreeInv'
    BY <1>12, <1>13, <2>2, <2>3 DEF AgreeInv
  <2>5. Terminates
    BY <1>4, <1>7, <1>14, <2>1 DEF Terminates, IsCurrent
  <2> QED BY <2>4, <2>5
<1>15. CASE ~IsCurrent(s)
  <2>1. /\ subs' = subs /\ Current' = Current /\ stream'[s] = r
        /\ \A t \in Streams : t # s => stream'[t] = stream[t]
    BY <1>1, <1>5, <1>15, SameCurrent DEF TypeOK
  <2>2. \A t \in Streams : Steady(t)
    BY <1>2, <1>3, <2>1 DEF Steady
  <2>3. JoinInv' /\ TasksInv' /\ BlankInv'
    BY <1>9, <2>1, <2>2, SteadyJoins DEF AgreeInv, MicroGrows
  <2>4. Looked
    BY <1>15, <2>1, CurrentStreams DEF Looked, Looks, IsCurrent
  <2>5. ~(s \in Current')
    BY <1>15, <2>1 DEF IsCurrent
  <2>6. AgreeInv'
    BY <1>12, <2>3, <2>4, <2>5 DEF AgreeInv
  <2> QED BY <1>7, <2>1, <2>2, <2>6 DEF CarriesOn, Continues
<1> QED BY <1>14, <1>15

LEMMA ResumeAgrees ==
    ASSUME TypeOK, TypeOK', RequestsInv, AgreeInv, Resume
    PROVE  CarriesOn \/ (AgreeInv' /\ Terminates)
<1> DEFINE job == Head(turn)
           s == job.s
<1>1. turn # <<>> /\ UNCHANGED <<micro, consumer>> /\ <<>> \in Seq(Jobs) /\ job \in Jobs
  BY TurnType, EmptySeq DEF Resume
<1>2. \A t \in About(job) : HasChannel(t)
  <2>1. job \in Due
    BY <1>1, TurnParts
  <2> QED BY <2>1 DEF AgreeInv, BlankInv
<1>3. CASE job.do = "terminate" /\ UNCHANGED core /\ (Push(<<Report(s), Step("finish", s)>>) \/ Pop)
  <2> DEFINE one == Report(s)
             two == Step("finish", s)
  <2>1. s \in Streams
    BY <1>1, <1>3, JobFields
  <2>2. one \in Jobs /\ two \in Jobs /\ one.do = "report" /\ two.do = "finish" /\ one.s = s /\ two.s = s
    BY <2>1, ClientJobTypes, JobTypes, EventTypes, JobKinds
  <2>3. About(one) = {s} /\ About(two) = {s} /\ s \in About(job)
    BY <2>2 DEF About
  <2>4. Push(<<one, two>>) \/ Pop
    BY <1>3
  <2>5. \A t \in Streams : Steady(t) /\ Looks(t)
    BY <1>3 DEF core, Steady, Looks
  <2>6. Head(turn).do \notin {"deliver", "call"} /\ subs' = subs
    BY <1>3 DEF core
  <2> HIDE DEF one, two
  <2>7. <<one, two>> \in Seq(Jobs) /\ PlacedJobs(<<one, two>>) /\ MuteJobs(<<one, two>>)
    BY <1>2, <2>2, <2>3, ShortSeqs, FewJobs
  <2> QED BY <1>1, <2>4, <2>5, <2>6, <2>7, FewJobs, PushQuiet DEF Pop
<1>4. CASE job.do = "finish" /\ FinishTerminate(s)
  BY <1>1, <1>4, FinishAgrees
<1>5. CASE /\ job.do = "unstale" /\ stream[s].stale = "no" /\ Pop
           /\ stream' = [stream EXCEPT ![s].stale = "no"] /\ subs' = subs
  <2>1. s \in Streams /\ s # NoStream
    BY <1>1, <1>5, JobFields, SentinelAssumption
  <2>2. stream[s].channel # NoChannel
    BY <1>2, <2>1 DEF About, HasChannel
  <2>3. \A t \in Streams : Steady(t) /\ Looks(t)
    BY <1>5, <2>1, <2>2 DEF Steady, Looks, TypeOK, StreamObject
  <2> QED BY <1>1, <1>5, <2>3, FewJobs, PushQuiet DEF Pop
<1>6. CASE /\ job.do = "unstale" /\ Push(<<Deliver(s, Stale("no"))>>)
           /\ stream' = [stream EXCEPT ![s].stale = "no"] /\ subs' = subs
  <2> DEFINE ev == Stale("no")
             one == Deliver(s, ev)
  <2>1. s \in Streams /\ s # NoStream /\ "no" \in Scopes
    BY <1>1, <1>6, JobFields, SentinelAssumption DEF Scopes
  <2>2. /\ ev \in Events /\ ev.type = "stale" /\ ev.stale = "no" /\ one \in Jobs /\ one.do = "deliver" /\ one.s = s
    BY <2>1, EventTypes, JobTypes, JobKinds DEF Stale, Event
  <2>3. HasChannel(s) /\ stream[s].channel # NoChannel
    BY <1>2, <2>1 DEF About, HasChannel
  <2>4. \A t \in Streams : Steady(t) /\ (t # s => Looks(t))
    BY <1>6, <2>1, <2>3 DEF Steady, Looks, TypeOK, StreamObject
  <2>5. Changed(s, ev)
    BY <1>6, <2>1, <2>2 DEF Changed, Links, OrderNews, TypeOK, StreamObject
  <2>6. About(one) = {s}
    BY <2>2 DEF About
  <2> HIDE DEF ev
  <2>7. Push(<<one>>)
    BY <1>6 DEF ev
  <2>8. one = Deliver(s, ev)
    OBVIOUS
  <2> HIDE DEF one
  <2>9. <<one>> \in Seq(Jobs) /\ PlacedJobs(<<one>>)
    BY <2>2, <2>3, <2>6, ShortSeqs, FewJobs
  <2>10. /\ <<one>> # <<>> /\ <<one>>[1] = Deliver(s, ev)
         /\ \A i \in DOMAIN <<one>> : i # 1 => <<one>>[i].do \notin {"deliver", "call"}
    BY <2>8, OneOrTwo
  <2>11. Head(turn).do \notin {"deliver", "call"}
    BY <1>6
  <2>12. CASE IsCurrent(s)
    BY <1>1, <1>6, <2>1, <2>2, <2>4, <2>5, <2>7, <2>9, <2>10, <2>11, <2>12, PushDeliver
  <2>13. CASE ~IsCurrent(s)
    <3>1. /\ Mute(Due) /\ Delivers(s, ev) /\ \A j \in Due' : j \in Due \/ j = one
      <4>1. \A j \in {<<one>>[i] : i \in DOMAIN <<one>>} : j = one
        BY OneOrTwo
      <4> QED BY <1>1, <2>7, <2>9, <2>10, <2>11, <4>1, MutePush DEF AgreeInv, TellInv
    <3>2. JobsPlaced
      BY <2>3, <2>6, <3>1 DEF JobsPlaced
    <3>3. JoinInv' /\ TasksInv' /\ BlankInv'
      BY <1>1, <1>6, <2>4, <3>2, SteadyJoins DEF AgreeInv, MicroGrows
    <3>4. Current' = Current /\ Looked
      BY <1>1, <1>6, <2>4, <2>13, SameCurrent, CurrentStreams DEF Looked, IsCurrent
    <3>5. TurnShape'
      <4>1. \A i \in DOMAIN <<one>> : i > 1 => <<one>>[i].do \notin {"deliver", "call"}
        BY OneOrTwo
      <4> QED BY <1>1, <2>7, <2>9, <2>11, <4>1, ShapeKept DEF AgreeInv, TellInv
    <3>6. CallsTrue'
      <4>1. \A j \in Due' : j = one \/ j.do \notin {"deliver", "call"}
        BY <3>1 DEF Mute
      <4>2. \A j \in Due' : j = one => j.do = "deliver" /\ ~(j.s \in Current')
        BY <2>2, <2>13, <3>4 DEF IsCurrent
      <4> QED BY <4>1, <4>2 DEF CallsTrue, IsCurrent
    <3>7. Agreed
      BY <3>1, MuteAgrees DEF AgreeInv, TellInv
    <3>8. ToldAll'
      BY <3>4, <3>7 DEF ToldAll, Agreed, Looked, Looks, KnowsLink
    <3> QED BY <1>1, <1>6, <2>4, <3>1, <3>3, <3>5, <3>6, <3>8 DEF AgreeInv, TellInv, CarriesOn, Continues
  <2> QED BY <2>12, <2>13
<1>7. ASSUME job.do = "retry", NEW sock, stream' = [stream EXCEPT ![s] = Retrying(@, sock)], Pop, subs' = subs
      PROVE  CarriesOn
  <2>1. s \in Streams /\ s # NoStream /\ stream[s] \in StreamObject
    BY <1>1, <1>7, JobFields, SentinelAssumption DEF TypeOK
  <2>2. stream[s].channel # NoChannel
    BY <1>2, <2>1 DEF About, HasChannel
  <2>3. \A t \in Streams : Steady(t) /\ Looks(t)
    BY <1>7, <2>1, <2>2 DEF Steady, Looks, Retrying, TypeOK, StreamObject
  <2> QED BY <1>1, <1>7, <2>3, FewJobs, PushQuiet DEF Pop
<1>8. CASE job.do = "schedule" /\ Pop /\ UNCHANGED <<subs, stream>>
  <2>1. \A t \in Streams : Steady(t) /\ Looks(t)
    BY <1>8 DEF Steady, Looks
  <2> QED BY <1>1, <1>8, <2>1, FewJobs, PushQuiet DEF Pop
<1>9. \/ job.do = "terminate" /\ UNCHANGED core /\ (Push(<<Report(s), Step("finish", s)>>) \/ Pop)
      \/ job.do = "finish" /\ FinishTerminate(s)
      \/ /\ job.do = "unstale" /\ (IF stream[s].stale = "no" THEN Pop ELSE Push(<<Deliver(s, Stale("no"))>>))
         /\ stream' = [stream EXCEPT ![s].stale = "no"] /\ subs' = subs
      \/ /\ job.do = "retry" /\ \E sock \in job.left : stream' = [stream EXCEPT ![s] = Retrying(@, sock)]
         /\ Pop /\ subs' = subs
      \/ job.do = "schedule" /\ Pop /\ UNCHANGED <<subs, stream>>
  BY DEF Resume
<1> HIDE DEF job, s
<1> QED BY <1>3, <1>4, <1>5, <1>6, <1>7, <1>8, <1>9

-----------------------------------------------------------------------------
(* The application.                                                        *)

\* c joins stream s, which is current or gets its channel now.
Joins(c, s) ==
    /\ consumer[c].s = NoStream /\ turn' = turn /\ Current' = Current \cup {s}
    /\ consumer'[c].s = s /\ consumer'[c].state = consumer[c].state
    /\ consumer'[c].view = consumer[c].view /\ consumer'[c].stale = consumer[c].stale
    /\ \A d \in Consumers \ {c} : consumer'[d] = consumer[d]
    /\ \A t \in Streams : /\ stream'[t].orders = stream[t].orders /\ stream'[t].state = stream[t].state
                          /\ stream'[t].stale = stream[t].stale
                          /\ stream'[t].consumers = IF t = s THEN stream[t].consumers \cup {c} ELSE stream[t].consumers
    /\ \/ s \in Current /\ ~consumer'[c].caughtUp
       \/ s \notin Current /\ stream[s] = NewStream /\ consumer'[c].caughtUp

LEMMA JoinsTells ==
    ASSUME TypeOK, AgreeInv, NEW c \in Consumers, NEW s \in Streams, Joins(c, s)
    PROVE  TellInv'
<1>1. /\ Untold(c) /\ Due' = Due /\ Current \subseteq Streams
      /\ \A t \in Streams : stream[t].consumers \subseteq Consumers /\ c \notin stream[t].consumers
  <2>1. Untold(c)
    BY DEF AgreeInv, JoinInv, Joins
  <2>2. \A t \in Streams : stream[t].consumers \subseteq Consumers /\ c \notin stream[t].consumers
    BY SentinelAssumption DEF AgreeInv, JoinInv, Joins, TypeOK, StreamObject
  <2> QED BY <2>1, <2>2, CurrentStreams DEF Due, Joins
<1>2. TurnShape'
  BY DEF TurnShape, AgreeInv, TellInv, Joins
<1>3. \A t \in Streams : \A ev : TrueTo(t, ev)' <=> TrueTo(t, ev)
  BY DEF TrueTo, Joins
<1>4. \A t \in Streams, d \in Consumers : \A ev : NewsTo(t, d, ev)' <=> NewsTo(t, d, ev)
  <2>1. /\ \A d \in Consumers : consumer'[d].state = consumer[d].state /\ consumer'[d].view = consumer[d].view
        /\ \A t \in Streams : stream'[t].orders = stream[t].orders
    BY DEF Joins
  <2> QED BY <2>1 DEF NewsTo
<1>5. \A j \in Due : j.do \in {"deliver", "call"} =>
         j.s \in Streams /\ j.left \subseteq Consumers /\ (j.s \in Current' => j.s \in Current)
  <2> SUFFICES ASSUME NEW j \in Due, j.do \in {"deliver", "call"}
               PROVE  j.s \in Streams /\ j.left \subseteq Consumers /\ (j.s \in Current' => j.s \in Current)
    OBVIOUS
  <2>1. j.s \in Streams /\ j.left \subseteq Consumers /\ j.s # NoStream
    BY DueFields, SentinelAssumption DEF JobsKnown
  <2>2. stream[j.s].channel # NoChannel
    BY <2>1 DEF AgreeInv, BlankInv, About, HasChannel
  <2> QED BY <2>1, <2>2 DEF Joins, NewStream
<1>6. CallsTrue'
  <2>1. ASSUME NEW j \in Due, j.do = "deliver", IsCurrent(j.s)'
        PROVE  /\ TrueTo(j.s, j.ev)'
               /\ \A d \in stream'[j.s].consumers : d \in j.left /\ consumer'[d].caughtUp => NewsTo(j.s, d, j.ev)'
    <3>1. j.s \in Streams /\ j.s \in Current /\ j.left \subseteq Consumers
      BY <1>5, <2>1 DEF IsCurrent
    <3>2. /\ TrueTo(j.s, j.ev)
          /\ \A d \in stream[j.s].consumers : d \in j.left /\ consumer[d].caughtUp => NewsTo(j.s, d, j.ev)
      BY <2>1, <3>1 DEF AgreeInv, TellInv, CallsTrue, IsCurrent
    <3>3. ASSUME NEW d \in stream'[j.s].consumers, d \in j.left, consumer'[d].caughtUp
          PROVE  d \in stream[j.s].consumers /\ d \in Consumers \ {c} /\ consumer[d].caughtUp
      <4>1. d \in stream[j.s].consumers \cup {c} /\ d \in Consumers
        BY <3>1, <3>3 DEF Joins
      <4>2. j.s = s => ~consumer'[c].caughtUp
        BY <3>1 DEF Joins
      <4>3. j.s # s => d \in stream[j.s].consumers
        BY <3>1, <3>3 DEF Joins
      <4>4. d # c
        BY <1>1, <3>1, <3>3, <4>2, <4>3
      <4> QED BY <3>3, <4>1, <4>4 DEF Joins
    <3> QED BY <1>3, <1>4, <3>1, <3>2, <3>3
  <2>2. \A j \in Due : j.do = "call" => /\ j.s \notin Current' /\ j.ev.type = "disconnected"
                                        /\ \A d \in j.left : consumer'[d].s = j.s /\ consumer'[d].state # "disconnected"
    BY <1>5, SentinelAssumption DEF AgreeInv, TellInv, CallsTrue, IsCurrent, Joins
  <2> QED BY <1>1, <2>1, <2>2 DEF CallsTrue, IsCurrent
<1>7. ToldAll'
  <2> SUFFICES ASSUME NEW t \in Current', NEW d \in stream'[t].consumers, consumer'[d].caughtUp
               PROVE  /\ KnowsLink(t, d)' \/ Owed(t, d, Links)'
                      /\ consumer'[d].view = stream'[t].orders \/ Owed(t, d, OrderNews)'
                      /\ consumer'[d].stale = stream'[t].stale \/ Owed(t, d, {"stale"})'
    BY DEF ToldAll
  <2>1. t \in Streams /\ d \in Consumers
    <3>1. t \in Streams
      BY <1>1 DEF Joins
    <3>2. d \in stream[t].consumers \cup {c}
      BY <3>1 DEF Joins
    <3> QED BY <1>1, <3>1, <3>2
  <2>2. \A types : Owed(t, d, types) => Owed(t, d, types)'
    BY <1>1 DEF Owed
  <2>3. CASE d # c
    <3>1. d \in stream[t].consumers /\ consumer'[d] = consumer[d]
      <4>1. d \in stream[t].consumers \cup {c} /\ d \in Consumers \ {c}
        BY <2>1, <2>3 DEF Joins
      <4> QED BY <2>3, <4>1 DEF Joins
    <3>2. t \in Current
      <4>1. s \notin Current => stream[s].consumers = {}
        BY DEF Joins, NewStream
      <4> QED BY <3>1, <4>1 DEF Joins
    <3>3. /\ KnowsLink(t, d) \/ Owed(t, d, Links)
          /\ consumer[d].view = stream[t].orders \/ Owed(t, d, OrderNews)
          /\ consumer[d].stale = stream[t].stale \/ Owed(t, d, {"stale"})
      BY <3>1, <3>2 DEF AgreeInv, TellInv, ToldAll
    <3>4. stream'[t].orders = stream[t].orders /\ stream'[t].state = stream[t].state /\ stream'[t].stale = stream[t].stale
      BY <2>1 DEF Joins
    <3> QED BY <2>2, <3>1, <3>3, <3>4 DEF KnowsLink
  <2>4. CASE d = c
    <3>1. t = s
      <4>1. t # s => d \in stream[t].consumers
        BY <2>1 DEF Joins
      <4> QED BY <1>1, <2>1, <2>4, <4>1
    <3>2. stream[s] = NewStream
      BY <2>4 DEF Joins
    <3>3. /\ consumer'[c].state = "pending" /\ consumer'[c].view = NoView /\ consumer'[c].stale = "no"
          /\ stream'[s].state = "pending" /\ stream'[s].orders = NoView /\ stream'[s].stale = "no"
      <4>1. stream[s].state = "pending" /\ stream[s].orders = NoView /\ stream[s].stale = "no"
        BY <3>2 DEF NewStream
      <4> QED BY <1>1, <4>1 DEF Untold, Joins
    <3> QED BY <2>4, <3>1, <3>3 DEF KnowsLink
  <2> QED BY <2>3, <2>4
<1> QED BY <1>2, <1>6, <1>7 DEF TellInv

LEMMA JoinsJoins ==
    ASSUME TypeOK, AgreeInv, NEW c \in Consumers, NEW s \in Streams, Joins(c, s),
           \A i \in DOMAIN micro : micro[i].do = "catchUp" => \E k \in DOMAIN micro' : micro'[k] = micro[i],
           s \in Current => consumer'[c].caughtUp = consumer[c].caughtUp /\ Promised(s, c)'
    PROVE  JoinInv'
<1>1. /\ \A t \in Streams : stream[t].consumers \subseteq Consumers /\ c \notin stream[t].consumers
      /\ Untold(c) /\ s # NoStream
  BY SentinelAssumption DEF AgreeInv, JoinInv, Joins, TypeOK, StreamObject
<1>2. \A t, d : Promised(t, d) => Promised(t, d)'
  BY DEF Promised, Task
<1>3. \A d \in Consumers \ {c} : Untold(d) => Untold(d)'
  BY DEF Untold, Joins
<1>4. s \in Current => Untold(c)'
  BY <1>1 DEF Untold, Joins
<1>5. \A d \in Consumers : consumer'[d].s = NoStream => Untold(d)'
  BY <1>1, <1>3 DEF AgreeInv, JoinInv, Joins
<1>6. ASSUME NEW t \in Streams, NEW d \in stream'[t].consumers
      PROVE  /\ t \in Current' /\ consumer'[d].s = t
             /\ consumer'[d].caughtUp \/ (Untold(d)' /\ Promised(t, d)')
  <2>1. CASE d = c
    BY <1>1, <1>4, <2>1 DEF Joins
  <2>2. CASE d # c
    <3>1. d \in stream[t].consumers /\ d \in Consumers \ {c}
      <4>1. d \in stream[t].consumers \cup {c}
        BY DEF Joins
      <4> QED BY <1>1, <2>2, <4>1
    <3>2. t \in Current /\ consumer[d].s = t /\ (consumer[d].caughtUp \/ (Untold(d) /\ Promised(t, d)))
      BY <3>1 DEF AgreeInv, JoinInv, IsCurrent
    <3> QED BY <1>2, <1>3, <3>1, <3>2 DEF Joins
  <2> QED BY <2>1, <2>2
<1> QED BY <1>5, <1>6 DEF JoinInv, IsCurrent

LEMMA OpenGrows ==
    ASSUME NEW c, Open(c)
    PROVE  MicroGrows
<1>1. LET task == Task("terminateAll", NoStream, {}) IN task \in Tasks /\ task.c = {}
  BY DEF Task, Tasks
<1> QED BY <1>1 DEF Open, MicroGrows

LEMMA ConnectAgrees ==
    ASSUME TypeOK, TypeOK', RequestsInv, AgreeInv, NEW c \in Consumers, NEW ch \in Channels, Connect(c, ch)
    PROVE  AgreeInv'
<1>1. turn' = turn /\ Due' = Due /\ consumer[c].s = NoStream /\ Untold(c)
  BY DEF Connect, Due, AgreeInv, JoinInv
<1>2. ASSUME NEW i \in DOMAIN micro, micro[i].do = "catchUp"
      PROVE  c \notin micro[i].c
  <2>1. micro[i] \in Tasks
    BY LenProperties, ElementOfSeq DEF TypeOK
  <2>2. micro[i].s \in Streams
    BY <1>2, <2>1 DEF Tasks
  <2> QED BY <1>1, <1>2, <2>2, SentinelAssumption DEF AgreeInv, TasksInv
<1>3. ASSUME NEW s \in Streams, s = subs[ch], Join(c, s)
      PROVE  AgreeInv'
  <2> DEFINE task == Task("catchUp", s, {c})
  <2>1. task \in Tasks /\ task.do = "catchUp" /\ task.s = s /\ task.c = {c}
    BY DEF Task, Tasks
  <2>2. s \in Current /\ subs' = subs /\ Current' = Current /\ stream[s].channel # NoChannel
    <3>1. s \in Current /\ subs' = subs
      BY <1>3, SentinelAssumption DEF Current, Join
    <3> QED BY <3>1, CurrentPlaced, SameCurrent
  <2>3. /\ consumer' = [consumer EXCEPT ![c].s = s]
        /\ consumer'[c].s = s /\ consumer'[c].caughtUp = consumer[c].caughtUp
        /\ \A d \in Consumers \ {c} : consumer'[d] = consumer[d]
    BY <1>3 DEF Join, TypeOK, Held
  <2>4. Joins(c, s)
    <3>1. /\ consumer'[c].state = consumer[c].state /\ consumer'[c].view = consumer[c].view
          /\ consumer'[c].stale = consumer[c].stale
      BY <2>3 DEF TypeOK, Held
    <3>2. ASSUME NEW t \in Streams
          PROVE  /\ stream'[t].orders = stream[t].orders /\ stream'[t].state = stream[t].state
                 /\ stream'[t].stale = stream[t].stale
                 /\ stream'[t].consumers = IF t = s THEN stream[t].consumers \cup {c} ELSE stream[t].consumers
      BY <1>3 DEF Join, TypeOK, StreamObject
    <3>3. ~consumer'[c].caughtUp /\ Current' = Current \cup {s}
      BY <1>1, <2>2, <2>3 DEF Untold
    <3> QED BY <1>1, <2>2, <2>3, <3>1, <3>2, <3>3 DEF Joins
  <2> HIDE DEF task
  <2>5. micro' = Append(micro, task)
    BY <1>3 DEF Join, task
  <2>6. /\ Len(micro) + 1 \notin DOMAIN micro
        /\ DOMAIN micro' = DOMAIN micro \cup {Len(micro) + 1} /\ micro'[Len(micro) + 1] = task
        /\ \A i \in DOMAIN micro : micro'[i] = micro[i]
    BY <2>1, <2>5, Grown
  <2>7. JoinInv'
    <3>1. Promised(s, c)'
      BY <2>6 DEF Promised, task
    <3>2. \A i \in DOMAIN micro : micro[i].do = "catchUp" => \E k \in DOMAIN micro' : micro'[k] = micro[i]
      BY <2>6
    <3> QED BY <2>3, <2>4, <3>1, <3>2, JoinsJoins
  <2>8. TasksInv'
    <3> SUFFICES ASSUME NEW i \in DOMAIN micro', micro'[i].do = "catchUp", NEW d \in micro'[i].c
                 PROVE  /\ consumer'[d].s = micro'[i].s /\ ~consumer'[d].caughtUp
                        /\ \A j \in DOMAIN micro' : micro'[j].do = "catchUp" /\ d \in micro'[j].c => i = j
      BY DEF TasksInv
    <3>1. CASE i = Len(micro) + 1
      <4>1. d = c /\ micro'[i].s = s
        BY <2>1, <2>6, <3>1
      <4> QED BY <1>1, <1>2, <2>3, <2>6, <3>1, <4>1 DEF Untold
    <3>2. CASE i \in DOMAIN micro
      <4>1. d # c /\ micro'[i] = micro[i] /\ d \in Consumers
        <5>1. micro[i] \in Tasks
          BY <3>2, LenProperties, ElementOfSeq DEF TypeOK
        <5> QED BY <1>2, <2>6, <3>2, <5>1 DEF Tasks
      <4> QED BY <2>1, <2>3, <2>6, <3>2, <4>1 DEF AgreeInv, TasksInv
    <3> QED BY <2>6, <3>1, <3>2
  <2>9. BlankInv'
    <3>1. \A t \in Streams : stream'[t] = stream[t] \/
             (stream[t].channel # NoChannel /\ stream'[t].channel = stream[t].channel)
      BY <1>3, <2>2 DEF Join, TypeOK, StreamObject
    <3> QED BY <1>1, <3>1, BlankStays DEF AgreeInv
  <2> QED BY <2>4, <2>7, <2>8, <2>9, JoinsTells DEF AgreeInv
<1>4. ASSUME NEW s \in Streams, Establish(c, ch, s), subs[ch] = NoStream
      PROVE  AgreeInv'
  <2>1. stream[s] = NewStream /\ s \notin Current /\ stream[s].channel = NoChannel /\ s # NoStream
    BY <1>4, CurrentPlaced, SentinelAssumption DEF Establish, AgreeInv, BlankInv
  <2>2. Current' = Current \cup {s}
    <3>1. Places(s, ch)
      BY <1>4 DEF Establish, Places, Others, Kept, TypeOK, StreamObject
    <3> QED BY <3>1, PlacesCurrent DEF RequestsInv
  <2>3. /\ consumer'[c].s = s /\ consumer'[c].caughtUp /\ consumer'[c].state = consumer[c].state
        /\ consumer'[c].view = consumer[c].view /\ consumer'[c].stale = consumer[c].stale
        /\ \A d \in Consumers \ {c} : consumer'[d] = consumer[d]
    BY <1>4 DEF Establish, TypeOK, Held
  <2>4. /\ stream'[s].channel = ch /\ stream'[s].consumers = {c} /\ stream'[s].orders = stream[s].orders
        /\ stream'[s].state = stream[s].state /\ stream'[s].stale = stream[s].stale
        /\ \A t \in Streams \ {s} : stream'[t] = stream[t]
    BY <1>4 DEF Establish, TypeOK, StreamObject
  <2>5. stream[s].consumers = {}
    BY <2>1 DEF NewStream
  <2>6. Joins(c, s)
    BY <1>1, <2>1, <2>2, <2>3, <2>4, <2>5 DEF Joins
  <2>7. MicroGrows
    BY <1>4, OpenGrows DEF Establish, MicroGrows
  <2>8. /\ \A i \in DOMAIN micro : micro[i].do = "catchUp" => \E k \in DOMAIN micro' : micro'[k] = micro[i]
        /\ \A i \in DOMAIN micro' : micro'[i].do = "catchUp" /\ micro'[i].c # {} => i \in DOMAIN micro /\ micro'[i] = micro[i]
    <3>1. ASSUME NEW task \in Tasks, task.c = {}, micro' = Append(micro, task)
          PROVE  /\ \A i \in DOMAIN micro : micro[i].do = "catchUp" => \E k \in DOMAIN micro' : micro'[k] = micro[i]
                 /\ \A i \in DOMAIN micro' : micro'[i].do = "catchUp" /\ micro'[i].c # {} =>
                       i \in DOMAIN micro /\ micro'[i] = micro[i]
      BY <3>1, Grown
    <3> QED BY <2>7, <3>1 DEF MicroGrows
  <2>9. JoinInv'
    BY <2>1, <2>6, <2>8, JoinsJoins
  <2>10. TasksInv'
    <3> SUFFICES ASSUME NEW i \in DOMAIN micro', micro'[i].do = "catchUp", NEW d \in micro'[i].c
                 PROVE  /\ consumer'[d].s = micro'[i].s /\ ~consumer'[d].caughtUp
                        /\ \A j \in DOMAIN micro' : micro'[j].do = "catchUp" /\ d \in micro'[j].c => i = j
      BY DEF TasksInv
    <3>1. i \in DOMAIN micro /\ micro'[i] = micro[i]
      BY <2>8
    <3>2. d # c /\ d \in Consumers
      <4>1. micro[i] \in Tasks
        BY <3>1, LenProperties, ElementOfSeq DEF TypeOK
      <4> QED BY <1>2, <3>1, <4>1 DEF Tasks
    <3>3. /\ consumer[d].s = micro[i].s /\ ~consumer[d].caughtUp
          /\ \A j \in DOMAIN micro : micro[j].do = "catchUp" /\ d \in micro[j].c => i = j
      BY <3>1 DEF AgreeInv, TasksInv
    <3>4. \A j \in DOMAIN micro' : micro'[j].do = "catchUp" /\ d \in micro'[j].c => i = j
      BY <2>8, <3>3
    <3> QED BY <2>3, <3>1, <3>2, <3>3, <3>4
  <2>11. BlankInv'
    <3>1. \A t : HasChannel(t) /\ t \in Streams \cup {NoStream} => HasChannel(t)'
      BY <2>1, <2>4, SentinelAssumption DEF HasChannel
    <3>2. \A j \in Due : \A t \in About(j) : HasChannel(t)'
      BY <3>1, DueFields DEF AgreeInv, BlankInv, JobsKnown
    <3>3. ch # NoChannel /\ NewStream' = NewStream
      BY SentinelAssumption DEF NewStream
    <3>4. \A t \in Streams : stream'[t].channel = NoChannel => stream'[t] = NewStream
      BY <2>4, <3>3 DEF AgreeInv, BlankInv
    <3> QED BY <1>1, <3>2, <3>3, <3>4 DEF BlankInv, About
  <2> QED BY <2>6, <2>9, <2>10, <2>11, JoinsTells DEF AgreeInv
<1>5. subs[ch] # NoStream /\ Join(c, subs[ch]) => subs[ch] \in Streams
  BY DEF TypeOK, MaybeStream
<1> QED BY <1>3, <1>4, <1>5 DEF Connect

LEMMA AppAgrees ==
    ASSUME TypeOK, TypeOK', RequestsInv, AgreeInv, App
    PROVE  AgreeInv'
<1>1. ASSUME NEW c \in Consumers, Remove(c)
      PROVE  AgreeInv'
  <2>1. PICK s \in Streams :
          /\ c \in stream[s].consumers /\ stream' = [stream EXCEPT ![s].consumers = @ \ {c}]
          /\ micro' = IF stream[s].consumers = {c} THEN Append(micro, Task("teardown", s, {})) ELSE micro
    BY <1>1 DEF Remove
  <2>2. UNCHANGED <<subs, turn, consumer>> /\ Due' = Due /\ Current' = Current
    BY <1>1, SameCurrent DEF Remove, Due
  <2>3. \A t \in Streams : Looks(t) /\ stream'[t].channel = stream[t].channel /\ (t # s => stream'[t] = stream[t])
    BY <2>1 DEF Looks, TypeOK, StreamObject
  <2>4. IsCurrent(s) /\ stream[s].channel # NoChannel
    BY <2>1, CurrentPlaced DEF AgreeInv, JoinInv, IsCurrent
  <2>5. MicroGrows
    <3>1. Task("teardown", s, {}) \in Tasks /\ Task("teardown", s, {}).c = {}
      BY DEF Task, Tasks
    <3> QED BY <2>1, <3>1 DEF MicroGrows
  <2>6. TasksInv' /\ \A i \in DOMAIN micro : micro[i].do = "catchUp" => \E k \in DOMAIN micro' : micro'[k] = micro[i]
    BY <2>2, <2>5, TasksStay DEF AgreeInv
  <2>7. JoinInv'
    <3>1. \A t \in Streams : stream'[t].consumers \subseteq stream[t].consumers /\ (IsCurrent(t) => IsCurrent(t)')
      BY <2>2, <2>3 DEF Looks, IsCurrent
    <3> QED BY <2>2, <2>6, <3>1, JoinStays DEF AgreeInv
  <2>8. BlankInv'
    <3>1. \A t \in Streams : stream'[t] = stream[t] \/
             (stream[t].channel # NoChannel /\ stream'[t].channel = stream[t].channel)
      BY <2>3, <2>4
    <3> QED BY <2>2, <3>1, BlankStays DEF AgreeInv
  <2>9. Looked
    BY <2>2, <2>3, CurrentStreams DEF Looked
  <2> QED BY <2>2, <2>6, <2>7, <2>8, <2>9, SameTurnTells DEF AgreeInv
<1>2. CASE Disconnect
  <2>1. /\ UNCHANGED <<turn, consumer, micro>> /\ Due' = Due /\ Current' = {}
        /\ \A s \in Streams : stream'[s] = IF IsCurrent(s) THEN [stream[s] EXCEPT !.retryTimer = 0, !.consumers = {}]
                                           ELSE stream[s]
    BY <1>2 DEF Disconnect, Due, Current
  <2>2. \A s \in Streams : stream'[s].consumers = {}
    <3>1. \A s \in Streams : ~IsCurrent(s) => stream[s].consumers = {}
      BY DEF AgreeInv, JoinInv
    <3> QED BY <2>1, <3>1 DEF TypeOK, StreamObject
  <2>3. Looked
    BY <2>1 DEF Looked
  <2>4. TasksInv' /\ JoinInv'
    BY <2>1, <2>2, TasksStay, JoinStays DEF AgreeInv, MicroGrows
  <2>5. BlankInv'
    <3>1. \A s \in Streams : stream'[s] = stream[s] \/
             (stream[s].channel # NoChannel /\ stream'[s].channel = stream[s].channel)
      BY <2>1, CurrentPlaced DEF IsCurrent, TypeOK, StreamObject
    <3> QED BY <2>1, <3>1, BlankStays DEF AgreeInv
  <2> QED BY <2>1, <2>3, <2>4, <2>5, SameTurnTells DEF AgreeInv
<1> QED BY <1>1, <1>2, ConnectAgrees DEF App

-----------------------------------------------------------------------------
(* Microtasks.                                                             *)

\* Jobs of different kinds, one after the other.
EachOnce(jobs) == \A i, j \in DOMAIN jobs : jobs[i].ev.type = jobs[j].ev.type => i = j
Has(jobs)      == {jobs[i] : i \in DOMAIN jobs}

LEMMA ChainOnce ==
    ASSUME NEW u \in Seq(Jobs), NEW v \in Seq(Jobs), EachOnce(u), EachOnce(v),
           \A a \in Has(u), b \in Has(v) : a.ev.type # b.ev.type
    PROVE  u \o v \in Seq(Jobs) /\ EachOnce(u \o v) /\ Has(u \o v) = Has(u) \cup Has(v)
<1> DEFINE w == u \o v
<1>1. /\ Len(u) \in Nat /\ Len(v) \in Nat /\ w \in Seq(Jobs)
      /\ DOMAIN u = 1 .. Len(u) /\ DOMAIN v = 1 .. Len(v) /\ DOMAIN w = 1 .. (Len(u) + Len(v))
      /\ \A i \in 1 .. Len(u) : w[i] = u[i]
      /\ \A i \in (Len(u) + 1) .. (Len(u) + Len(v)) : w[i] = v[i - Len(u)]
  BY ConcatProperties, LenProperties
<1> HIDE DEF w
<1>2. \A i \in DOMAIN w : \/ i \in DOMAIN u /\ w[i] = u[i]
                          \/ i - Len(u) \in DOMAIN v /\ w[i] = v[i - Len(u)] /\ i > Len(u)
  BY <1>1
<1>3. \A i \in DOMAIN v : i + Len(u) \in DOMAIN w /\ w[i + Len(u)] = v[i]
  <2> SUFFICES ASSUME NEW i \in DOMAIN v PROVE i + Len(u) \in DOMAIN w /\ w[i + Len(u)] = v[i]
    OBVIOUS
  <2>1. i + Len(u) \in (Len(u) + 1) .. (Len(u) + Len(v)) /\ (i + Len(u)) - Len(u) = i
    BY <1>1
  <2> QED BY <1>1, <2>1
<1>4. \A i \in DOMAIN u : i \in DOMAIN w /\ w[i] = u[i]
  BY <1>1
<1>5. Has(w) = Has(u) \cup Has(v)
  BY <1>2, <1>3, <1>4 DEF Has
<1>6. EachOnce(w)
  <2> SUFFICES ASSUME NEW i \in DOMAIN w, NEW j \in DOMAIN w, w[i].ev.type = w[j].ev.type
               PROVE  i = j
    BY DEF EachOnce
  <2>1. CASE i \in DOMAIN u /\ w[i] = u[i] /\ j \in DOMAIN u /\ w[j] = u[j]
    BY <2>1 DEF EachOnce
  <2>2. CASE i - Len(u) \in DOMAIN v /\ w[i] = v[i - Len(u)] /\ j - Len(u) \in DOMAIN v /\ w[j] = v[j - Len(u)]
    <3>1. i - Len(u) = j - Len(u)
      BY <2>2 DEF EachOnce
    <3> QED BY <1>1, <3>1
  <2>3. CASE i \in DOMAIN u /\ w[i] = u[i] /\ j - Len(u) \in DOMAIN v /\ w[j] = v[j - Len(u)]
    BY <2>3 DEF Has
  <2>4. CASE i - Len(u) \in DOMAIN v /\ w[i] = v[i - Len(u)] /\ j \in DOMAIN u /\ w[j] = u[j]
    BY <2>4 DEF Has
  <2> QED BY <1>2, <2>1, <2>2, <2>3, <2>4
<1> QED BY <1>1, <1>5, <1>6 DEF w

\* What a consumer that is caught up is told.
LEMMA WhatIsTold ==
    ASSUME TypeOK, NEW s \in Streams, NEW c \in Consumers
    PROVE  LET r == stream[s]
               w == WhatIsKnown(s, c)
           IN  /\ EachOnce(w)
               /\ \A j \in Has(w) : j.do = "deliver" /\ j.s = s /\ j.left = {c}
               /\ \A j \in Has(w) : \/ j.ev.type = "connected" /\ r.state = "connected"
                                    \/ j.ev.type = "snapshot" /\ j.ev.view = r.orders
                                    \/ j.ev.type = "stale" /\ j.ev.stale = r.stale
               /\ r.state = "connected" => \E j \in Has(w) : j.ev.type = "connected"
               /\ r.orders # NoView => \E j \in Has(w) : j.ev.type = "snapshot"
               /\ r.stale # "no" => \E j \in Has(w) : j.ev.type = "stale"
<1> DEFINE r == stream[s]
           e1 == Link("connected")
           e2 == Snapshot(r.orders)
           e3 == Stale(r.stale)
           a == DeliverIf(r.state = "connected", s, e1, c)
           b == DeliverIf(r.orders # NoView, s, e2, c)
           d == DeliverIf(r.stale # "no", s, e3, c)
<1>1. /\ e1.type = "connected" /\ e2.type = "snapshot" /\ e2.view = r.orders
      /\ e3.type = "stale" /\ e3.stale = r.stale
  BY DEF Link, Snapshot, Stale, Event
<1>2. e1 \in Events /\ e3 \in Events /\ (r.orders # NoView => e2 \in Events)
  <2>1. r.stale \in Scopes /\ (r.orders = NoView \/ r.orders \in Views)
    BY DEF TypeOK, StreamObject, MaybeView
  <2> QED BY <2>1, EventTypes
<1> HIDE DEF e1, e2, e3
<1>3. ASSUME NEW known \in BOOLEAN, NEW ev, known => ev \in Events
      PROVE  LET w == DeliverIf(known, s, ev, c)
             IN  /\ w \in Seq(Jobs) /\ EachOnce(w)
                 /\ Has(w) = IF known THEN {Job("deliver", s, ev, {c})} ELSE {}
  <2>1. CASE known
    <3>1. Job("deliver", s, ev, {c}) \in Jobs
      BY <1>3, <2>1, JobTypes
    <3> DEFINE j == Job("deliver", s, ev, {c})
    <3>2. DeliverIf(known, s, ev, c) = <<j>>
      BY <2>1 DEF DeliverIf
    <3> HIDE DEF j
    <3>3. <<j>> \in Seq(Jobs)
      BY <3>1 DEF j
    <3>4. EachOnce(<<j>>) /\ Has(<<j>>) = {j}
      BY OneOrTwo DEF EachOnce, Has
    <3> QED BY <2>1, <3>2, <3>3, <3>4 DEF j
  <2>2. CASE ~known
    BY <2>2, OneOrTwo, EmptySeq DEF DeliverIf, EachOnce, Has
  <2> QED BY <2>1, <2>2
<1>4. /\ a \in Seq(Jobs) /\ EachOnce(a) /\ Has(a) = IF r.state = "connected" THEN {Job("deliver", s, e1, {c})} ELSE {}
      /\ b \in Seq(Jobs) /\ EachOnce(b) /\ Has(b) = IF r.orders # NoView THEN {Job("deliver", s, e2, {c})} ELSE {}
      /\ d \in Seq(Jobs) /\ EachOnce(d) /\ Has(d) = IF r.stale # "no" THEN {Job("deliver", s, e3, {c})} ELSE {}
  BY <1>2, <1>3
<1>5. /\ \A j \in Has(a) : j.do = "deliver" /\ j.s = s /\ j.left = {c} /\ j.ev = e1 /\ r.state = "connected"
      /\ \A j \in Has(b) : j.do = "deliver" /\ j.s = s /\ j.left = {c} /\ j.ev = e2
      /\ \A j \in Has(d) : j.do = "deliver" /\ j.s = s /\ j.left = {c} /\ j.ev = e3
      /\ r.state = "connected" => \E j \in Has(a) : j.ev = e1
      /\ r.orders # NoView => \E j \in Has(b) : j.ev = e2
      /\ r.stale # "no" => \E j \in Has(d) : j.ev = e3
  BY <1>4, JobKinds
<1>6. WhatIsKnown(s, c) = a \o b \o d
  BY DEF WhatIsKnown, e1, e2, e3
<1> HIDE DEF a, b, d, r
<1>7. a \o b \in Seq(Jobs) /\ EachOnce(a \o b) /\ Has(a \o b) = Has(a) \cup Has(b)
  <2>1. \A i \in Has(a), j \in Has(b) : i.ev.type # j.ev.type
    BY <1>1, <1>5
  <2> QED BY <1>4, <2>1, ChainOnce
<1>8. EachOnce((a \o b) \o d) /\ Has((a \o b) \o d) = Has(a) \cup Has(b) \cup Has(d)
  <2>1. \A i \in Has(a \o b), j \in Has(d) : i.ev.type # j.ev.type
    BY <1>1, <1>5, <1>7
  <2> QED BY <1>4, <1>7, <2>1, ChainOnce
<1> QED BY <1>1, <1>5, <1>6, <1>8 DEF r

\* A task that catches c up, or would have.
LEMMA CatchUpJoins ==
    ASSUME TypeOK, JoinInv, TasksInv, UNCHANGED <<subs, stream>>, micro # <<>>, micro' = Tail(micro),
           Head(micro).do = "catchUp", NEW c \in Head(micro).c, c \in Consumers,
           \A d \in Consumers \ {c} : consumer'[d] = consumer[d],
           \/ consumer'[c] = consumer[c] /\ c \notin stream[Head(micro).s].consumers
           \/ consumer'[c].caughtUp /\ consumer'[c].s = consumer[c].s /\ consumer[c].s # NoStream
    PROVE  JoinInv' /\ TasksInv'
<1>1. TasksInv' /\ \A i \in DOMAIN micro : micro[i] = Head(micro) \/ \E k \in DOMAIN micro' : micro'[k] = micro[i]
  BY TasksGo
<1>2. Current' = Current /\ \A d \in Consumers \ {c} : Untold(d) => Untold(d)'
  BY SameCurrent DEF Untold
<1>3. \A s \in Streams : stream[s].consumers \subseteq Consumers
  BY DEF TypeOK, StreamObject
<1>4. \A d \in Consumers : consumer'[d].s = NoStream => Untold(d)'
  BY <1>2 DEF JoinInv, Untold
<1>5. ASSUME NEW s \in Streams, NEW d \in stream[s].consumers
      PROVE  /\ s \in Current' /\ consumer'[d].s = s
             /\ consumer'[d].caughtUp \/ (Untold(d)' /\ Promised(s, d)')
  <2>1. /\ s \in Current /\ consumer[d].s = s /\ d \in Consumers
        /\ consumer[d].caughtUp \/ (Untold(d) /\ Promised(s, d))
    BY <1>3 DEF JoinInv, IsCurrent
  <2>2. CASE consumer'[d] # consumer[d]
    BY <1>2, <2>1, <2>2
  <2>3. CASE consumer'[d] = consumer[d] /\ ~consumer[d].caughtUp
    <3>1. Untold(d)'
      BY <2>1, <2>3 DEF Untold
    <3>2. PICK i \in DOMAIN micro : micro[i] = Task("catchUp", s, {d})
      BY <2>1, <2>3 DEF Promised
    <3>3. micro[i] # Head(micro)
      <4> SUFFICES ASSUME Head(micro) = Task("catchUp", s, {d}) PROVE FALSE
        BY <3>2
      <4>1. d = c /\ Head(micro).s = s
        BY DEF Task
      <4> QED BY <2>3, <4>1
    <3>4. Promised(s, d)'
      BY <1>1, <3>2, <3>3 DEF Promised, Task
    <3> QED BY <1>2, <2>1, <2>3, <3>1, <3>4
  <2> QED BY <1>2, <2>1, <2>2, <2>3
<1> QED BY <1>1, <1>4, <1>5 DEF JoinInv, IsCurrent

LEMMA CatchUpTells ==
    ASSUME TypeOK, AgreeInv, Agreed, UNCHANGED <<subs, stream>>, NEW s \in Streams, NEW c \in stream[s].consumers,
           c \in Consumers, Untold(c), turn' = WhatIsKnown(s, c),
           \A d \in Consumers \ {c} : consumer'[d] = consumer[d],
           consumer'[c].state = consumer[c].state, consumer'[c].view = consumer[c].view,
           consumer'[c].stale = consumer[c].stale
    PROVE  TellInv'
<1> DEFINE r == stream[s]
           w == WhatIsKnown(s, c)
<1>1. /\ EachOnce(w)
      /\ \A j \in Has(w) : j.do = "deliver" /\ j.s = s /\ j.left = {c}
      /\ \A j \in Has(w) : \/ j.ev.type = "connected" /\ r.state = "connected"
                           \/ j.ev.type = "snapshot" /\ j.ev.view = r.orders
                           \/ j.ev.type = "stale" /\ j.ev.stale = r.stale
      /\ r.state = "connected" => \E j \in Has(w) : j.ev.type = "connected"
      /\ r.orders # NoView => \E j \in Has(w) : j.ev.type = "snapshot"
      /\ r.stale # "no" => \E j \in Has(w) : j.ev.type = "stale"
  BY WhatIsTold
<1>2. Due' = Has(w) /\ Current' = Current /\ Current \subseteq Streams /\ IsCurrent(s)
  BY SameCurrent, CurrentStreams DEF Due, Has, AgreeInv, JoinInv
<1> HIDE DEF w
<1>3. turn' = w
  BY DEF w
<1>4. TurnShape'
  <2>1. \A i \in DOMAIN w : w[i] \in Has(w)
    BY DEF Has
  <2>2. \A i \in DOMAIN w : w[i].do = "deliver" /\ w[i].ev.type \in ToldLate /\ w[i].left = {c}
    BY <1>1, <2>1 DEF ToldLate
  <2> QED BY <1>1, <1>3, <2>2 DEF TurnShape, EachOnce
<1>5. CallsTrue'
  <2>1. ASSUME NEW j \in Has(w)
        PROVE  TrueTo(s, j.ev)' /\ NewsTo(s, c, j.ev)'
    BY <1>1 DEF TrueTo, NewsTo, Untold, Links
  <2> QED BY <1>1, <1>2, <2>1 DEF CallsTrue
<1>6. ToldAll'
  <2> SUFFICES ASSUME NEW t \in Current', NEW d \in stream'[t].consumers, consumer'[d].caughtUp
               PROVE  /\ KnowsLink(t, d)' \/ Owed(t, d, Links)'
                      /\ consumer'[d].view = stream'[t].orders \/ Owed(t, d, OrderNews)'
                      /\ consumer'[d].stale = stream'[t].stale \/ Owed(t, d, {"stale"})'
    BY DEF ToldAll
  <2>1. t \in Streams /\ d \in Consumers /\ d \in stream[t].consumers
    BY <1>2 DEF TypeOK, StreamObject
  <2>2. CASE d # c
    BY <1>2, <2>1, <2>2 DEF Agreed, KnowsLink
  <2>3. CASE d = c
    <3>1. t = s
      BY <2>1, <2>3 DEF AgreeInv, JoinInv
    <3>2. /\ r.state = "connected" => Owed(s, c, Links)'
          /\ r.orders # NoView => Owed(s, c, OrderNews)'
          /\ r.stale # "no" => Owed(s, c, {"stale"})'
      BY <1>1, <1>2 DEF Owed, Links, OrderNews
    <3>3. r.state \in LinkStates
      BY DEF TypeOK, StreamObject
    <3> QED BY <2>3, <3>1, <3>2, <3>3 DEF KnowsLink, Untold, LinkStates
  <2> QED BY <2>2, <2>3
<1> QED BY <1>4, <1>5, <1>6 DEF TellInv

LEMMA RunMicrotaskAgrees ==
    ASSUME TypeOK, TypeOK', RequestsInv, AgreeInv, RunMicrotask
    PROVE  AgreeInv'
<1> DEFINE task == Head(micro)
<1>1. /\ task \in Tasks /\ turn = <<>> /\ micro # <<>> /\ micro' = Tail(micro) /\ Due = {} /\ Mute(Due)
  BY HeadTailProperties, EmptySeq, OneOrTwo DEF RunMicrotask, TypeOK, Due, Mute
<1>2. Agreed
  BY <1>1, MuteAgrees DEF AgreeInv, TellInv
<1>3. ASSUME consumer' = consumer, Mute(Due'), JobsPlaced,
             \/ UNCHANGED <<subs, stream>>
             \/ task.do = "teardown" /\ IsCurrent(task.s) /\ task.s \in Streams /\ Torn(task.s),
             task.do # "catchUp"
      PROVE  AgreeInv'
  <2>1. TasksInv' /\ \A i \in DOMAIN micro : micro[i].do = "catchUp" => \E k \in DOMAIN micro' : micro'[k] = micro[i]
    BY <1>1, <1>3, TasksGo DEF AgreeInv
  <2>2. CASE UNCHANGED <<subs, stream>>
    <3>1. Current' = Current /\ Looked
      BY <1>3, <2>2, SameCurrent, CurrentStreams DEF Looked, Looks
    <3>2. JoinInv'
      BY <1>3, <2>1, <2>2, <3>1, JoinStays DEF AgreeInv, IsCurrent
    <3>3. BlankInv'
      BY <1>3, <2>2, BlankStays DEF AgreeInv, JobsPlaced
    <3> QED BY <1>2, <1>3, <2>1, <3>1, <3>2, <3>3, SilentTells DEF AgreeInv
  <2>3. CASE task.do = "teardown" /\ IsCurrent(task.s) /\ task.s \in Streams /\ Torn(task.s)
    <3>1. JoinInv' /\ BlankInv' /\ Looked
      BY <1>3, <2>1, <2>3, TornJoins DEF AgreeInv
    <3> QED BY <1>2, <1>3, <2>1, <3>1, SilentTells DEF AgreeInv
  <2> QED BY <1>3, <2>2, <2>3
<1>4. turn' = turn => Mute(Due') /\ JobsPlaced
  BY <1>1 DEF Due, Mute, JobsPlaced
<1>5. ASSUME task.do = "catchUp", NEW c \in task.c, CatchUp(task.s, c), UNCHANGED <<subs, stream>>
      PROVE  AgreeInv'
  <2>1. task.s \in Streams /\ c \in Consumers /\ stream[task.s].consumers \subseteq Consumers
    BY <1>1, <1>5 DEF Tasks, TypeOK, StreamObject
  <2>2. consumer[c].s = task.s /\ ~consumer[c].caughtUp /\ task.s # NoStream
    <3>1. task = micro[1] /\ 1 \in DOMAIN micro
      BY <1>1, Shrunk
    <3> QED BY <1>5, <2>1, <3>1, SentinelAssumption DEF AgreeInv, TasksInv
  <2>3. CASE /\ IsCurrent(task.s) /\ c \in stream[task.s].consumers
             /\ consumer' = [consumer EXCEPT ![c].caughtUp = TRUE] /\ turn' = WhatIsKnown(task.s, c)
    <3>1. /\ consumer'[c].caughtUp /\ consumer'[c].s = consumer[c].s /\ consumer'[c].state = consumer[c].state
          /\ consumer'[c].view = consumer[c].view /\ consumer'[c].stale = consumer[c].stale
          /\ \A d \in Consumers \ {c} : consumer'[d] = consumer[d]
      BY <2>1, <2>3 DEF TypeOK, Held
    <3>2. Untold(c)
      BY <2>1, <2>2, <2>3 DEF AgreeInv, JoinInv
    <3>3. JoinInv' /\ TasksInv'
      BY <1>1, <1>5, <2>1, <2>2, <3>1, CatchUpJoins DEF AgreeInv
    <3>4. TellInv'
      BY <1>2, <1>5, <2>1, <2>3, <3>1, <3>2, CatchUpTells
    <3>5. \A j \in Due' : About(j) = {task.s}
      <4>1. \A j \in Has(WhatIsKnown(task.s, c)) : j.do = "deliver" /\ j.s = task.s
        BY <2>1, WhatIsTold
      <4>2. Due' = Has(WhatIsKnown(task.s, c))
        BY <2>3 DEF Due, Has
      <4> QED BY <4>1, <4>2 DEF About
    <3>6. HasChannel(task.s)
      BY <2>3, CurrentPlaced DEF IsCurrent
    <3>7. BlankInv'
      BY <1>5, <3>5, <3>6, BlankStays DEF AgreeInv
    <3> QED BY <3>3, <3>4, <3>7 DEF AgreeInv
  <2>4. CASE ~(IsCurrent(task.s) /\ c \in stream[task.s].consumers) /\ UNCHANGED <<consumer, turn>>
    <3>1. c \notin stream[task.s].consumers
      BY <2>1, <2>4 DEF AgreeInv, JoinInv
    <3>2. JoinInv' /\ TasksInv'
      BY <1>1, <1>5, <2>1, <2>4, <3>1, CatchUpJoins DEF AgreeInv
    <3>3. Current' = Current /\ Looked
      BY <1>5, <2>4, SameCurrent, CurrentStreams DEF Looked, Looks
    <3>4. BlankInv'
      BY <1>4, <1>5, <2>4, BlankStays DEF AgreeInv, JobsPlaced
    <3> QED BY <1>2, <1>4, <2>4, <3>2, <3>3, <3>4, SilentTells DEF AgreeInv
  <2> QED BY <1>5, <2>3, <2>4 DEF CatchUp
<1>6. CASE task.do = "teardown" /\ IsCurrent(task.s) /\ Teardown(task.s, stream[task.s]) /\ UNCHANGED <<consumer, turn>>
  <2>1. task.s \in Streams /\ stream[task.s] \in StreamObject
    BY <1>1, <1>6 DEF Tasks, TypeOK
  <2>2. Torn(task.s)
    BY <1>6, <2>1, TeardownTears
  <2> QED BY <1>3, <1>4, <1>6, <2>1, <2>2
<1>7. CASE task.do = "teardown" /\ UNCHANGED <<core, consumer, turn>>
  BY <1>3, <1>4, <1>7 DEF core
<1>8. CASE task.do = "terminateAll" /\ turn' = <<Every("terminateAll")>> /\ UNCHANGED <<core, consumer>>
  <2> DEFINE job == Every("terminateAll")
  <2>1. job.do = "terminateAll" /\ About(job) = {NoStream} \cup Current
    BY JobKinds DEF About
  <2> HIDE DEF job
  <2>2. turn' = <<job>>
    BY <1>8 DEF job
  <2>3. Due' = {job}
    BY <2>2, OneOrTwo DEF Due
  <2>4. Mute(Due') /\ JobsPlaced
    BY <2>1, <2>3, CurrentPlaced DEF Mute, JobsPlaced, HasChannel
  <2> QED BY <1>3, <1>8, <2>4 DEF core
<1>9. \/ task.do = "catchUp" /\ (\E c \in task.c : CatchUp(task.s, c)) /\ UNCHANGED <<subs, stream>>
      \/ task.do = "teardown" /\ IsCurrent(task.s) /\ Teardown(task.s, stream[task.s]) /\ UNCHANGED <<consumer, turn>>
      \/ task.do = "teardown" /\ UNCHANGED <<core, consumer, turn>>
      \/ task.do = "terminateAll" /\ turn' = <<Every("terminateAll")>> /\ UNCHANGED <<core, consumer>>
  BY DEF RunMicrotask, core
<1> HIDE DEF task
<1> QED BY <1>5, <1>6, <1>7, <1>8, <1>9

-----------------------------------------------------------------------------
(* Between turns: token fetches, timers, the socket, the server.           *)

LEMMA IdleQuiet ==
    ASSUME TypeOK, TypeOK', AgreeInv, turn = <<>>, UNCHANGED <<subs, consumer>>, MicroGrows,
           \A s \in Streams : Steady(s) /\ Looks(s), PlacedJobs(turn'), MuteJobs(turn')
    PROVE  CarriesOn
<1>1. Due = {} /\ Mute(Due)
  BY OneOrTwo DEF Due, Mute
<1>2. Mute(Due') /\ JobsPlaced
  BY DEF Mute, MuteJobs, JobsPlaced, PlacedJobs, Due
<1> QED BY <1>1, <1>2, QuietAgrees

LEMMA IdleSame ==
    ASSUME TypeOK, TypeOK', AgreeInv, turn = <<>>, UNCHANGED <<subs, stream, consumer>>, MicroGrows,
           PlacedJobs(turn'), MuteJobs(turn')
    PROVE  CarriesOn
<1>1. \A s \in Streams : Steady(s) /\ Looks(s)
  BY DEF Steady, Looks
<1> QED BY <1>1, IdleQuiet

LEMMA IdleDelivers ==
    ASSUME TypeOK, TypeOK', AgreeInv, turn = <<>>, UNCHANGED <<subs, consumer, micro>>,
           \A t \in Streams : Steady(t),
           NEW s \in Streams, IsCurrent(s), NEW ev \in Events, Changed(s, ev), \A t \in Streams \ {s} : Looks(t),
           PlacedJobs(turn'), turn' # <<>>, turn'[1] = Deliver(s, ev),
           \A i \in DOMAIN turn' : i # 1 => turn'[i].do \notin {"deliver", "call"}
    PROVE  CarriesOn
<1>1. Due = {} /\ Mute(Due)
  BY OneOrTwo DEF Due, Mute
<1>2. JobsPlaced
  BY DEF JobsPlaced, PlacedJobs, Due
<1>3. Delivers(s, ev)
  BY DEF Delivers
<1> QED BY <1>1, <1>2, <1>3, DeliverAgrees DEF MicroGrows

\* The jobs that report or end something.
LEMMA QuietJobs ==
    ASSUME TypeOK, RequestsInv
    PROVE  /\ PlacedJobs(<<>>) /\ MuteJobs(<<>>)
           /\ \A do \in {"terminateAll", "reportAll"} : PlacedJobs(<<Every(do)>>) /\ MuteJobs(<<Every(do)>>)
           /\ PlacedJobs(AfterTokenFailure) /\ MuteJobs(AfterTokenFailure)
           /\ PlacedJobs(<<Step("closed", NoStream)>>) /\ MuteJobs(<<Step("closed", NoStream)>>)
           /\ \A s : HasChannel(s) =>
                /\ PlacedJobs(<<Step("terminate", s)>>) /\ MuteJobs(<<Step("terminate", s)>>)
                /\ PlacedJobs(<<Step("unstale", s)>>) /\ MuteJobs(<<Step("unstale", s)>>)
                /\ PlacedJobs(<<Report(s)>>) /\ MuteJobs(<<Report(s)>>)
                /\ \A ev, socks : LET retry == Job("retry", s, ev, socks)
                                  IN  PlacedJobs(<<Report(s), retry>>) /\ MuteJobs(<<Report(s), retry>>)
<1>1. ASSUME NEW do \in {"terminateAll", "reportAll"}
      PROVE  (\A s \in About(Every(do)) : HasChannel(s)) /\ Every(do).do = do
  BY JobKinds, CurrentPlaced DEF About, HasChannel
<1>2. ASSUME NEW do \in {"terminate", "unstale", "closed", "schedule"}, NEW s, HasChannel(s)
      PROVE  (\A t \in About(Step(do, s)) : HasChannel(t)) /\ Step(do, s).do = do
  BY <1>2, JobKinds DEF About
<1>3. ASSUME NEW s, HasChannel(s)
      PROVE  (\A t \in About(Report(s)) : HasChannel(t)) /\ Report(s).do = "report"
  BY <1>3, JobKinds DEF About
<1>4. ASSUME NEW s, HasChannel(s), NEW ev, NEW socks
      PROVE  LET j == Job("retry", s, ev, socks) IN (\A t \in About(j) : HasChannel(t)) /\ j.do = "retry"
  BY <1>4, JobKinds DEF About
<1>5. HasChannel(NoStream)
  BY DEF HasChannel
<1>6. \A do \in {"terminateAll", "reportAll"} : PlacedJobs(<<Every(do)>>) /\ MuteJobs(<<Every(do)>>)
  <2> SUFFICES ASSUME NEW do \in {"terminateAll", "reportAll"} PROVE PlacedJobs(<<Every(do)>>) /\ MuteJobs(<<Every(do)>>)
    OBVIOUS
  <2> DEFINE j == Every(do)
  <2>1. (\A s \in About(j) : HasChannel(s)) /\ j.do \notin {"deliver", "call"}
    BY <1>1
  <2> HIDE DEF j
  <2>2. PlacedJobs(<<j>>) /\ MuteJobs(<<j>>)
    BY <2>1, FewJobs
  <2> QED BY <2>2 DEF j
<1>7. \A s : \A do \in {"terminate", "unstale", "closed"} : HasChannel(s) => PlacedJobs(<<Step(do, s)>>) /\ MuteJobs(<<Step(do, s)>>)
  <2> SUFFICES ASSUME NEW s, NEW do \in {"terminate", "unstale", "closed"}, HasChannel(s)
               PROVE  PlacedJobs(<<Step(do, s)>>) /\ MuteJobs(<<Step(do, s)>>)
    OBVIOUS
  <2> DEFINE j == Step(do, s)
  <2>1. (\A t \in About(j) : HasChannel(t)) /\ j.do \notin {"deliver", "call"}
    BY <1>2
  <2> HIDE DEF j
  <2>2. PlacedJobs(<<j>>) /\ MuteJobs(<<j>>)
    BY <2>1, FewJobs
  <2> QED BY <2>2 DEF j
<1>8. PlacedJobs(AfterTokenFailure) /\ MuteJobs(AfterTokenFailure)
  <2> DEFINE i == Every("reportAll")
             j == Step("schedule", NoStream)
  <2>1. /\ (\A s \in About(i) : HasChannel(s)) /\ i.do \notin {"deliver", "call"}
        /\ (\A s \in About(j) : HasChannel(s)) /\ j.do \notin {"deliver", "call"}
    BY <1>1, <1>2, <1>5
  <2> HIDE DEF i, j
  <2>2. PlacedJobs(<<i, j>>) /\ MuteJobs(<<i, j>>)
    BY <2>1, FewJobs
  <2> QED BY <2>2 DEF i, j, AfterTokenFailure
<1>9. ASSUME NEW s, HasChannel(s), NEW ev, NEW socks
      PROVE  LET retry == Job("retry", s, ev, socks)
             IN  /\ PlacedJobs(<<Report(s)>>) /\ MuteJobs(<<Report(s)>>)
                 /\ PlacedJobs(<<Report(s), retry>>) /\ MuteJobs(<<Report(s), retry>>)
  <2> DEFINE i == Report(s)
             j == Job("retry", s, ev, socks)
  <2>1. /\ (\A t \in About(i) : HasChannel(t)) /\ i.do \notin {"deliver", "call"}
        /\ (\A t \in About(j) : HasChannel(t)) /\ j.do \notin {"deliver", "call"}
    BY <1>3, <1>4, <1>9
  <2> HIDE DEF i, j
  <2>2. PlacedJobs(<<i>>) /\ MuteJobs(<<i>>) /\ PlacedJobs(<<i, j>>) /\ MuteJobs(<<i, j>>)
    BY <2>1, FewJobs
  <2> QED BY <2>2 DEF i, j
<1>10. PlacedJobs(<<Step("closed", NoStream)>>) /\ MuteJobs(<<Step("closed", NoStream)>>)
  BY <1>5, <1>7
<1>11. \A s : HasChannel(s) => /\ PlacedJobs(<<Step("terminate", s)>>) /\ MuteJobs(<<Step("terminate", s)>>)
                               /\ PlacedJobs(<<Step("unstale", s)>>) /\ MuteJobs(<<Step("unstale", s)>>)
  BY <1>7
<1>12. ASSUME NEW s, HasChannel(s)
       PROVE  /\ PlacedJobs(<<Report(s)>>) /\ MuteJobs(<<Report(s)>>)
              /\ \A ev, socks : LET retry == Job("retry", s, ev, socks)
                                IN  PlacedJobs(<<Report(s), retry>>) /\ MuteJobs(<<Report(s), retry>>)
  BY <1>9, <1>12
<1>13. PlacedJobs(<<>>) /\ MuteJobs(<<>>)
  BY FewJobs
<1> QED BY <1>6, <1>8, <1>10, <1>11, <1>12, <1>13

LEMMA NamedPlaced ==
    ASSUME Created
    PROVE  /\ \A p \in req.pending : HasChannel(p.s) /\ stream[p.s].channel # NoChannel
           /\ \A b \in req.bySub : HasChannel(b.s) /\ stream[b.s].channel # NoChannel
           /\ \A f \in fetches : HasChannel(f.s)
BY SentinelAssumption DEF Created, Named, HasChannel

LEMMA FetchAgrees ==
    ASSUME TypeOK, TypeOK', Created, RequestsInv, AgreeInv, FetchSettles
    PROVE  CarriesOn
<1>1. PICK f \in fetches :
         \/ /\ Wanted(f)
            /\ \/ f.kind = "connect"   /\ ConnectToken(f)
               \/ f.kind = "reauth"    /\ ReauthToken
               \/ f.kind = "subscribe" /\ SubscribeToken(f)
               \/ f.kind = "refresh"   /\ RefreshToken(f)
         \/ ~Wanted(f) /\ UNCHANGED <<core, turn>>
  BY DEF FetchSettles
<1>2. turn = <<>> /\ UNCHANGED <<micro, consumer>> /\ HasChannel(f.s)
  BY NamedPlaced DEF FetchSettles
<1>3. UNCHANGED <<subs, stream>>
  BY <1>1 DEF core, ConnectToken, ReauthToken, SubscribeToken, RefreshToken
<1>4. PlacedJobs(turn') /\ MuteJobs(turn')
  <2>1. CASE turn' = turn
    BY <1>2, <2>1, QuietJobs
  <2>2. CASE ConnectToken(f)
    BY <1>2, <2>1, <2>2, QuietJobs DEF ConnectToken
  <2>3. CASE ReauthToken
    <3>1. ASSUME NEW terminal \in BOOLEAN, turn' = <<Every(IF terminal THEN "terminateAll" ELSE "reportAll")>>
          PROVE  PlacedJobs(turn') /\ MuteJobs(turn')
      BY <3>1, QuietJobs
    <3> QED BY <2>1, <2>3, <3>1 DEF ReauthToken
  <2>4. CASE SubscribeToken(f)
    <3>1. ASSUME NEW terminal \in BOOLEAN,
                 turn' = IF terminal THEN <<Step("terminate", f.s)>>
                         ELSE <<Report(f.s), Job("retry", f.s, Link("disconnected"), {f.ws})>>
          PROVE  PlacedJobs(turn') /\ MuteJobs(turn')
      BY <1>2, <3>1, QuietJobs
    <3> QED BY <2>1, <2>4, <3>1 DEF SubscribeToken
  <2>5. CASE RefreshToken(f)
    BY <1>2, <2>1, <2>5, QuietJobs DEF RefreshToken
  <2> QED BY <1>1, <2>1, <2>2, <2>3, <2>4, <2>5
<1> QED BY <1>2, <1>3, <1>4, IdleSame DEF MicroGrows

LEMMA TimersAgree ==
    ASSUME TypeOK, TypeOK', RequestsInv, AgreeInv, ReconnectTimer \/ (\E s \in Streams : RetryTimer(s)) \/ SocketOpens
    PROVE  CarriesOn
<1>1. turn = <<>> /\ UNCHANGED <<subs, consumer, turn>> /\ PlacedJobs(turn') /\ MuteJobs(turn')
  BY QuietJobs DEF ReconnectTimer, RetryTimer, SocketOpens, Idle
<1>2. CASE ReconnectTimer
  <2>1. MicroGrows /\ UNCHANGED stream
    BY <1>2, OpenGrows DEF ReconnectTimer, MicroGrows
  <2> QED BY <1>1, <2>1, IdleSame
<1>3. ASSUME NEW s \in Streams, RetryTimer(s)
      PROVE  CarriesOn
  <2>1. UNCHANGED micro /\ stream' = [stream EXCEPT ![s].retryTimer = 0] /\ stream[s].retryTimer # 0
    BY <1>3 DEF RetryTimer
  <2>2. stream[s].channel # NoChannel
    BY <2>1 DEF RequestsInv, Settled
  <2>3. \A t \in Streams : Steady(t) /\ Looks(t)
    BY <2>1, <2>2 DEF Steady, Looks, TypeOK, StreamObject
  <2> QED BY <1>1, <2>1, <2>3, IdleQuiet DEF MicroGrows
<1>4. CASE SocketOpens
  BY <1>1, <1>4, IdleSame DEF SocketOpens, MicroGrows
<1> QED BY <1>2, <1>3, <1>4

LEMMA ClosedAgrees ==
    ASSUME TypeOK, TypeOK', RequestsInv, AgreeInv, turn = <<>>, NEW terminal \in BOOLEAN, Closed(terminal)
    PROVE  CarriesOn
<1>1. /\ UNCHANGED <<subs, micro, consumer>>
      /\ stream' = [s \in Streams |-> IF IsCurrent(s) THEN Detached(stream[s]) ELSE stream[s]]
      /\ turn' = IF Current = {} THEN <<>>
                 ELSE <<IF terminal THEN Every("terminateAll") ELSE Step("closed", NoStream)>>
  BY DEF Closed
<1>2. PlacedJobs(turn') /\ MuteJobs(turn')
  BY <1>1, QuietJobs DEF HasChannel
<1>3. ASSUME NEW s \in Streams
      PROVE  Steady(s) /\ Looks(s)
  <2>1. stream[s] \in StreamObject /\ (IsCurrent(s) => stream[s].channel # NoChannel)
    BY CurrentPlaced DEF TypeOK, IsCurrent
  <2>2. stream'[s] = IF IsCurrent(s) THEN Detached(stream[s]) ELSE stream[s]
    BY <1>1
  <2> QED BY <2>1, <2>2 DEF Detached, StreamObject, Steady, Looks
<1> QED BY <1>1, <1>2, <1>3, IdleQuiet DEF MicroGrows

LEMMA SocketAgrees ==
    ASSUME TypeOK, TypeOK', RequestsInv, AgreeInv, SocketCloses \/ HeartbeatTimer
    PROVE  CarriesOn
<1>1. turn = <<>> /\ \E terminal \in BOOLEAN : Closed(terminal)
  BY DEF SocketCloses, HeartbeatTimer, Idle
<1> QED BY <1>1, ClosedAgrees

LEMMA ServerAgrees ==
    ASSUME TypeOK, TypeOK', RequestsInv, AgreeInv, Server \/ OnGarbledFrame
    PROVE  CarriesOn
<1>1. UNCHANGED <<subs, stream, micro, consumer>> /\ turn = <<>>
      /\ turn' \in {<<>>, <<Every("reportAll")>>}
  BY DEF Server, AccountMoves, ServerSends, FrameLost, ConnectionEnds, OnGarbledFrame, Answered, core, Idle
<1>2. PlacedJobs(turn') /\ MuteJobs(turn')
  BY <1>1, QuietJobs
<1> QED BY <1>1, <1>2, IdleSame DEF MicroGrows

-----------------------------------------------------------------------------
(* Frames.                                                                 *)

\* The fields of a stream that its consumers, or its lasting place, depend on.
Seen(r) == [channel |-> r.channel, consumers |-> r.consumers, orders |-> r.orders,
            state |-> r.state, stale |-> r.stale]

LEMMA EventKinds ==
    /\ \A type : Link(type).type = type
    /\ \A view : Snapshot(view).type = "snapshot" /\ Snapshot(view).view = view
    /\ \A n : UnitEvent(n).type = "unit" /\ UnitEvent(n).pos = n
    /\ \A scope : Stale(scope).type = "stale" /\ Stale(scope).stale = scope
BY DEF Link, Snapshot, UnitEvent, Stale, Event

LEMMA AnsweredAgrees ==
    ASSUME TypeOK, TypeOK', AgreeInv, turn = <<>>, UNCHANGED <<micro, consumer>>,
           NEW q, NEW jobs, Answered(q, jobs), PlacedJobs(jobs), MuteJobs(jobs)
    PROVE  CarriesOn
<1>1. UNCHANGED <<subs, stream>> /\ turn' = jobs
  BY DEF Answered
<1> QED BY <1>1, IdleSame DEF MicroGrows

LEMMA FrameQuiet ==
    ASSUME TypeOK, TypeOK', AgreeInv, turn = <<>>, UNCHANGED <<subs, micro, consumer>>,
           NEW s \in Streams, stream[s].channel # NoChannel, NEW r, Seen(r) = Seen(stream[s]),
           stream' = [stream EXCEPT ![s] = r], PlacedJobs(turn'), MuteJobs(turn')
    PROVE  CarriesOn
<1>1. /\ r.channel = stream[s].channel /\ r.consumers = stream[s].consumers /\ r.orders = stream[s].orders
      /\ r.state = stream[s].state /\ r.stale = stream[s].stale
  BY DEF Seen
<1>2. \A t \in Streams : Steady(t) /\ Looks(t)
  BY <1>1 DEF Steady, Looks, TypeOK
<1> QED BY <1>2, IdleQuiet DEF MicroGrows

LEMMA FrameDelivers ==
    ASSUME TypeOK, TypeOK', RequestsInv, AgreeInv, turn = <<>>, UNCHANGED <<subs, micro, consumer>>,
           NEW s \in Streams, IsCurrent(s), NEW r, r.channel = stream[s].channel, r.consumers = stream[s].consumers,
           stream' = [stream EXCEPT ![s] = r], NEW ev \in Events, Changed(s, ev),
           turn' = <<Deliver(s, ev)>> \/ turn' = <<Deliver(s, ev), Step("unstale", s)>>
    PROVE  CarriesOn
<1>1. stream[s].channel # NoChannel /\ HasChannel(s)
  BY CurrentPlaced DEF IsCurrent
<1>2. /\ \A t \in Streams : Steady(t)
      /\ \A t \in Streams \ {s} : Looks(t)
  BY <1>1 DEF Steady, Looks, TypeOK
<1> DEFINE one == Deliver(s, ev)
           two == Step("unstale", s)
<1>3. About(one) = {s} /\ About(two) = {s} /\ two.do = "unstale"
  BY JobKinds DEF About
<1> HIDE DEF one, two
<1>4. /\ turn' = <<one>> \/ turn' = <<one, two>>
  BY DEF one, two
<1>5. PlacedJobs(turn') /\ turn' # <<>> /\ turn'[1] = one
      /\ \A i \in DOMAIN turn' : i # 1 => turn'[i].do \notin {"deliver", "call"}
  BY <1>1, <1>3, <1>4, FewJobs, OneOrTwo
<1>6. turn'[1] = Deliver(s, ev)
  BY <1>5 DEF one
<1> QED BY <1>2, <1>5, <1>6, IdleDelivers

LEMMA ResubscribeAgrees ==
    ASSUME TypeOK, TypeOK', RequestsInv, AgreeInv, turn = <<>>, UNCHANGED <<micro, consumer>>,
           NEW s \in Streams, IsCurrent(s), NEW r \in StreamObject, Seen(r) = Seen(stream[s]),
           NEW q, NEW n, Resubscribe(s, r, q, n)
    PROVE  CarriesOn
<1> DEFINE gone == [r EXCEPT !.sub = 0, !.seq = 0, !.staged = NoView,
                             !.state = IF @ = "connected" THEN "disconnected" ELSE @]
           ev == Link("disconnected")
<1>1. /\ Seen(Retrying(gone, conn.ws)) = Seen(gone) /\ Seen([gone EXCEPT !.retries = 1]) = Seen(gone)
      /\ gone.channel = r.channel /\ gone.consumers = r.consumers /\ gone.orders = r.orders
      /\ gone.stale = r.stale /\ gone.state = IF r.state = "connected" THEN "disconnected" ELSE r.state
  BY DEF Seen, StreamObject, Retrying
<1>2. UNCHANGED subs /\ \E x : stream' = [stream EXCEPT ![s] = x] /\ Seen(x) = Seen(gone)
  BY <1>1 DEF Resubscribe
<1> HIDE DEF gone
<1>3. PICK x : stream' = [stream EXCEPT ![s] = x] /\ Seen(x) = Seen(gone)
  BY <1>2
<1>4. turn' = IF r.state = "connected" THEN <<Deliver(s, ev)>> ELSE <<>>
  BY DEF Resubscribe
<1>5. ev \in Events /\ ev.type = "disconnected"
  BY EventTypes, EventKinds
<1> HIDE DEF ev
<1>6. /\ r.channel = stream[s].channel /\ r.consumers = stream[s].consumers /\ r.orders = stream[s].orders
      /\ r.state = stream[s].state /\ r.stale = stream[s].stale
  BY DEF Seen
<1>7. /\ x.channel = stream[s].channel /\ x.consumers = stream[s].consumers /\ x.orders = stream[s].orders
      /\ x.stale = stream[s].stale /\ x.state = IF stream[s].state = "connected" THEN "disconnected" ELSE stream[s].state
  BY <1>1, <1>3, <1>6 DEF Seen
<1>8. CASE stream[s].state = "connected"
  <2>1. stream'[s] = x
    BY <1>3 DEF TypeOK
  <2>2. Changed(s, ev)
    BY <1>5, <1>7, <1>8, <2>1 DEF Changed, Links, OrderNews
  <2> QED BY <1>2, <1>3, <1>4, <1>5, <1>6, <1>7, <1>8, <2>2, FrameDelivers
<1>9. CASE stream[s].state # "connected"
  <2>1. Seen(x) = Seen(stream[s]) /\ stream[s].channel # NoChannel
    BY <1>7, <1>9, CurrentPlaced DEF Seen, IsCurrent
  <2>2. PlacedJobs(turn') /\ MuteJobs(turn')
    BY <1>4, <1>6, <1>9, FewJobs
  <2> QED BY <1>2, <1>3, <2>1, <2>2, FrameQuiet
<1> QED BY <1>8, <1>9

LEMMA EndedAgrees ==
    ASSUME TypeOK, TypeOK', RequestsInv, AgreeInv, turn = <<>>, UNCHANGED <<micro, consumer>>,
           NEW s \in Streams, IsCurrent(s), NEW q, Ended(s, q)
    PROVE  CarriesOn
<1> DEFINE r == [stream[s] EXCEPT !.sub = 0]
           q1 == Unnamed(q, stream[s].sub)
<1>1. r \in StreamObject /\ Seen(r) = Seen(stream[s])
  BY DEF TypeOK, StreamObject, Seen
<1>2. Resubscribe(s, r, q1, Read)
  BY DEF Ended
<1> HIDE DEF r, q1
<1> QED BY <1>1, <1>2, ResubscribeAgrees

LEMMA OnSubscribedAgrees ==
    ASSUME TypeOK, TypeOK', RequestsInv, AgreeInv, turn = <<>>, UNCHANGED <<micro, consumer>>,
           NEW f, OnSubscribed(f)
    PROVE  CarriesOn
<1>1. ASSUME NEW s \in Streams, Request(f.id, "subscribe", s) \in req.pending, UNCHANGED subs,
             stream' = [stream EXCEPT ![s].sub = f.sub, ![s].seq = 0, ![s].state = "connected"],
             turn' = (IF stream[s].state = "connected" THEN <<>>
                      ELSE <<Deliver(s, Link("connected"))>>) \o <<Step("unstale", s)>>
      PROVE  CarriesOn
  <2> DEFINE ev == Link("connected")
             one == Deliver(s, ev)
             two == Step("unstale", s)
             r == [stream[s] EXCEPT !.sub = f.sub, !.seq = 0, !.state = "connected"]
  <2>1. IsCurrent(s) /\ stream[s].channel # NoChannel /\ HasChannel(s)
    <3>1. Request(f.id, "subscribe", s).s = s
      BY DEF Request
    <3>2. IsCurrent(s)
      BY <1>1, <3>1, OwnNames
    <3> QED BY <3>2, CurrentPlaced DEF IsCurrent
  <2>2. ev \in Events /\ ev.type = "connected" /\ one \in Jobs /\ two \in Jobs
    BY EventTypes, EventKinds, JobTypes
  <2>3. /\ r.channel = stream[s].channel /\ r.consumers = stream[s].consumers /\ r.orders = stream[s].orders
        /\ r.stale = stream[s].stale /\ r.state = "connected" /\ stream' = [stream EXCEPT ![s] = r] /\ stream'[s] = r
    BY <1>1 DEF TypeOK, StreamObject
  <2>4. turn' = IF stream[s].state = "connected" THEN <<two>> ELSE <<one, two>>
    <3>1. <<two>> \in Seq(Jobs) /\ <<one>> \o <<two>> = <<one, two>>
      BY <2>2, PairOfJobs
    <3>2. turn' = (IF stream[s].state = "connected" THEN <<>> ELSE <<one>>) \o <<two>>
      BY <1>1
    <3> HIDE DEF one, two
    <3>3. <<>> \o <<two>> = <<two>>
      BY <3>1
    <3> QED BY <3>1, <3>2, <3>3
  <2> HIDE DEF r, ev
  <2>5. CASE stream[s].state = "connected"
    <3>1. Seen(r) = Seen(stream[s])
      BY <2>3, <2>5 DEF Seen
    <3>2. PlacedJobs(turn') /\ MuteJobs(turn')
      BY <2>1, <2>4, <2>5, QuietJobs
    <3> QED BY <1>1, <2>1, <2>3, <3>1, <3>2, FrameQuiet
  <2>6. CASE stream[s].state # "connected"
    <3>1. Changed(s, ev)
      BY <2>2, <2>3, <2>6 DEF Changed, Links, OrderNews
    <3> QED BY <1>1, <2>1, <2>2, <2>3, <2>4, <2>6, <3>1, FrameDelivers
  <2> QED BY <2>5, <2>6
<1>2. CASE DropUnwanted(f)
  <2>1. UNCHANGED <<subs, stream, turn>>
    BY <1>2 DEF DropUnwanted
  <2>2. PlacedJobs(turn') /\ MuteJobs(turn')
    BY <2>1, FewJobs
  <2> QED BY <2>1, <2>2, IdleSame DEF MicroGrows
<1> QED BY <1>1, <1>2 DEF OnSubscribed

LEMMA OnErrorAgrees ==
    ASSUME TypeOK, TypeOK', Created, RequestsInv, AgreeInv, turn = <<>>, UNCHANGED <<micro, consumer>>,
           NEW f, OnError(f)
    PROVE  CarriesOn
<1> DEFINE asked == {p \in req.pending : p.id = f.id}
           Other(s) == IF f.note = "unknown" /\ stream[s].sub = f.sub THEN Ended(s, Forget(f.id))
                       ELSE Answered(Forget(f.id), <<Report(s)>>)
<1>1. ASSUME NEW s \in Streams, IsCurrent(s), Other(s)
      PROVE  CarriesOn
  <2>1. HasChannel(s)
    BY <1>1, CurrentPlaced DEF IsCurrent
  <2>2. Ended(s, Forget(f.id)) \/ Answered(Forget(f.id), <<Report(s)>>)
    BY <1>1
  <2> QED BY <1>1, <2>1, <2>2, EndedAgrees, AnsweredAgrees, QuietJobs
<1>2. ASSUME NEW p \in asked, SubscribeError(p.s, f)
      PROVE  CarriesOn
  <2> DEFINE s == p.s
  <2>1. s \in Streams /\ HasChannel(s) /\ stream[s].channel # NoChannel
    BY <1>2, NamedPlaced DEF TypeOK, Tables, Requests
  <2>2. CASE f.note = "cursorInvalid"
    <3>1. stream' = [stream EXCEPT ![s].cursor = NoCursor] /\ UNCHANGED <<subs, turn>>
      BY <1>2, <2>2 DEF SubscribeError
    <3> DEFINE r == [stream[s] EXCEPT !.cursor = NoCursor]
    <3>2. stream' = [stream EXCEPT ![s] = r] /\ Seen(r) = Seen(stream[s])
      BY <2>1, <3>1 DEF TypeOK, StreamObject, Seen
    <3> HIDE DEF r, s
    <3>3. PlacedJobs(turn') /\ MuteJobs(turn')
      BY <3>1, FewJobs
    <3> QED BY <2>1, <3>1, <3>2, <3>3, FrameQuiet
  <2>3. CASE f.note # "cursorInvalid"
    <3>1. Answered(Forget(f.id), <<Step("terminate", s)>>)
      BY <1>2, <2>3 DEF SubscribeError
    <3> QED BY <2>1, <3>1, AnsweredAgrees, QuietJobs
  <2> QED BY <2>2, <2>3
<1>3. ASSUME NEW p \in asked, Other(p.s)
      PROVE  CarriesOn
  <2>1. p.s \in Streams /\ IsCurrent(p.s)
    BY OwnNames DEF TypeOK, Tables, Requests
  <2> QED BY <1>1, <1>3, <2>1
<1>4. ASSUME NEW b \in req.bySub, Other(b.s)
      PROVE  CarriesOn
  <2>1. b.s \in Streams /\ IsCurrent(b.s)
    BY OwnNames DEF TypeOK, Tables
  <2> QED BY <1>1, <1>4, <2>1
<1>5. ASSUME NEW q, Answered(q, <<>>) \/ Answered(q, <<Every("reportAll")>>)
      PROVE  CarriesOn
  BY <1>5, AnsweredAgrees, QuietJobs
<1>6. \/ Answered([req EXCEPT !.unsubscribing = @ \ {f.id}], <<>>)
      \/ Answered(req, <<>>)
      \/ \E p \in asked : SubscribeError(p.s, f) \/ Other(p.s)
      \/ \E b \in req.bySub : Other(b.s)
      \/ Answered(req, <<Every("reportAll")>>)
  BY DEF OnError
<1> HIDE DEF asked, Other
<1> QED BY <1>2, <1>3, <1>4, <1>5, <1>6

\* A unit changes the view its stream has.
LEMMA UnitFollows ==
    ASSUME TypeOK, RequestsInv, InStep, net.wire # <<>>, NEW b \in req.bySub,
           NEW f, f = Head(net.wire), f.sub = b.sub, f.kind = "unit", InSequence(b.s, f)
    PROVE  stream[b.s].orders # NoView
<1> DEFINE s == b.s
           x == stream[s]
<1>1. s \in Streams /\ IsCurrent(s) /\ x.sub # 0 /\ x.sub = b.sub
  BY OwnNames DEF TypeOK, Tables
<1>2. x \in StreamObject /\ f \in Sent(net) /\ f \in Frames /\ f.seq \in Nat /\ f.pos \in Cursors
  BY <1>1, ReadCarries, FrameFields, SentFields DEF TypeOK
<1>3. f.seq = x.seq + 1 /\ Covers(f)
  BY <1>1, <1>2 DEF InStep, InOrder, InSequence, Sequenced, Changes
<1>4. Fits(f, x.cursor, x.staged)
  BY <1>1, <1>2, <1>3 DEF InStep, ReadersInv, Reads
<1>5. f.pos \in Positions \ {0} /\ x.cursor = f.pos - 1
  BY <1>3, <1>4 DEF Fits, Covers, Changes
<1>6. f.pos - 1 \in Positions /\ f.pos - 1 # NoCursor
  <2>1. f.pos - 1 # NoCursor
    BY <1>5, LastUnit DEF NoCursor
  <2> QED BY <1>5, <2>1, ViewSteps
<1>7. x.orders = ViewAt(f.pos - 1)
  BY <1>1, <1>5, <1>6 DEF InStep, HeldInv
<1> QED BY <1>6, <1>7, ViewTypes DEF Cursors

LEMMA OnStreamFrameAgrees ==
    ASSUME TypeOK, TypeOK', RequestsInv, InStep, AgreeInv, turn = <<>>, UNCHANGED <<micro, consumer>>,
           net.wire # <<>>, NEW b \in req.bySub, NEW f, f = Head(net.wire), f.sub = b.sub, OnStreamFrame(b.s, f)
    PROVE  CarriesOn
<1> DEFINE s == b.s
           x == stream[s]
           r == IF f.seq > 0 THEN [stream[s] EXCEPT !.seq = f.seq] ELSE stream[s]
<1>1. s \in Streams /\ IsCurrent(s) /\ x \in StreamObject /\ x.channel # NoChannel
  BY OwnNames, CurrentPlaced DEF TypeOK, Tables, IsCurrent
<1>2. f \in Frames
  BY ReadCarries
<1>3. r \in StreamObject /\ Seen(r) = Seen(x)
  BY <1>1, <1>2, FrameFields DEF StreamObject, Seen
<1>4. ASSUME NEW y, Seen(y) = Seen(x), Update(s, y, <<>>)
      PROVE  CarriesOn
  <2>1. stream' = [stream EXCEPT ![s] = y] /\ UNCHANGED subs /\ turn' = <<>>
    BY <1>4 DEF Update
  <2>2. PlacedJobs(turn') /\ MuteJobs(turn')
    BY <2>1, FewJobs
  <2> HIDE DEF s
  <2> QED BY <1>1, <1>4, <2>1, <2>2, FrameQuiet
<1>5. ASSUME NEW y, y.channel = x.channel, y.consumers = x.consumers, y.state = x.state,
             NEW ev \in Events, ev.type \notin Links, Update(s, y, <<Deliver(s, ev)>>),
             \/ ev.type = "snapshot" /\ ev.view = y.orders /\ y.stale = x.stale
             \/ ev.type = "unit" /\ x.orders # NoView /\ y.orders = Apply(x.orders, ev.pos) /\ y.stale = x.stale
             \/ ev.type = "stale" /\ y.orders = x.orders /\ y.stale = ev.stale
      PROVE  CarriesOn
  <2>1. stream' = [stream EXCEPT ![s] = y] /\ UNCHANGED subs /\ turn' = <<Deliver(s, ev)>>
    BY <1>5 DEF Update
  <2>2. stream'[s] = y
    BY <1>1, <2>1 DEF TypeOK
  <2>3. Changed(s, ev)
    BY <1>5, <2>2 DEF Changed, Links, OrderNews
  <2> HIDE DEF s
  <2> QED BY <1>1, <1>5, <2>1, <2>3, FrameDelivers
<1>6. CASE Resubscribe(s, x, req, Read)
  BY <1>1, <1>6, ResubscribeAgrees
<1>7. CASE Ended(s, req)
  BY <1>1, <1>7, EndedAgrees
<1>8. CASE UNCHANGED <<core, turn>>
  <2>1. PlacedJobs(turn') /\ MuteJobs(turn') /\ UNCHANGED <<subs, stream>>
    BY <1>8, FewJobs DEF core
  <2> QED BY <2>1, IdleSame DEF MicroGrows
<1>9. CASE SnapshotEnd(s, f)
  <2> DEFINE z == [x EXCEPT !.seq = f.seq, !.staged = NoView]
             view == x.staged
  <2>1. CASE Resubscribe(s, [z EXCEPT !.cursor = NoCursor], req, Read)
    <3> DEFINE y == [z EXCEPT !.cursor = NoCursor]
    <3>1. y \in StreamObject /\ Seen(y) = Seen(x)
      BY <1>1, <1>2, FrameFields DEF StreamObject, MaybeView, Cursors, Seen
    <3>2. Resubscribe(s, y, req, Read)
      BY <2>1
    <3> HIDE DEF y
    <3> QED BY <1>1, <3>1, <3>2, ResubscribeAgrees
  <2>2. CASE /\ view # NoView
             /\ Update(s, [z EXCEPT !.cursor = f.pos, !.retries = 0, !.orders = view], <<Deliver(s, Snapshot(view))>>)
    <3> DEFINE y == [z EXCEPT !.cursor = f.pos, !.retries = 0, !.orders = view]
               ev == Snapshot(view)
    <3>1. /\ y.channel = x.channel /\ y.consumers = x.consumers /\ y.state = x.state
          /\ y.orders = view /\ y.stale = x.stale
      BY <1>1 DEF StreamObject
    <3>2. view \in Views
      BY <1>1, <2>2 DEF StreamObject, MaybeView
    <3>3. ev \in Events /\ ev.type = "snapshot" /\ ev.view = view /\ ev.type \notin Links
      BY <3>2, EventTypes, EventKinds DEF Links
    <3>4. Update(s, y, <<Deliver(s, ev)>>)
      BY <2>2
    <3> HIDE DEF y, ev, s, x
    <3> QED BY <1>5, <3>1, <3>3, <3>4
  <2> QED BY <1>9, <2>1, <2>2 DEF SnapshotEnd
<1>10. CASE f.kind = "unit" /\ InSequence(s, f) /\ OnUnit(s, f)
  <2> DEFINE view == IF x.orders = NoView THEN x.orders ELSE Apply(x.orders, f.pos)
             y == [x EXCEPT !.seq = f.seq, !.cursor = f.pos, !.retries = 0, !.orders = view]
             ev == UnitEvent(f.pos)
  <2>1. x.orders # NoView /\ f.pos \in Positions \ {0}
    BY <1>2, <1>10, UnitFollows, FrameFields
  <2>2. /\ y.channel = x.channel /\ y.consumers = x.consumers /\ y.state = x.state
        /\ y.orders = Apply(x.orders, f.pos) /\ y.stale = x.stale
    BY <1>1, <2>1 DEF StreamObject
  <2>3. ev \in Events /\ ev.type = "unit" /\ ev.pos = f.pos /\ ev.type \notin Links
    BY <2>1, EventTypes, EventKinds DEF Links
  <2>4. Update(s, y, <<Deliver(s, ev)>>)
    BY <1>10 DEF OnUnit
  <2> HIDE DEF y, ev, s, x
  <2> QED BY <1>5, <2>1, <2>2, <2>3, <2>4
<1>11. CASE /\ f.kind \in {"unavailable", "available"}
            /\ Update(s, [r EXCEPT !.stale = f.note], <<Deliver(s, Stale(f.note))>>)
  <2> DEFINE y == [r EXCEPT !.stale = f.note]
             ev == Stale(f.note)
  <2>1. /\ y.channel = r.channel /\ y.consumers = r.consumers /\ y.state = r.state
        /\ y.orders = r.orders /\ y.stale = f.note
    BY <1>3 DEF StreamObject
  <2>2. /\ y.channel = x.channel /\ y.consumers = x.consumers /\ y.state = x.state
        /\ y.orders = x.orders /\ y.stale = f.note
    BY <1>3, <2>1 DEF Seen
  <2>3. ev \in Events /\ ev.type = "stale" /\ ev.stale = f.note /\ ev.type \notin Links
    BY <1>2, <1>11, FrameFields, EventTypes, EventKinds DEF Links
  <2>4. Update(s, y, <<Deliver(s, ev)>>)
    BY <1>11
  <2> HIDE DEF y, ev, s, x, r
  <2> QED BY <1>5, <2>2, <2>3, <2>4
<1>12. /\ Seen([r EXCEPT !.staged = EmptyView]) = Seen(r)
       /\ \A v : Seen([r EXCEPT !.staged = IF @ = NoView THEN @ ELSE v]) = Seen(r)
       /\ \A v : Seen([r EXCEPT !.cursor = v, !.retries = 0]) = Seen(r)
       /\ Seen([r EXCEPT !.retries = 0]) = Seen(r)
  BY <1>3 DEF StreamObject, Seen
<1>13. \/ Resubscribe(s, x, req, Read)
       \/ Update(s, [r EXCEPT !.staged = EmptyView], <<>>)
       \/ Update(s, [r EXCEPT !.staged = IF @ = NoView THEN @ ELSE ViewAt(f.pos)], <<>>)
       \/ SnapshotEnd(s, f)
       \/ f.kind = "unit" /\ InSequence(s, f) /\ OnUnit(s, f)
       \/ Update(s, [r EXCEPT !.cursor = f.pos, !.retries = 0], <<>>)
       \/ Update(s, [r EXCEPT !.retries = 0], <<>>)
       \/ Update(s, r, <<>>)
       \/ /\ f.kind \in {"unavailable", "available"}
          /\ Update(s, [r EXCEPT !.stale = f.note], <<Deliver(s, Stale(f.note))>>)
       \/ UNCHANGED <<core, turn>>
       \/ Ended(s, req)
  BY DEF OnStreamFrame
<1> HIDE DEF s, x, r
<1> QED BY <1>3, <1>4, <1>6, <1>7, <1>8, <1>9, <1>10, <1>11, <1>12, <1>13

LEMMA OnFrameAgrees ==
    ASSUME TypeOK, TypeOK', Created, RequestsInv, InStep, AgreeInv, OnFrame
    PROVE  CarriesOn
<1> DEFINE f == Head(net.wire)
<1>1. turn = <<>> /\ net.wire # <<>> /\ UNCHANGED <<micro, consumer>>
  BY DEF OnFrame, Idle
<1>2. CASE \E q : Answered(q, <<>>)
  BY <1>1, <1>2, AnsweredAgrees, FewJobs
<1>3. CASE UNCHANGED <<core, turn>>
  <2>1. PlacedJobs(turn') /\ MuteJobs(turn') /\ UNCHANGED <<subs, stream>>
    BY <1>1, <1>3, FewJobs DEF core
  <2> QED BY <1>1, <2>1, IdleSame DEF MicroGrows
<1>4. CASE \E b \in req.bySub : b.sub = f.sub /\ OnStreamFrame(b.s, f)
  BY <1>1, <1>4, OnStreamFrameAgrees
<1>5. CASE OnSubscribed(f) \/ OnError(f)
  BY <1>1, <1>5, OnSubscribedAgrees, OnErrorAgrees
<1> QED BY <1>2, <1>3, <1>4, <1>5 DEF OnFrame

-----------------------------------------------------------------------------
(* Every step, and what follows.                                           *)

LEMMA StepKeepsAgree ==
    ASSUME TypeOK, Created, LinkInv, RequestsInv, InStep, AgreeInv, [Next]_vars
    PROVE  AgreeInv'
<1>1. TypeOK'
  BY StepKeepsTypes
<1>2. CASE UNCHANGED vars
  <2>1. /\ UNCHANGED <<subs, stream, micro, turn, consumer>> /\ Current' = Current /\ Due' = Due
        /\ \A s : IsCurrent(s)' <=> IsCurrent(s)
    BY <1>2 DEF vars, core, Current, IsCurrent, Due
  <2>2. Looked /\ JobsPlaced /\ MicroGrows /\ \A s \in Streams : Steady(s)
    BY <2>1 DEF Looked, Looks, JobsPlaced, MicroGrows, Steady
  <2> QED BY <1>1, <2>1, <2>2, SteadyJoins, SameTurnTells DEF AgreeInv
<1>3. CASE App
  BY <1>1, <1>3, AppAgrees
<1>4. CASE Server \/ OnGarbledFrame
  BY <1>1, <1>4, ServerAgrees DEF CarriesOn
<1>5. CASE RunMicrotask \/ FetchSettles
  BY <1>1, <1>5, RunMicrotaskAgrees, FetchAgrees DEF CarriesOn
<1>6. CASE ReconnectTimer \/ (\E s \in Streams : RetryTimer(s)) \/ SocketOpens \/ SocketCloses \/ HeartbeatTimer
  BY <1>1, <1>6, TimersAgree, SocketAgrees DEF CarriesOn
<1>7. CASE OnFrame
  BY <1>1, <1>7, OnFrameAgrees DEF CarriesOn
<1>8. CASE CallConsumer \/ CallsDone \/ NextStream \/ Resume
  BY <1>1, <1>8, CallConsumerAgrees, CallsDoneAgrees, NextStreamAgrees, ResumeAgrees DEF CarriesOn
<1> QED BY <1>2, <1>3, <1>4, <1>5, <1>6, <1>7, <1>8 DEF Next, Client

\* What the other steps change for the consumers.
LEMMA ClientContinues ==
    ASSUME TypeOK, TypeOK', Created, RequestsInv, InStep, AgreeInv, Client \/ Server
    PROVE  Continues \/ Terminates \/ RunMicrotask \/ CallConsumer \/ CallsDone
<1>1. Server \/ OnGarbledFrame \/ FetchSettles => Continues
  BY ServerAgrees, FetchAgrees DEF CarriesOn
<1>2. ReconnectTimer \/ (\E s \in Streams : RetryTimer(s)) \/ SocketOpens \/ SocketCloses \/ HeartbeatTimer => Continues
  BY TimersAgree, SocketAgrees DEF CarriesOn
<1>3. OnFrame \/ NextStream => Continues
  BY OnFrameAgrees, NextStreamAgrees DEF CarriesOn
<1>4. Resume => Continues \/ Terminates
  BY ResumeAgrees DEF CarriesOn
<1> QED BY <1>1, <1>2, <1>3, <1>4 DEF Client

LEMMA InitAgree == Init => AgreeInv
<1> SUFFICES ASSUME Init PROVE AgreeInv
  OBVIOUS
<1>1. Due = {} /\ Current = {}
  BY DEF Init, Due, Current
<1>2. JoinInv
  BY DEF Init, JoinInv, Untold, NewStream
<1>3. TasksInv
  BY DEF Init, TasksInv
<1>4. BlankInv
  BY <1>1 DEF Init, BlankInv
<1>5. TellInv
  <2>1. TurnShape
    BY DEF Init, TurnShape
  <2> QED BY <1>1, <2>1 DEF TellInv, CallsTrue, ToldAll
<1> QED BY <1>2, <1>3, <1>4, <1>5 DEF AgreeInv

-----------------------------------------------------------------------------

OrdersInv == TypeOK /\ Created /\ LinkInv /\ RequestsInv /\ InStep /\ AgreeInv

LEMMA InitOrders == Init => OrdersInv
<1> SUFFICES ASSUME Init PROVE OrdersInv
  OBVIOUS
<1>1. Created
  BY DEF Init, Created, Named, Current
<1>2. LinkInv
  BY DEF Init, LinkInv, DialledBefore, Dialled, OneConnection, Offline
<1> QED BY <1>1, <1>2, InitTypes, InitRequests, InitInStep, InitAgree DEF OrdersInv

LEMMA StepKeepsOrders == OrdersInv /\ [Next]_vars => OrdersInv'
BY StepKeepsTypes, StepKeepsCreated, StepKeepsLink, StepKeepsRequests, StepKeepsInStep, StepKeepsAgree DEF OrdersInv

LEMMA OrdersAgree == OrdersInv => ConsumersAgree
<1> SUFFICES ASSUME OrdersInv, Idle, NEW s \in Current, NEW c \in stream[s].consumers
             PROVE  /\ consumer[c].caughtUp
                    /\ consumer[c].view = stream[s].orders
                    /\ consumer[c].stale = stream[s].stale
                    /\ (consumer[c].state = "connected") <=> (stream[s].state = "connected")
  BY DEF ConsumersAgree
<1>1. s \in Streams /\ Due = {} /\ micro = <<>>
  BY CurrentStreams, OneOrTwo DEF OrdersInv, Idle, Due
<1>2. consumer[c].caughtUp
  BY <1>1, OneOrTwo DEF OrdersInv, AgreeInv, JoinInv, Promised
<1> QED BY <1>1, <1>2 DEF OrdersInv, AgreeInv, TellInv, ToldAll, KnowsLink, Owed

\* Between turns every consumer knows what its stream knows: whenever it joined,
\* whoever joined or left in a callback, and however its stream was interrupted.
THEOREM ConsumersAgreeHolds == Spec => []ConsumersAgree
BY InitOrders, StepKeepsOrders, OrdersAgree, PTL DEF Spec

LEMMA StepTellsNews ==
    ASSUME OrdersInv, [Next]_vars, NEW c \in Consumers, Calls(c)
    PROVE  IsNews(consumer[c], Head(turn).ev)
<1> DEFINE job == Head(turn)
<1>1. /\ turn # <<>> /\ turn' # <<>> /\ job.do \in {"deliver", "call"} /\ Head(turn').do = job.do
      /\ c \in job.left \ Head(turn').left
  BY DEF Calls
<1>2. TypeOK /\ AgreeInv /\ turn # turn' /\ job \in Jobs /\ job \in Due
  BY <1>1, TurnParts, TurnType DEF OrdersInv
<1>3. job.ev \in Events /\ job.s \in Streams
  BY <1>1, <1>2, DueFields DEF JobsKnown
<1>4. CASE CallConsumer
  <2>1. PICK d \in Callable(job) : Push(<<[job EXCEPT !.left = @ \ {d}, !.called = TRUE]>>)
    BY <1>4 DEF CallConsumer
  <2> DEFINE next == [job EXCEPT !.left = @ \ {d}, !.called = TRUE]
  <2>2. next \in Jobs /\ next.left = job.left \ {d}
    <3>1. job \in CallJobs
      BY <1>1, <1>2, JobFields
    <3> QED BY <3>1 DEF CallJobs, Jobs
  <2> HIDE DEF next
  <2>3. Head(turn') = next
    <3>1. <<next>> \in Seq(Jobs) /\ Push(<<next>>) /\ Len(<<next>>) = 1 /\ <<next>>[1] = next
      BY <2>1, <2>2 DEF next
    <3>2. turn'[1] = next
      <4>1. \A i \in 1 .. Len(<<next>>) : turn'[i] = <<next>>[i]
        BY <1>2, <1>1, <3>1, PushParts
      <4> QED BY <3>1, <4>1
    <3> QED BY <1>1, <3>2
  <2>4. d = c
    BY <1>1, <2>2, <2>3
  <2>5. CASE job.do = "call"
    BY <1>1, <1>2, <2>5 DEF AgreeInv, TellInv, CallsTrue, IsNews
  <2>6. CASE job.do = "deliver"
    <3>1. c \in stream[job.s].consumers /\ consumer[c].caughtUp
      BY <2>1, <2>4, <2>6 DEF Callable, Attached
    <3>2. NewsTo(job.s, c, job.ev)
      BY <1>1, <1>2, <1>3, <2>6, <3>1 DEF AgreeInv, JoinInv, TellInv, CallsTrue
    <3> QED BY <3>2 DEF NewsTo, IsNews, Links
  <2> QED BY <1>1, <2>5, <2>6
<1>5. ~CallsDone
  <2> SUFFICES ASSUME CallsDone PROVE FALSE
    OBVIOUS
  <2>1. Push(<<>>) /\ <<>> \in Seq(Jobs) /\ Len(<<>>) = 0
    BY EmptySeq DEF CallsDone, Pop
  <2>2. /\ Len(turn') \in Nat /\ Len(turn') # 0 /\ DOMAIN turn' = 1 .. Len(turn') /\ Head(turn') = turn'[1]
    <3>1. turn' \in Seq(Jobs)
      BY StepKeepsOrders DEF OrdersInv, TypeOK
    <3> QED BY <1>1, <3>1, EmptySeq, LenProperties
  <2>3. 2 \in DOMAIN turn /\ turn'[1] = turn[2] /\ 1 \in DOMAIN turn /\ turn[1] = job
    <3>1. \A i \in DOMAIN turn' : i > 0 => i + 1 \in DOMAIN turn /\ turn'[i] = turn[i + 1]
      <4>1. \A i \in DOMAIN turn' : i > Len(<<>>) =>
               i - Len(<<>>) + 1 \in DOMAIN turn \ {1} /\ turn'[i] = turn[i - Len(<<>>) + 1]
        BY <1>1, <1>2, <2>1, PushParts
      <4> QED BY <2>1, <2>2, <4>1
    <3>2. 1 \in DOMAIN turn' /\ 1 > 0 /\ 1 + 1 = 2
      BY <2>2
    <3> QED BY <1>1, <1>2, <3>1, <3>2, TurnParts
  <2>4. \E i, j \in DOMAIN turn : i = 1 /\ j = 2 /\ i < j /\ turn[j].do \in {"deliver", "call"}
    BY <1>1, <2>2, <2>3
  <2>5. turn[1].left \subseteq turn[2].left
    BY <1>2, <2>3, <2>4 DEF AgreeInv, TellInv, TurnShape
  <2> QED BY <1>1, <2>2, <2>3, <2>5
<1>6. CallConsumer
  <2>1. turn # <<>> /\ turn' # turn /\ ~NextStream /\ ~Resume
    BY <1>1, <1>2 DEF NextStream, Resume
  <2> QED BY <1>5, <2>1 DEF Next, App, Client, Server, Connect, Remove, Disconnect, RunMicrotask, FetchSettles,
          ReconnectTimer, RetryTimer, SocketOpens, SocketCloses, HeartbeatTimer, OnFrame, OnGarbledFrame, Idle,
          AccountMoves, ServerSends, FrameLost, ConnectionEnds, vars
<1> QED BY <1>4, <1>6

\* No consumer is told what it knows already: opens and closes alternate, and a
\* unit comes after the snapshot it changes.
THEOREM ConsumersHearNewsHolds == Spec => ConsumersHearNews
<1>1. OrdersInv /\ [Next]_vars => [\A c \in Consumers : Calls(c) => IsNews(consumer[c], Head(turn).ev)]_vars
  BY StepTellsNews
<1> QED BY <1>1, InitOrders, StepKeepsOrders, PTL DEF Spec, ConsumersHearNews
-----------------------------------------------------------------------------
(* Consumers that left, and consumers the stream let go of.                *)

\* c is about to be called because s was terminated.
Closing(s, c) == \E j \in Due : j.do = "call" /\ j.s = s /\ c \in j.left

\* Whoever joined s is still with it, quit, or was or is being told that s ended.
Parted(s, c) ==
    /\ stream[s].channel # NoChannel
    /\ \/ c \in quit \/ c \in stream[s].consumers
       \/ ~IsCurrent(s) /\ (consumer[c].state # "connected" \/ Closing(s, c))
PartedInv == \A c \in Consumers : consumer[c].s # NoStream => Parted(consumer[c].s, c)

LEMMA PartedStays ==
    ASSUME TypeOK, TypeOK', PartedInv, \A c \in Consumers : consumer'[c].s = consumer[c].s,
           \A c \in Consumers, s \in Streams : consumer[c].s = s /\ Parted(s, c) => Parted(s, c)'
    PROVE  PartedInv'
<1> SUFFICES ASSUME NEW c \in Consumers, NEW s \in Streams, consumer'[c].s = s
             PROVE  Parted(s, c)'
  <2>1. \A c \in Consumers : consumer'[c].s # NoStream => consumer'[c].s \in Streams
    BY DEF TypeOK, Held, MaybeStream
  <2> QED BY <2>1 DEF PartedInv
<1>1. consumer[c].s = s /\ s # NoStream
  BY SentinelAssumption
<1> QED BY <1>1 DEF PartedInv

LEMMA ContinuesParted ==
    ASSUME TypeOK, TypeOK', PartedInv, Continues, quit' = quit
    PROVE  PartedInv'
<1>1. /\ \A s, c : ~Closing(s, c)
      /\ \A s : IsCurrent(s)' <=> IsCurrent(s)
  <2>1. Current' = Current
    BY SameCurrent DEF Continues
  <2> QED BY <2>1 DEF Continues, Closing, Mute, IsCurrent
<1>2. ASSUME NEW c \in Consumers, NEW s \in Streams, Parted(s, c)
      PROVE  Parted(s, c)'
  <2>1. stream'[s].channel = stream[s].channel /\ stream'[s].consumers = stream[s].consumers /\ consumer' = consumer
    BY DEF Continues, Steady
  <2> QED BY <1>1, <1>2, <2>1 DEF Parted
<1> QED BY <1>2, PartedStays DEF Continues

LEMMA EndsParted ==
    ASSUME TypeOK, TypeOK', AgreeInv, PartedInv, Terminates, quit' = quit
    PROVE  PartedInv'
<1>1. PICK e \in Current :
        /\ Torn(e) /\ Mute(Due) /\ consumer' = consumer
        /\ \E j \in Due' : j.do = "call" /\ j.s = e /\ j.left = OwedClose(e)
  BY DEF Terminates
<1>2. Agreed /\ \A s, c : ~Closing(s, c)
  BY <1>1, MuteAgrees DEF AgreeInv, TellInv, Closing, Mute
<1>3. ASSUME NEW c \in Consumers, NEW s \in Streams, consumer[c].s = s, Parted(s, c)
      PROVE  Parted(s, c)'
  <2>1. CASE s # e
    <3>1. stream'[s] = stream[s] /\ (~IsCurrent(s) => ~IsCurrent(s)')
      BY <1>1, <2>1 DEF Torn, IsCurrent
    <3> QED BY <1>1, <1>2, <1>3, <3>1 DEF Parted
  <2>2. CASE s = e
    <3>1. stream'[s].channel # NoChannel /\ ~IsCurrent(s)'
      BY <1>1, <1>3, <2>2 DEF Torn, IsCurrent, Parted
    <3>2. c \in quit \/ c \in stream[s].consumers
      BY <1>1, <1>2, <1>3, <2>2 DEF Parted, IsCurrent
    <3>3. CASE c \in OwedClose(s)
      <4>1. Closing(s, c)'
        BY <1>1, <2>2, <3>3 DEF Closing
      <4> QED BY <3>1, <4>1 DEF Parted
    <3>4. CASE c \in stream[s].consumers /\ c \notin OwedClose(s)
      <4>1. consumer[c].caughtUp /\ stream[s].state = "disconnected"
        BY <3>4 DEF OwedClose
      <4>2. KnowsLink(s, c)
        BY <1>1, <1>2, <2>2, <3>4, <4>1 DEF Agreed
      <4>3. consumer'[c].state # "connected"
        BY <1>1, <4>1, <4>2 DEF KnowsLink
      <4> QED BY <3>1, <4>3 DEF Parted
    <3> QED BY <3>1, <3>2, <3>3, <3>4 DEF Parted
  <2> QED BY <2>1, <2>2
<1> QED BY <1>1, <1>3, PartedStays

LEMMA CallConsumerParted ==
    ASSUME TypeOK, TypeOK', AgreeInv, PartedInv, CallConsumer, quit' = quit
    PROVE  PartedInv'
<1> DEFINE job == Head(turn)
<1>1. PICK d \in Callable(job) :
        /\ Push(<<[job EXCEPT !.left = @ \ {d}, !.called = TRUE]>>)
        /\ consumer' = IF job.do = "report" THEN consumer ELSE [consumer EXCEPT ![d] = Told(@, job.ev)]
  BY DEF CallConsumer
<1> DEFINE next == [job EXCEPT !.left = @ \ {d}, !.called = TRUE]
<1>2. turn # <<>> /\ UNCHANGED <<subs, stream>> /\ Current' = Current
  BY SameCurrent DEF CallConsumer, core
<1>3. /\ job.do \in {"deliver", "report", "call"} /\ d \in job.left
      /\ job.do \in {"deliver", "report"} => d \in stream[job.s].consumers
  BY DEF Callable, Attached
<1>4. /\ job \in CallJobs /\ job.s \in Streams /\ job.ev \in Events /\ d \in Consumers /\ consumer[d] \in Held /\ job \in Due
  <2>1. job \in CallJobs /\ job.s \in Streams /\ job.ev \in Events /\ job.left \subseteq Consumers /\ job \in Due
    BY <1>2, <1>3, TurnType, TurnParts, JobFields
  <2> QED BY <1>3, <2>1 DEF TypeOK
<1>5. next \in Jobs /\ next.do = job.do /\ next.s = job.s /\ next.left = job.left \ {d}
  BY <1>4 DEF CallJobs, Jobs
<1>6. Due' = {next} \cup Later /\ Due = {job} \cup Later
  <2>1. <<next>> \in Seq(Jobs) /\ DOMAIN <<next>> = {1} /\ <<next>>[1] = next
    BY <1>5
  <2> HIDE DEF next
  <2>2. Due' = {<<next>>[i] : i \in DOMAIN <<next>>} \cup Later
    BY <1>1, <1>2, <2>1, PushParts DEF next
  <2> QED BY <1>2, <2>1, <2>2, TurnParts
<1>7. /\ \A c \in Consumers : consumer'[c].s = consumer[c].s /\ (c # d => consumer'[c] = consumer[c])
      /\ job.do = "call" => consumer'[d].state # "connected"
      /\ job.do = "report" => consumer' = consumer
  <2>1. LET n == Told(consumer[d], job.ev)
        IN  n.s = consumer[d].s /\ (job.ev.type \in Links => n.state = job.ev.type)
    BY <1>4, ToldFields
  <2>2. job.do = "call" => job.ev.type = "disconnected"
    BY <1>4 DEF AgreeInv, TellInv, CallsTrue
  <2> QED BY <1>1, <1>4, <2>1, <2>2 DEF TypeOK, Links
<1> HIDE DEF job, next
<1>8. ASSUME NEW c \in Consumers, NEW s \in Streams, consumer[c].s = s, Parted(s, c)
      PROVE  Parted(s, c)'
  <2>1. stream'[s] = stream[s] /\ (IsCurrent(s)' <=> IsCurrent(s))
    BY <1>2 DEF IsCurrent
  <2>2. CASE c # d
    <3>1. Closing(s, c) => Closing(s, c)'
      BY <1>5, <1>6, <2>2 DEF Closing
    <3> QED BY <1>7, <1>8, <2>1, <2>2, <3>1 DEF Parted
  <2>3. CASE c = d /\ job.do = "call"
    BY <1>7, <1>8, <2>1, <2>3 DEF Parted
  <2>4. CASE c = d /\ job.do # "call"
    <3>1. c \in stream[s].consumers
      BY <1>3, <1>4, <1>8, <2>4 DEF AgreeInv, JoinInv
    <3> QED BY <1>8, <2>1, <3>1 DEF Parted
  <2> QED BY <2>2, <2>3, <2>4
<1> QED BY <1>7, <1>8, PartedStays

LEMMA CallsDoneParted ==
    ASSUME TypeOK, TypeOK', AgreeInv, PartedInv, CallsDone, quit' = quit
    PROVE  PartedInv'
<1>1. /\ turn # <<>> /\ Push(<<>>) /\ UNCHANGED <<subs, stream, consumer>> /\ Callable(Head(turn)) = {}
      /\ Current' = Current
  BY SameCurrent DEF CallsDone, core, Pop
<1>2. Due' = Later /\ Due = {Head(turn)} \cup Later
  <2>1. <<>> \in Seq(Jobs) /\ DOMAIN <<>> = {}
    BY EmptySeq, OneOrTwo
  <2> QED BY <1>1, <2>1, TurnParts, PushParts
<1>3. \A s, c : Closing(s, c) => Closing(s, c)'
  BY <1>1, <1>2 DEF Closing, Callable
<1>4. \A c \in Consumers, s \in Streams : Parted(s, c) => Parted(s, c)'
  BY <1>1, <1>3 DEF Parted, IsCurrent
<1> QED BY <1>1, <1>4, PartedStays

LEMMA RunMicrotaskParted ==
    ASSUME TypeOK, TypeOK', RequestsInv, AgreeInv, PartedInv, RunMicrotask, quit' = quit
    PROVE  PartedInv'
<1> DEFINE task == Head(micro)
<1>1. task \in Tasks /\ turn = <<>> /\ micro # <<>> /\ \A s, c : ~Closing(s, c)
  BY HeadTailProperties, EmptySeq, OneOrTwo DEF RunMicrotask, TypeOK, Due, Closing
<1>2. \A c \in Consumers : consumer'[c].s = consumer[c].s /\ consumer'[c].state = consumer[c].state
  <2>1. ASSUME NEW d \in task.c, CatchUp(task.s, d), task.do = "catchUp"
        PROVE  \A c \in Consumers : consumer'[c].s = consumer[c].s /\ consumer'[c].state = consumer[c].state
    <3>1. consumer' = consumer \/ consumer' = [consumer EXCEPT ![d].caughtUp = TRUE]
      BY <2>1 DEF CatchUp
    <3>2. consumer \in [Consumers -> Held] /\ \A h \in Held : LET n == [h EXCEPT !.caughtUp = TRUE]
                                                           IN  n.s = h.s /\ n.state = h.state
      BY DEF TypeOK, Held
    <3> QED BY <3>1, <3>2
  <2>2. consumer' = consumer \/ \E d \in task.c : CatchUp(task.s, d) /\ task.do = "catchUp"
    BY DEF RunMicrotask
  <2> QED BY <2>1, <2>2
<1>3. CASE UNCHANGED core
  <2>1. UNCHANGED <<subs, stream>> /\ Current' = Current
    BY <1>3, SameCurrent DEF core
  <2>2. \A c \in Consumers, s \in Streams : Parted(s, c) => Parted(s, c)'
    BY <1>1, <1>2, <2>1 DEF Parted, IsCurrent
  <2> QED BY <1>2, <2>2, PartedStays
<1>4. CASE /\ task.do = "teardown" /\ IsCurrent(task.s) /\ stream[task.s].consumers = {}
           /\ Teardown(task.s, stream[task.s])
  <2>1. task.s \in Streams /\ stream[task.s] \in StreamObject
    BY <1>1, <1>4 DEF Tasks, TypeOK
  <2>2. Torn(task.s)
    BY <1>4, <2>1, TeardownTears
  <2>3. ASSUME NEW c \in Consumers, NEW s \in Streams, Parted(s, c)
        PROVE  Parted(s, c)'
    <3>1. /\ stream'[s].channel = stream[s].channel /\ stream'[s].consumers = stream[s].consumers
          /\ ~IsCurrent(s) => ~IsCurrent(s)'
      BY <1>4, <2>2 DEF Torn, IsCurrent
    <3> QED BY <1>1, <1>2, <2>3, <3>1 DEF Parted
  <2> QED BY <1>2, <2>3, PartedStays
<1>5. \/ UNCHANGED core
      \/ /\ task.do = "teardown" /\ IsCurrent(task.s) /\ stream[task.s].consumers = {}
         /\ Teardown(task.s, stream[task.s])
  BY DEF RunMicrotask
<1> QED BY <1>3, <1>4, <1>5

LEMMA ConnectParted ==
    ASSUME TypeOK, TypeOK', RequestsInv, AgreeInv, PartedInv, NEW c \in Consumers, NEW ch \in Channels,
           Connect(c, ch), quit' = quit
    PROVE  PartedInv'
<1>1. /\ turn' = turn /\ consumer[c].s = NoStream
      /\ \A s, d : Closing(s, d)' <=> Closing(s, d)
  BY DEF Connect, Closing, Due
<1> SUFFICES ASSUME NEW s \in Streams, consumer'[c].s = s, c \in stream'[s].consumers, stream'[s].channel # NoChannel,
                    \A d \in Consumers \ {c} : consumer'[d] = consumer[d],
                    \A t \in Streams : stream[t].channel # NoChannel =>
                       /\ stream'[t].channel = stream[t].channel /\ stream[t].consumers \subseteq stream'[t].consumers
                       /\ ~IsCurrent(t) => ~IsCurrent(t)'
             PROVE  PartedInv'
  <2>1. ASSUME NEW s \in Streams, s = subs[ch], Join(c, s)
        PROVE  /\ consumer'[c].s = s /\ c \in stream'[s].consumers /\ stream'[s].channel # NoChannel
               /\ \A d \in Consumers \ {c} : consumer'[d] = consumer[d]
               /\ \A t \in Streams : stream[t].channel # NoChannel =>
                     /\ stream'[t].channel = stream[t].channel /\ stream[t].consumers \subseteq stream'[t].consumers
                     /\ ~IsCurrent(t) => ~IsCurrent(t)'
    <3>1. s \in Current /\ subs' = subs /\ Current' = Current
      BY <2>1, SentinelAssumption, SameCurrent DEF Current, Join
    <3>2. stream[s].channel # NoChannel
      BY <3>1, CurrentPlaced
    <3>3. \A t \in Streams : /\ stream'[t].channel = stream[t].channel
                             /\ stream'[t].consumers = stream[t].consumers \cup (IF t = s THEN {c} ELSE {})
      BY <2>1 DEF Join, TypeOK, StreamObject
    <3>4. consumer'[c].s = s /\ \A d \in Consumers \ {c} : consumer'[d] = consumer[d]
      BY <2>1 DEF Join, TypeOK, Held
    <3> QED BY <3>1, <3>2, <3>3, <3>4 DEF IsCurrent
  <2>2. ASSUME NEW s \in Streams, Establish(c, ch, s), subs[ch] = NoStream
        PROVE  /\ consumer'[c].s = s /\ c \in stream'[s].consumers /\ stream'[s].channel # NoChannel
               /\ \A d \in Consumers \ {c} : consumer'[d] = consumer[d]
               /\ \A t \in Streams : stream[t].channel # NoChannel =>
                     /\ stream'[t].channel = stream[t].channel /\ stream[t].consumers \subseteq stream'[t].consumers
                     /\ ~IsCurrent(t) => ~IsCurrent(t)'
    <3>1. Current' = Current \cup {s}
      <4>1. Places(s, ch)
        BY <2>2 DEF Establish, Places, Others, Kept, TypeOK, StreamObject
      <4> QED BY <4>1, PlacesCurrent DEF RequestsInv
    <3>2. stream[s].channel = NoChannel /\ stream'[s].channel = ch /\ stream'[s].consumers = {c}
          /\ \A t \in Streams \ {s} : stream'[t] = stream[t]
      BY <2>2 DEF Establish, TypeOK, StreamObject
    <3>3. consumer'[c].s = s /\ \A d \in Consumers \ {c} : consumer'[d] = consumer[d]
      BY <2>2 DEF Establish, TypeOK, Held
    <3> QED BY <3>1, <3>2, <3>3, SentinelAssumption DEF IsCurrent
  <2>3. subs[ch] # NoStream => subs[ch] \in Streams
    BY DEF TypeOK, MaybeStream
  <2> QED BY <2>1, <2>2, <2>3 DEF Connect
<1> SUFFICES ASSUME NEW d \in Consumers, NEW t \in Streams, consumer'[d].s = t
             PROVE  Parted(t, d)'
  <2>1. \A d \in Consumers : consumer'[d].s # NoStream => consumer'[d].s \in Streams
    BY DEF TypeOK, Held, MaybeStream
  <2> QED BY <2>1 DEF PartedInv
<1>2. CASE d = c
  BY <1>2 DEF Parted
<1>3. CASE d # c
  <2>1. consumer'[d] = consumer[d] /\ Parted(t, d)
    BY <1>3, SentinelAssumption DEF PartedInv
  <2> QED BY <1>1, <2>1 DEF Parted
<1> QED BY <1>2, <1>3

LEMMA LeavingParted ==
    ASSUME TypeOK, TypeOK', RequestsInv, AgreeInv, PartedInv,
           \/ DisconnectAll /\ quit' = {c \in Consumers : consumer[c].s # NoStream}
           \/ \E c \in Consumers : Remove(c) /\ quit' = quit \cup {c}
    PROVE  PartedInv'
<1>1. CASE DisconnectAll /\ quit' = {c \in Consumers : consumer[c].s # NoStream}
  <2>1. consumer' = consumer /\ \A s \in Streams : stream'[s].channel = stream[s].channel
    BY <1>1 DEF DisconnectAll, Disconnect, vars, core, TypeOK, StreamObject
  <2>2. \A c \in Consumers, s \in Streams : consumer[c].s = s /\ Parted(s, c) => Parted(s, c)'
    BY <1>1, <2>1, SentinelAssumption DEF Parted
  <2> QED BY <2>1, <2>2, PartedStays
<1>2. ASSUME NEW d \in Consumers, Remove(d), quit' = quit \cup {d}
      PROVE  PartedInv'
  <2>1. /\ UNCHANGED <<turn, consumer>> /\ Current' = Current /\ Due' = Due
        /\ \A s \in Streams : /\ stream'[s].channel = stream[s].channel
                              /\ stream[s].consumers \ {d} \subseteq stream'[s].consumers
    <3>1. PICK s \in Streams : stream' = [stream EXCEPT ![s].consumers = @ \ {d}]
      BY <1>2 DEF Remove
    <3>2. \A t \in Streams : /\ stream'[t].channel = stream[t].channel
                             /\ stream[t].consumers \ {d} \subseteq stream'[t].consumers
      BY <3>1 DEF TypeOK, StreamObject
    <3>3. UNCHANGED <<turn, consumer, subs>>
      BY <1>2 DEF Remove
    <3> QED BY <3>2, <3>3, SameCurrent DEF Due
  <2>2. \A s, c : Closing(s, c) => Closing(s, c)'
    BY <2>1 DEF Closing
  <2>3. \A c \in Consumers, s \in Streams : Parted(s, c) => Parted(s, c)'
    BY <1>2, <2>1, <2>2 DEF Parted, IsCurrent
  <2> QED BY <2>1, <2>3, PartedStays
<1> QED BY <1>1, <1>2

-----------------------------------------------------------------------------

LeavingInv == OrdersInv /\ PartedInv

LEMMA InitLeaving == LeavingInit => LeavingInv
<1> SUFFICES ASSUME LeavingInit PROVE LeavingInv
  OBVIOUS
<1>1. OrdersInv
  BY InitOrders DEF LeavingInit
<1>2. \A c \in Consumers : consumer[c].s = NoStream
  BY DEF LeavingInit, Init
<1> QED BY <1>1, <1>2 DEF LeavingInv, PartedInv

LEMMA LeavingSteps == [LeavingNext]_<<vars, quit>> => [Next]_vars
BY DEF LeavingNext, DisconnectAll, Next, App, vars

LEMMA StepKeepsLeaving == LeavingInv /\ [LeavingNext]_<<vars, quit>> => LeavingInv'
<1> SUFFICES ASSUME LeavingInv, [LeavingNext]_<<vars, quit>> PROVE LeavingInv'
  OBVIOUS
<1>1. OrdersInv' /\ TypeOK'
  BY LeavingSteps, StepKeepsOrders DEF LeavingInv, OrdersInv
<1>2. TypeOK /\ Created /\ RequestsInv /\ InStep /\ AgreeInv /\ PartedInv
  BY DEF LeavingInv, OrdersInv
<1>3. CASE UNCHANGED <<vars, quit>>
  <2>1. UNCHANGED <<subs, stream, turn, consumer, quit>> /\ Current' = Current /\ Due' = Due
    BY <1>3, SameCurrent DEF vars, core, Due
  <2>2. \A s, c : Closing(s, c) => Closing(s, c)'
    BY <2>1 DEF Closing
  <2>3. \A c \in Consumers, s \in Streams : Parted(s, c) => Parted(s, c)'
    BY <2>1, <2>2 DEF Parted, IsCurrent
  <2> QED BY <1>1, <1>2, <2>1, <2>3, PartedStays DEF LeavingInv
<1>4. CASE \/ DisconnectAll /\ quit' = {c \in Consumers : consumer[c].s # NoStream}
           \/ \E c \in Consumers : Remove(c) /\ quit' = quit \cup {c}
  BY <1>1, <1>2, <1>4, LeavingParted DEF LeavingInv
<1>5. ASSUME NEW c \in Consumers, NEW ch \in Channels, Connect(c, ch), quit' = quit
      PROVE  LeavingInv'
  BY <1>1, <1>2, <1>5, ConnectParted DEF LeavingInv
<1>6. CASE (Client \/ Server) /\ quit' = quit
  <2>1. Continues \/ Terminates \/ RunMicrotask \/ CallConsumer \/ CallsDone
    BY <1>1, <1>2, <1>6, ClientContinues
  <2>2. PartedInv'
    BY <1>1, <1>2, <1>6, <2>1, ContinuesParted, EndsParted, RunMicrotaskParted, CallConsumerParted, CallsDoneParted
  <2> QED BY <1>1, <2>2 DEF LeavingInv
<1> QED BY <1>3, <1>4, <1>5, <1>6 DEF LeavingNext

LEMMA PartedNotSilent == LeavingInv => NoSilentEnd
<1> SUFFICES ASSUME LeavingInv, NEW c \in Consumers, LetGo(c)
             PROVE  consumer[c].state # "connected"
  BY DEF NoSilentEnd
<1>1. /\ turn = <<>> /\ consumer[c].s # NoStream /\ ~IsCurrent(consumer[c].s) /\ c \notin quit
      /\ consumer[c].s \in Streams
  BY DEF LetGo, LeavingInv, OrdersInv, TypeOK, Held, MaybeStream
<1>2. ~Closing(consumer[c].s, c)
  BY <1>1, OneOrTwo DEF Closing, Due
<1>3. c \notin stream[consumer[c].s].consumers
  BY <1>1 DEF LeavingInv, OrdersInv, AgreeInv, JoinInv
<1> QED BY <1>1, <1>2, <1>3 DEF LeavingInv, PartedInv, Parted

\* A consumer that did not leave by itself is never left believing in a stream that
\* ended: #terminate tells all the consumers it collected, whatever they do meanwhile.
THEOREM NoSilentEndHolds == LeavingSpec => []NoSilentEnd
BY InitLeaving, StepKeepsLeaving, PartedNotSilent, PTL DEF LeavingSpec

-----------------------------------------------------------------------------
(* What the server still keeps.  A subscription is somebody's, or the       *)
(* client has yet to read that it was made; and none is kept that a frame   *)
(* on the wire says is over.                                                *)

SrvSubs(n)  == {r.sub : r \in n.srv}
Over(f)     == f.kind = "unsubscribed" \/ (f.kind = "error" /\ f.note = "unknown")
GoneSubs(n) == {f.sub : f \in {g \in Sent(n) : Over(g)}}
Holding     == {stream[s].sub : s \in Current}
Used(x)     == x <= req.seq /\ \A f \in fetches : f.kind = "subscribe" => f.id # x
Shut(n)     == n.phase # "open" => n.srv = {}

OrphanInv ==
    /\ Shut(net)
    /\ SrvSubs(net) \subseteq Holding \cup Confirmed(net)
    /\ GoneSubs(net) \cap SrvSubs(net) = {}
    /\ \A x \in GoneSubs(net) : Used(x)

\* m comes of n, where the subscriptions X came to an end.
Leads(n, m, X) ==
    /\ Shut(n) => Shut(m)
    /\ SrvSubs(m) \subseteq SrvSubs(n) \ X
    /\ GoneSubs(m) \subseteq GoneSubs(n) \cup X
    /\ Confirmed(n) \subseteq Confirmed(m)

\* A step that leaves nothing behind.
Cleans ==
    /\ Shut(net')
    /\ SrvSubs(net') \subseteq Holding' \cup Confirmed(net')
    /\ GoneSubs(net') \cap SrvSubs(net') = {}
    /\ \A x \in GoneSubs(net') : Used(x)

LEMMA CleansOrphans ==
    ASSUME TypeOK, TypeOK', RequestsInv, Outcome \/ SocketOpens, Cleans
    PROVE  OrphanInv'
<1>1. /\ req.seq \in Nat /\ req'.seq \in Nat /\ req.seq <= req'.seq
      /\ \A f \in fetches' : f.kind = "subscribe" => f \in fetches \/ f.id > req.seq
  BY TablesMove
<1>2. net' \in Network /\ \A f \in fetches' : f.id \in Nat
  BY FetchFields DEF TypeOK, Fetches
<1>3. ASSUME NEW x \in GoneSubs(net')
      PROVE  Used(x)'
  <2>1. x \in Nat
    BY <1>2, <1>3, SentFields DEF GoneSubs
  <2>2. x <= req.seq /\ \A f \in fetches : f.kind = "subscribe" => f.id # x
    BY <1>3 DEF Cleans, Used
  <2>3. x <= req'.seq
    BY <1>1, <2>1, <2>2
  <2>4. \A f \in fetches' : f.kind = "subscribe" => f.id # x
    BY <1>1, <1>2, <2>1, <2>2
  <2> QED BY <2>3, <2>4 DEF Used
<1> QED BY <1>3 DEF Cleans, OrphanInv

\* Those who held what did not end still hold it.
LEMMA LetsGo ==
    ASSUME RequestsInv, OrphanInv, NEW X, \A x \in X : Used(x), Leads(net, net', X),
           Holding \subseteq Holding' \cup X \cup {0}
    PROVE  Cleans
<1>1. \A x \in SrvSubs(net) : x # 0
  BY DEF RequestsInv, IdsInv, WireShape, SrvSubs
<1>2. SrvSubs(net') \subseteq Holding' \cup Confirmed(net')
  BY <1>1 DEF OrphanInv, Leads
<1>3. GoneSubs(net') \cap SrvSubs(net') = {}
  BY DEF OrphanInv, Leads
<1>4. \A x \in GoneSubs(net') : Used(x)
  BY DEF OrphanInv, Leads
<1> QED BY <1>2, <1>3, <1>4 DEF OrphanInv, Leads, Cleans

\* The socket is given up, or a new one has nothing yet.
LEMMA NothingKept ==
    ASSUME TypeOK, net'.wire = <<>>, net'.srv = {}
    PROVE  Cleans
<1>1. Sent(net') = {}
  BY DEF Sent
<1> QED BY <1>1 DEF Cleans, Shut, SrvSubs, GoneSubs

LEMMA OfflineKeepsNothing == ASSUME TypeOK, net' = Offline PROVE Cleans
BY NothingKept DEF Offline

LEMMA LeadsSelf ==
    /\ \A n : Leads(n, n, {})
    /\ \A n, X : n.srv = {} => Leads(n, n, X)
BY DEF Leads, SrvSubs

LEMMA LeadsOn ==
    ASSUME NEW n, NEW m, NEW o, NEW X, NEW Z, Leads(n, m, X), Leads(m, o, Z)
    PROVE  Leads(n, o, X \cup Z)
BY DEF Leads

\* A current stream's subscription is a name in use.
LEMMA NameUsed ==
    ASSUME TypeOK, RequestsInv, NEW s \in Streams
    PROVE  /\ IsCurrent(s) /\ stream[s].sub # 0 => Used(stream[s].sub)
           /\ \A x \in Confirmed(net) : Used(x)
<1>1. ASSUME IsCurrent(s), stream[s].sub # 0
      PROVE  Used(stream[s].sub)
  <2> DEFINE b == [sub |-> stream[s].sub, s |-> s]
  <2>1. b \in req.bySub /\ b.sub = stream[s].sub
    BY <1>1 DEF RequestsInv, Settled, Tidy
  <2> HIDE DEF b
  <2> QED BY <2>1 DEF RequestsInv, IdsInv, Used
<1>2. \A x \in Confirmed(net) : Used(x)
  BY DEF RequestsInv, IdsInv, Used
<1> QED BY <1>1, <1>2

-----------------------------------------------------------------------------
(* What becomes of a connection.                                           *)

\* Frames are appended; none of them takes a confirmation away.
LEMMA AppendLeads ==
    ASSUME NEW S, NEW n, n.wire \in Seq(S), NEW new \in Seq(S), NEW m, m.wire = n.wire \o new,
           NEW X, \A i \in 1 .. Len(new) : Over(new[i]) => new[i].sub \in X
    PROVE  Confirmed(n) \subseteq Confirmed(m) /\ GoneSubs(m) \subseteq GoneSubs(n) \cup X
<1>1. Len(n.wire) \in Nat /\ DOMAIN n.wire = 1 .. Len(n.wire) /\ Len(new) \in Nat
  BY LenProperties
<1>2. /\ DOMAIN m.wire = 1 .. (Len(n.wire) + Len(new))
      /\ \A i \in 1 .. Len(n.wire) : m.wire[i] = n.wire[i]
      /\ \A i \in (Len(n.wire) + 1) .. (Len(n.wire) + Len(new)) : m.wire[i] = new[i - Len(n.wire)]
  BY <1>1, ConcatProperties, LenProperties
<1>3. \A i \in DOMAIN n.wire : i \in DOMAIN m.wire /\ m.wire[i] = n.wire[i]
  BY <1>1, <1>2
<1>4. Confirmed(n) \subseteq Confirmed(m)
  BY <1>3 DEF Confirmed, Confirming
<1>5. ASSUME NEW i \in DOMAIN m.wire, Over(m.wire[i])
      PROVE  m.wire[i].sub \in GoneSubs(n) \cup X
  <2>1. CASE i \in DOMAIN n.wire
    BY <1>3, <1>5, <2>1 DEF GoneSubs, Sent
  <2>2. CASE i \notin DOMAIN n.wire
    <3>1. i \in (Len(n.wire) + 1) .. (Len(n.wire) + Len(new)) /\ i - Len(n.wire) \in 1 .. Len(new)
      BY <1>1, <1>2, <2>2
    <3> QED BY <1>2, <1>5, <3>1
  <2> QED BY <2>1, <2>2
<1>6. GoneSubs(m) \subseteq GoneSubs(n) \cup X
  BY <1>5 DEF GoneSubs, Sent
<1> QED BY <1>4, <1>6

\* One frame is.
LEMMA PostLeads ==
    ASSUME NEW n \in Network, NEW f \in Frames, NEW m, m.wire = Post(n, f).wire, m.phase = n.phase,
           m.srv \subseteq n.srv, NEW X, \A r \in m.srv : r.sub \notin X, Over(f) => f.sub \in X
    PROVE  Leads(n, m, X)
<1>1. <<f>> \in Seq(Frames) /\ Len(<<f>>) = 1 /\ <<f>>[1] = f
  OBVIOUS
<1>2. m.wire = n.wire \o <<f>>
  BY NetFields, AppendIsConcat DEF Post, Network
<1>3. \A i \in 1 .. Len(<<f>>) : Over(<<f>>[i]) => <<f>>[i].sub \in X
  BY <1>1
<1>4. n.wire \in Seq(Frames)
  BY NetFields
<1>5. Confirmed(n) \subseteq Confirmed(m) /\ GoneSubs(m) \subseteq GoneSubs(n) \cup X
  BY <1>1, <1>2, <1>3, <1>4, AppendLeads
<1>6. (Shut(n) => Shut(m)) /\ SrvSubs(m) \subseteq SrvSubs(n) \ X
  BY DEF Shut, SrvSubs
<1> QED BY <1>5, <1>6 DEF Leads

LEMMA CancelLeads ==
    ASSUME NEW n \in Network, Shut(n), NEW id \in Nat, NEW sub \in Nat
    PROVE  Leads(n, Cancel(n, id, sub), {sub})
<1>1. CASE n.phase # "open"
  BY <1>1, LeadsSelf DEF Cancel, Shut
<1>2. CASE n.phase = "open"
  <2> DEFINE f == IF Known(n, sub) THEN Reply("unsubscribed", id, sub, "none")
                                   ELSE Reply("error", id, sub, "unknown")
             m == Cancel(n, id, sub)
  <2>1. f \in Frames /\ f.sub = sub
    BY ReplyType, ReplyKinds, ReplyNotes DEF Reply, Frame
  <2>2. m = [Post(n, f) EXCEPT !.srv = {r \in @ : r.sub # sub}]
    BY <1>2 DEF Cancel
  <2> HIDE DEF f, m
  <2>3. Post(n, f) \in Network /\ Post(n, f).srv = n.srv /\ Post(n, f).phase = n.phase
    BY <2>1, PostType
  <2>4. m.wire = Post(n, f).wire /\ m.phase = n.phase /\ m.srv = {r \in n.srv : r.sub # sub}
    BY <2>2, <2>3 DEF Network
  <2>5. Leads(n, m, {sub})
    BY <2>1, <2>4, PostLeads
  <2> QED BY <2>5 DEF m
<1> QED BY <1>1, <1>2

\* A token is renewed, for a subscription the server knows or has forgotten.
LEMMA RenewLeads ==
    ASSUME NEW n \in Network, NEW id \in Nat, NEW sub \in Nat
    PROVE  \E X \in SUBSET {sub} : Leads(n, Renew(n, id, sub), X)
<1>1. CASE n.phase # "open"
  BY <1>1, LeadsSelf DEF Renew
<1>2. CASE n.phase = "open" /\ Known(n, sub)
  <2> DEFINE f == Reply("refreshed", id, sub, "none")
  <2>1. f \in Frames /\ ~Over(f)
    BY ReplyType, ReplyKinds, ReplyNotes DEF Reply, Frame, Over
  <2>2. Renew(n, id, sub) = Post(n, f)
    BY <1>2 DEF Renew
  <2> HIDE DEF f
  <2>3. Leads(n, Post(n, f), {})
    BY <2>1, PostType, PostLeads
  <2> QED BY <2>2, <2>3
<1>3. CASE n.phase = "open" /\ ~Known(n, sub)
  <2> DEFINE f == Reply("error", id, sub, "unknown")
  <2>1. f \in Frames /\ f.sub = sub
    BY ReplyType, ReplyKinds, ReplyNotes DEF Reply, Frame
  <2>2. Renew(n, id, sub) = Post(n, f)
    BY <1>3 DEF Renew
  <2> HIDE DEF f
  <2>3. \A r \in n.srv : r.sub \notin {sub}
    BY <1>3 DEF Known
  <2>4. Leads(n, Post(n, f), {sub})
    BY <2>1, <2>3, PostType, PostLeads
  <2> QED BY <2>2, <2>4
<1> QED BY <1>1, <1>2, <1>3

\* The next frames of a subscription end none.
LEMMA EmitLeads ==
    ASSUME NEW n \in Network, n.phase = "open", NEW r \in n.srv, NEW q \in ServerSubs, q.sub = r.sub,
           NEW kinds \in Seq(FrameKinds \ {"unsubscribed", "error"}), NEW pos, NEW note
    PROVE  Leads(n, Emit(n, r, q, kinds, pos, note), {})
<1> DEFINE m == Emit(n, r, q, kinds, pos, note)
           new == [i \in 1 .. Len(kinds) |-> Frame(kinds[i], 0, r.sub, r.seq + i, pos, note)]
           p == [q EXCEPT !.seq = r.seq + Len(kinds), !.pos = pos]
           S == Frames \cup {new[i] : i \in 1 .. Len(kinds)}
<1>1. Len(kinds) \in Nat /\ \A i \in 1 .. Len(kinds) : kinds[i] \in FrameKinds \ {"unsubscribed", "error"}
  BY LenProperties, ElementOfSeq
<1>2. \A i \in 1 .. Len(kinds) : ~Over(new[i])
  BY <1>1 DEF Over, Frame
<1>3. m.srv = (n.srv \ {r}) \cup {p} /\ m.wire = n.wire \o new /\ m.phase = n.phase /\ p.sub = r.sub
  BY DEF Emit, Network, ServerSubs
<1>4. n.wire \in Seq(S)
  <2>1. n.wire \in Seq(Frames)
    BY NetFields
  <2>2. \A i \in 1 .. Len(n.wire) : n.wire[i] \in S
    BY <2>1, ElementOfSeq
  <2> HIDE DEF S
  <2> QED BY <2>1, <2>2
<1>5. new \in Seq(S) /\ Len(new) = Len(kinds)
  <2>1. new \in [1 .. Len(kinds) -> S]
    OBVIOUS
  <2> HIDE DEF new, S
  <2>2. new \in Seq(S)
    BY <1>1, <2>1, SeqDef
  <2> QED BY <1>1, <2>1, <2>2, LenProperties
<1> HIDE DEF m, new, p, S
<1>6. \A i \in 1 .. Len(new) : Over(new[i]) => new[i].sub \in {}
  BY <1>2, <1>5
<1>7. Confirmed(n) \subseteq Confirmed(m) /\ GoneSubs(m) \subseteq GoneSubs(n) \cup {}
  BY <1>3, <1>4, <1>5, <1>6, AppendLeads
<1>8. SrvSubs(m) \subseteq SrvSubs(n) /\ Shut(m)
  BY <1>3 DEF SrvSubs, Shut
<1>9. Leads(n, m, {})
  BY <1>7, <1>8 DEF Leads
<1> QED BY <1>9 DEF m

LEMMA EmitOneLeads ==
    ASSUME NEW n \in Network, n.phase = "open", NEW r \in n.srv, NEW q \in ServerSubs, q.sub = r.sub,
           NEW kind \in FrameKinds \ {"unsubscribed", "error"}, NEW pos, NEW note
    PROVE  Leads(n, Emit(n, r, q, <<kind>>, pos, note), {})
<1> DEFINE kinds == <<kind>>
<1>1. kinds \in Seq(FrameKinds \ {"unsubscribed", "error"})
  OBVIOUS
<1> HIDE DEF kinds
<1>2. Leads(n, Emit(n, r, q, kinds, pos, note), {})
  BY <1>1, EmitLeads
<1> QED BY <1>2 DEF kinds

\* By itself the server ends the subscription it sends about, if any.
LEMMA SendLeads ==
    ASSUME NEW n \in Network, InOrder(n), n.phase = "open", NEW r \in n.srv, NEW at \in Positions, NEW m,
           \/ m \in Serving(n, r, at) \/ m \in Recovering(n, r)
           \/ \E kind : m \in Failing(n, r, kind, at)
    PROVE  \E X \in SUBSET {r.sub} : Leads(n, m, X)
<1>1. /\ r \in ServerSubs /\ r.sub \in Nat
      /\ FrameKinds = StreamFrames \cup {"subscribed", "refreshed", "error", "tokenExpiring"}
  BY ServerSubFields DEF Network, FrameKinds
<1>2. \A stale \in Scopes : [r EXCEPT !.stale = stale] \in ServerSubs /\ [r EXCEPT !.stale = stale].sub = r.sub
  BY <1>1 DEF ServerSubs
<1>3. [r EXCEPT !.ready = TRUE] \in ServerSubs /\ [r EXCEPT !.ready = TRUE].sub = r.sub
  BY <1>1 DEF ServerSubs
<1>4. ASSUME NEW q \in ServerSubs, q.sub = r.sub, NEW pos, NEW note, NEW kind \in Sequenced,
             m = Emit(n, r, q, <<kind>>, pos, note)
      PROVE  Leads(n, m, {})
  <2>1. kind \in FrameKinds \ {"unsubscribed", "error"}
    BY <1>1, <1>4 DEF Sequenced, StreamFrames
  <2> QED BY <1>4, <2>1, EmitOneLeads
<1>5. ASSUME NEW kinds \in {<<"begin", "page", "end">>, <<"begin", "end">>}, m = Emit(n, r, r, kinds, at, "none")
      PROVE  Leads(n, m, {})
  <2>1. kinds \in Seq(FrameKinds \ {"unsubscribed", "error"})
    <3>1. {"begin", "page", "end"} \subseteq FrameKinds \ {"unsubscribed", "error"}
      BY <1>1 DEF StreamFrames
    <3>2. <<"begin", "page", "end">> \in Seq({"begin", "page", "end"})
      OBVIOUS
    <3>3. <<"begin", "end">> \in Seq({"begin", "page", "end"})
      OBVIOUS
    <3>4. kinds \in Seq({"begin", "page", "end"})
      BY <3>2, <3>3
    <3> QED BY <3>1, <3>4
  <2> QED BY <1>1, <1>5, <2>1, EmitLeads
<1>6. ASSUME NEW kind \in {"expiring", "unsubscribed", "error"}, NEW note \in {"none", "unknown", "other"}
      PROVE  /\ Reply(kind, 0, r.sub, note) \in Frames /\ Reply(kind, 0, r.sub, note).sub = r.sub
             /\ Reply(kind, 0, r.sub, note).kind = kind /\ Reply(kind, 0, r.sub, note).note = note
  <2>1. Reply(kind, 0, r.sub, note) \in Frames
    BY <1>1, ReplyType, ReplyKinds, ReplyNotes
  <2> QED BY <2>1 DEF Reply, Frame
<1>7. ASSUME NEW kind \in {"expiring", "error"}, NEW note \in {"none", "other"},
             m = Post(n, Reply(kind, 0, r.sub, note))
      PROVE  Leads(n, m, {})
  <2> DEFINE f == Reply(kind, 0, r.sub, note)
  <2>1. f \in Frames /\ ~Over(f) /\ m = Post(n, f)
    BY <1>6, <1>7 DEF Over
  <2> HIDE DEF f
  <2> QED BY <2>1, PostType, PostLeads
<1>8. ASSUME NEW kind \in {"unsubscribed", "error"}, NEW note \in {"none", "unknown"},
             m = [Post(n, Reply(kind, 0, r.sub, note)) EXCEPT !.srv = @ \ {r}]
      PROVE  Leads(n, m, {r.sub})
  <2> DEFINE f == Reply(kind, 0, r.sub, note)
  <2>1. f \in Frames /\ f.sub = r.sub /\ m = [Post(n, f) EXCEPT !.srv = @ \ {r}]
    BY <1>6, <1>8
  <2> HIDE DEF f
  <2>2. Post(n, f) \in Network /\ Post(n, f).srv = n.srv /\ Post(n, f).phase = n.phase
    BY <2>1, PostType
  <2>3. m.wire = Post(n, f).wire /\ m.phase = n.phase /\ m.srv = n.srv \ {r}
    BY <2>1, <2>2 DEF Network
  <2>4. \A x \in m.srv : x.sub # r.sub
    BY <2>3 DEF InOrder
  <2> QED BY <2>1, <2>3, <2>4, PostLeads
<1>9. CASE m \in Serving(n, r, at)
  <2>1. \/ m = Emit(n, r, r, <<"begin", "page", "end">>, at, "none")
        \/ \E kind \in {"covered", "unit"} : m = Emit(n, r, r, <<kind>>, r.pos + 1, "none")
        \/ m = Emit(n, r, [r EXCEPT !.ready = TRUE], <<"ready">>, r.pos, "none")
    BY <1>9 DEF Serving
  <2>2. {"covered", "unit", "ready"} \subseteq Sequenced
    BY DEF Sequenced
  <2> QED BY <1>1, <1>3, <1>4, <1>5, <2>1, <2>2
<1>10. CASE m \in Recovering(n, r)
  <2>1. m = Emit(n, r, [r EXCEPT !.stale = "no"], <<"available">>, r.pos, "no")
    BY <1>10 DEF Recovering
  <2>2. "available" \in Sequenced /\ "no" \in Scopes
    BY DEF Sequenced, Scopes
  <2> QED BY <1>2, <1>4, <2>1, <2>2
<1>11. ASSUME NEW kind, m \in Failing(n, r, kind, at)
       PROVE  \E X \in SUBSET {r.sub} : Leads(n, m, X)
  <2>1. \/ m = Emit(n, r, r, <<"begin", "end">>, at, "none")
        \/ \E scope \in Scopes : m = Emit(n, r, [r EXCEPT !.stale = scope], <<"unavailable">>, r.pos, scope)
        \/ m = Post(n, Reply("expiring", 0, r.sub, "none")) \/ m = Post(n, Reply("error", 0, r.sub, "other"))
        \/ m = [Post(n, Reply("unsubscribed", 0, r.sub, "none")) EXCEPT !.srv = @ \ {r}]
        \/ m = [Post(n, Reply("error", 0, r.sub, "unknown")) EXCEPT !.srv = @ \ {r}]
    BY <1>11 DEF Failing
  <2>2. "unavailable" \in Sequenced
    BY DEF Sequenced
  <2> QED BY <1>2, <1>4, <1>5, <1>7, <1>8, <2>1, <2>2
<1> QED BY <1>9, <1>10, <1>11

\* A frame of a sequence is cut out: it confirmed nothing.
LEMMA CutLeads ==
    ASSUME NEW n \in Network, NEW k \in DOMAIN n.wire, n.wire[k].kind # "subscribed", NEW m,
           m.srv = n.srv, m.phase = n.phase, DOMAIN m.wire = 1 .. (Len(n.wire) - 1),
           \A i \in 1 .. (Len(n.wire) - 1) : m.wire[i] = n.wire[IF i < k THEN i ELSE i + 1]
    PROVE  Leads(n, m, {})
<1>1. Len(n.wire) \in Nat /\ DOMAIN n.wire = 1 .. Len(n.wire)
  BY NetFields
<1>2. ASSUME NEW i \in DOMAIN n.wire, i # k
      PROVE  \E j \in DOMAIN m.wire : m.wire[j] = n.wire[i]
  <2>1. CASE i < k
    BY <1>1, <1>2, <2>1
  <2>2. CASE ~(i < k)
    <3> DEFINE j == i - 1
    <3>1. j \in 1 .. (Len(n.wire) - 1) /\ ~(j < k) /\ j + 1 = i
      BY <1>1, <1>2, <2>2
    <3> HIDE DEF j
    <3> QED BY <3>1
  <2> QED BY <2>1, <2>2
<1>3. Confirmed(n) \subseteq Confirmed(m)
  <2> SUFFICES ASSUME NEW i \in Confirming(n) PROVE n.wire[i].id \in Confirmed(m)
    BY DEF Confirmed
  <2>1. i \in DOMAIN n.wire /\ i # k /\ n.wire[i].kind = "subscribed"
    BY DEF Confirming
  <2>2. PICK j \in DOMAIN m.wire : m.wire[j] = n.wire[i]
    BY <1>2, <2>1
  <2> QED BY <2>1, <2>2 DEF Confirmed, Confirming
<1>4. Sent(m) \subseteq Sent(n)
  <2> SUFFICES ASSUME NEW i \in DOMAIN m.wire PROVE m.wire[i] \in Sent(n)
    BY DEF Sent
  <2>1. (IF i < k THEN i ELSE i + 1) \in DOMAIN n.wire
    BY <1>1
  <2> QED BY <2>1 DEF Sent
<1> QED BY <1>3, <1>4 DEF Leads, Shut, SrvSubs, GoneSubs

LEMMA CutSteps ==
    ASSUME NEW n \in Network, NEW k \in DOMAIN n.wire, n.wire[k].kind # "subscribed", NEW m,
           m.srv = n.srv, m.phase = n.phase,
           m.wire = SubSeq(n.wire, 1, k - 1) \o SubSeq(n.wire, k + 1, Len(n.wire))
    PROVE  Leads(n, m, {})
<1>1. /\ DOMAIN m.wire = 1 .. (Len(n.wire) - 1)
      /\ \A i \in 1 .. (Len(n.wire) - 1) : m.wire[i] = n.wire[IF i < k THEN i ELSE i + 1]
  BY CutFrame
<1> QED BY <1>1, CutLeads

\* The client reads a frame.
LEMMA ReadLeads ==
    ASSUME TypeOK, InOrder(net), WireShape(net), net.wire # <<>>, NEW f, f = Head(net.wire)
    PROVE  /\ f.kind # "subscribed" => Leads(net, Read, {})
           /\ Confirmed(net) \subseteq Confirmed(Read) \cup {f.id}
           /\ GoneSubs(Read) \subseteq GoneSubs(net) /\ Read.srv = net.srv /\ Read.phase = net.phase
           /\ Over(f) => f.sub \in GoneSubs(net)
           /\ f.kind = "subscribed" => f.id \in Confirmed(net) /\ f.sub = f.id
<1>1. net \in Network /\ Read.wire = Tail(net.wire) /\ Read.srv = net.srv /\ Read.phase = net.phase
  BY DEF TypeOK, Read, Network
<1>2. /\ net.wire \in Seq(Frames) /\ Len(net.wire) \in Nat /\ DOMAIN net.wire = 1 .. Len(net.wire)
      /\ 1 \in DOMAIN net.wire /\ f = net.wire[1]
      /\ DOMAIN Read.wire = 1 .. (Len(net.wire) - 1)
      /\ \A i \in 1 .. (Len(net.wire) - 1) : Read.wire[i] = net.wire[i + 1]
  BY <1>1, NetFields, HeadTailProperties, EmptySeq, LenProperties
<1>3. \A i \in 1 .. (Len(net.wire) - 1) : Read.wire[i] = net.wire[IF i < 1 THEN i ELSE i + 1]
  BY <1>2
<1>4. f.kind # "subscribed" => Leads(net, Read, {})
  BY <1>1, <1>2, <1>3, CutLeads
<1>5. Confirmed(net) \subseteq Confirmed(Read) \cup {f.id}
  <2> SUFFICES ASSUME NEW i \in Confirming(net), i # 1 PROVE net.wire[i].id \in Confirmed(Read)
    BY <1>2 DEF Confirmed
  <2> DEFINE j == i - 1
  <2>1. i \in DOMAIN net.wire /\ net.wire[i].kind = "subscribed"
    BY DEF Confirming
  <2>2. j \in 1 .. (Len(net.wire) - 1) /\ j + 1 = i
    BY <1>2, <2>1
  <2> HIDE DEF j
  <2>3. Read.wire[j] = net.wire[i] /\ j \in DOMAIN Read.wire
    BY <1>2, <2>2
  <2> QED BY <2>1, <2>3 DEF Confirmed, Confirming
<1>6. GoneSubs(Read) \subseteq GoneSubs(net)
  <2>1. Sent(Read) \subseteq Sent(net)
    BY <1>1, ReadKeeps
  <2> QED BY <2>1 DEF GoneSubs
<1>7. Over(f) => f.sub \in GoneSubs(net)
  BY <1>2 DEF GoneSubs, Sent
<1>8. f.kind = "subscribed" => f.id \in Confirmed(net) /\ f.sub = f.id
  BY ReadCalm
<1> QED BY <1>1, <1>4, <1>5, <1>6, <1>7, <1>8

-----------------------------------------------------------------------------
(* What each action leaves behind.                                         *)

\* Who still holds what.
LEMMA HoldersStay ==
    ASSUME TypeOK
    PROVE  /\ Current \subseteq Current' /\ (\A s \in Current : stream'[s].sub = stream[s].sub) =>
                 Holding \subseteq Holding'
           /\ UNCHANGED <<subs, stream>> => Holding \subseteq Holding'
           /\ \A t, r : (/\ r.sub = stream[t].sub /\ UNCHANGED subs
                         /\ stream' = [stream EXCEPT ![t] = r]) => Holding \subseteq Holding'
           /\ \A s \in Streams : \A r : (/\ UNCHANGED subs /\ stream' = [stream EXCEPT ![s] = r]) =>
                 Holding \subseteq Holding' \cup {stream[s].sub}
<1>1. Current \subseteq Streams /\ (UNCHANGED subs => Current' = Current) /\ DOMAIN stream = Streams
  BY CurrentStreams, SameCurrent DEF TypeOK
<1>2. Current \subseteq Current' /\ (\A s \in Current : stream'[s].sub = stream[s].sub) => Holding \subseteq Holding'
  BY DEF Holding
<1>3. UNCHANGED <<subs, stream>> => Holding \subseteq Holding'
  BY <1>1, <1>2
<1>4. ASSUME NEW t, NEW r, r.sub = stream[t].sub, UNCHANGED subs, stream' = [stream EXCEPT ![t] = r]
      PROVE  Holding \subseteq Holding'
  <2>1. \A s \in Current : stream'[s].sub = stream[s].sub
    BY <1>1, <1>4
  <2> QED BY <1>1, <1>2, <1>4, <2>1
<1>5. ASSUME NEW s \in Streams, NEW r, UNCHANGED subs, stream' = [stream EXCEPT ![s] = r]
      PROVE  Holding \subseteq Holding' \cup {stream[s].sub}
  <2> SUFFICES ASSUME NEW t \in Current PROVE stream[t].sub \in Holding' \cup {stream[s].sub}
    BY DEF Holding
  <2>1. t # s => stream'[t].sub = stream[t].sub
    BY <1>1, <1>5
  <2> QED BY <1>1, <1>5, <2>1 DEF Holding
<1> QED BY <1>2, <1>3, <1>4, <1>5

\* Nothing happens on the connection.
LEMMA SilentCleans ==
    ASSUME RequestsInv, OrphanInv, UNCHANGED net, Holding \subseteq Holding'
    PROVE  Cleans
<1>1. Leads(net, net', {})
  BY LeadsSelf
<1> QED BY <1>1, LetsGo

LEMMA AppCleans ==
    ASSUME TypeOK, RequestsInv, OrphanInv, App
    PROVE  Cleans
<1>1. ASSUME NEW c \in Consumers, NEW ch \in Channels, Connect(c, ch)
      PROVE  Cleans
  <2>1. UNCHANGED net
    BY <1>1 DEF Connect
  <2>2. CASE Join(c, subs[ch])
    <3>1. \A s \in Streams : stream'[s].sub = stream[s].sub
      BY <2>2 DEF Join, TypeOK, StreamObject
    <3>2. Current' = Current
      BY <2>2, SameCurrent DEF Join
    <3> QED BY <2>1, <3>1, <3>2, CurrentStreams, HoldersStay, SilentCleans
  <2>3. ASSUME NEW s \in Streams, Establish(c, ch, s), subs[ch] = NoStream
        PROVE  Cleans
    <3>1. \A t \in Streams : stream'[t].sub = stream[t].sub
      BY <2>3 DEF Establish, TypeOK, StreamObject
    <3>2. Current \subseteq Current'
      BY <2>3 DEF Establish, Current, TypeOK
    <3> QED BY <2>1, <3>1, <3>2, CurrentStreams, HoldersStay, SilentCleans
  <2> QED BY <1>1, <2>2, <2>3 DEF Connect
<1>2. ASSUME NEW c \in Consumers, Remove(c)
      PROVE  Cleans
  <2>1. UNCHANGED <<subs, net>>
    BY <1>2 DEF Remove, env
  <2>2. \A s \in Streams : stream'[s].sub = stream[s].sub
    BY <1>2 DEF Remove, TypeOK, StreamObject
  <2> QED BY <2>1, <2>2, SameCurrent, CurrentStreams, HoldersStay, SilentCleans
<1>3. CASE Disconnect
  BY <1>3, OfflineKeepsNothing DEF Disconnect
<1> QED BY <1>1, <1>2, <1>3 DEF App

\* A stream that goes takes its subscription with it; on no socket it has none.
LEMMA TeardownCleans ==
    ASSUME TypeOK, LinkInv, RequestsInv, OrphanInv, NEW s \in Streams, IsCurrent(s), NEW r \in StreamObject,
           r.channel = stream[s].channel, r.sub = stream[s].sub, Teardown(s, r)
    PROVE  Cleans
<1> DEFINE drop == conn.ws # 0 /\ r.sub # 0
           q    == IF drop THEN Unsubscribing(req, r.sub) ELSE req
<1>1. net \in Network /\ r.sub \in Nat /\ req.seq \in Nat
  BY DEF TypeOK, Tables, StreamObject
<1>2. drop => q.seq = req.seq + 1
  BY DEF Unsubscribing, TypeOK, Tables
<1> HIDE DEF q
<1>3. net' = Offline \/ (net' = net /\ ~drop) \/ (drop /\ net' = Cancel(net, q.seq, r.sub))
  BY DEF Teardown, q
<1>4. drop => q.seq \in Nat
  BY <1>1, <1>2
<1>5. Holding \subseteq Holding' \cup {r.sub}
  <2>1. Torn(s)
    BY TeardownTears
  <2> QED BY <2>1, CurrentStreams DEF Torn, Holding
<1>6. CASE drop /\ net' = Cancel(net, q.seq, r.sub)
  <2>1. Leads(net, net', {r.sub})
    BY <1>1, <1>4, <1>6, CancelLeads DEF OrphanInv
  <2>2. Used(r.sub)
    BY <1>6, NameUsed
  <2> QED BY <1>5, <2>1, <2>2, LetsGo
<1>7. CASE net' = net /\ r.sub = 0
  <2>1. Leads(net, net', {})
    BY <1>7, LeadsSelf
  <2> QED BY <1>5, <1>7, <2>1, LetsGo
<1>8. CASE net' = net /\ conn.ws = 0 /\ r.sub # 0
  <2>1. net.phase = "none"
    BY <1>8 DEF LinkInv, OneConnection
  <2>2. Leads(net, net', {r.sub})
    BY <1>8, <2>1, LeadsSelf DEF OrphanInv, Shut
  <2>3. Used(r.sub)
    BY <1>8, NameUsed
  <2> QED BY <1>5, <2>2, <2>3, LetsGo
<1>9. CASE net' = Offline
  BY <1>9, OfflineKeepsNothing
<1> QED BY <1>3, <1>6, <1>7, <1>8, <1>9

LEMMA RunMicrotaskCleans ==
    ASSUME TypeOK, LinkInv, RequestsInv, OrphanInv, RunMicrotask
    PROVE  Cleans
<1>1. CASE UNCHANGED <<core, net>>
  BY <1>1, HoldersStay, SilentCleans DEF core
<1>2. CASE /\ Head(micro).do = "teardown" /\ IsCurrent(Head(micro).s)
           /\ Teardown(Head(micro).s, stream[Head(micro).s])
  <2>1. Head(micro).s \in Streams
    BY <1>2, CurrentStreams DEF IsCurrent
  <2>2. stream[Head(micro).s] \in StreamObject
    BY <2>1 DEF TypeOK
  <2> QED BY <1>2, <2>1, <2>2, TeardownCleans
<1> QED BY <1>1, <1>2 DEF RunMicrotask

\* A frame that ends nothing is sent.
LEMMA PostCleans ==
    ASSUME TypeOK, RequestsInv, OrphanInv, UNCHANGED <<subs, stream>>, NEW kind, NEW id \in Nat, NEW sub \in Nat,
           NEW note, kind \in {"error", "tokenExpiring"}, note \in {"forbidden", "cursorInvalid", "other"},
           net' = Post(net, Reply(kind, id, sub, note))
    PROVE  Cleans
<1> DEFINE f == Reply(kind, id, sub, note)
<1>1. f \in Frames /\ ~Over(f) /\ net' = Post(net, f)
  <2>1. f \in Frames
    BY ReplyType, ReplyKinds, ReplyNotes
  <2> QED BY <2>1 DEF Reply, Frame, Over
<1> HIDE DEF f
<1>2. Leads(net, net', {})
  BY <1>1, PostType, PostLeads DEF TypeOK
<1> QED BY <1>2, HoldersStay, LetsGo

\* A subscription that is made is confirmed by a frame on the wire.
LEMMA AcceptCleans ==
    ASSUME TypeOK, RequestsInv, OrphanInv, UNCHANGED <<subs, stream>>, NEW f \in fetches, f.kind = "subscribe",
           net.phase = "open", NEW ch \in Channels, NEW at \in Cursors,
           NEW n, n = Accept(net, f.id, ch, at),
           \/ net' = n
           \/ \E r \in n.srv : net' = Emit(n, r, r, <<"resync">>, NoCursor, "none"),
           UNCHANGED req, fetches' \subseteq fetches
    PROVE  OrphanInv'
<1> DEFINE g == Reply("subscribed", f.id, f.id, "none")
<1>1. net \in Network /\ f.id \in Nat
  BY FetchFields DEF TypeOK
<1>2. g \in Frames /\ g.kind = "subscribed" /\ g.id = f.id /\ ~Over(g)
  BY <1>1, ReplyType, ReplyKinds, ReplyNotes DEF Reply, Frame, Over
<1>3. /\ n \in Network /\ n.phase = "open" /\ n.wire = Append(net.wire, g)
      /\ \A r \in n.srv : r \in net.srv \/ r.sub = f.id
  <2>1. n \in Like(net)
    BY <1>1, AcceptType
  <2>2. n.wire = Append(net.wire, g) /\ \A r \in n.srv : r \in net.srv \/ r.sub = f.id
    BY <1>1 DEF Accept, Post, Network
  <2> QED BY <2>1, <2>2 DEF Like
<1> HIDE DEF g
<1>4. /\ Confirmed(net) \subseteq Confirmed(n) /\ f.id \in Confirmed(n)
      /\ GoneSubs(n) \subseteq GoneSubs(net)
  <2>1. net.wire \in Seq(Frames) /\ Len(net.wire) \in Nat /\ DOMAIN net.wire = 1 .. Len(net.wire)
    BY <1>1, NetFields
  <2>2. /\ DOMAIN n.wire = 1 .. (Len(net.wire) + 1) /\ n.wire[Len(net.wire) + 1] = g
        /\ \A i \in 1 .. Len(net.wire) : n.wire[i] = net.wire[i]
    BY <1>2, <1>3, <2>1, AppendProperties
  <2>3. Confirmed(net) \subseteq Confirmed(n)
    BY <2>1, <2>2 DEF Confirmed, Confirming
  <2>4. f.id \in Confirmed(n)
    BY <1>2, <2>1, <2>2 DEF Confirmed, Confirming
  <2>5. Sent(n) = Sent(net) \cup {g}
    BY <1>1, <1>2, <1>3, SentChanges
  <2> QED BY <1>2, <2>3, <2>4, <2>5 DEF GoneSubs
<1>5. Leads(n, net', {})
  <2>1. ASSUME NEW r \in n.srv, net' = Emit(n, r, r, <<"resync">>, NoCursor, "none")
        PROVE  Leads(n, net', {})
    <3>1. r \in ServerSubs /\ "resync" \in FrameKinds \ {"unsubscribed", "error"}
      BY <1>3 DEF Network, FrameKinds, StreamFrames
    <3> QED BY <1>3, <2>1, <3>1, EmitOneLeads
  <2> QED BY <2>1, LeadsSelf
<1>6. SrvSubs(net') \subseteq SrvSubs(net) \cup {f.id}
  BY <1>3, <1>5 DEF Leads, SrvSubs
<1>7. Confirmed(net) \subseteq Confirmed(net') /\ f.id \in Confirmed(net') /\ GoneSubs(net') \subseteq GoneSubs(net)
  BY <1>4, <1>5 DEF Leads
<1>8. Holding \subseteq Holding'
  BY HoldersStay
<1>9. f.id \notin GoneSubs(net)
  BY DEF OrphanInv, Used
<1>10. Shut(net')
  BY <1>3, <1>5 DEF Leads, Shut
<1>11. \A x \in GoneSubs(net') : Used(x)'
  BY <1>7 DEF OrphanInv, Used
<1> QED BY <1>6, <1>7, <1>8, <1>9, <1>10, <1>11 DEF OrphanInv

LEMMA SubscribeTokenCleans ==
    ASSUME TypeOK, Created, RequestsInv, InStep, OrphanInv, NEW f \in fetches, f.kind = "subscribe", Wanted(f),
           fetches' = fetches \ {f}, SubscribeToken(f)
    PROVE  Cleans \/ OrphanInv'
<1> DEFINE p  == Request(f.id, "subscribe", f.s)
           ch == stream[f.s].channel
           at == stream[f.s].cursor
<1>1. /\ f.s \in Streams /\ f.id \in Nat /\ p \in req.pending /\ UNCHANGED <<subs, stream>>
      /\ net \in Network /\ InOrder(net) /\ f.id \notin Subs(net)
  BY FetchFields DEF TypeOK, Wanted, SubscribeToken, InStep, FreshInv
<1>2. p.s = f.s
  BY DEF Request
<1>3. ch \in Channels /\ at \in Cursors /\ NoCursor \in Cursors
  BY <1>1, <1>2 DEF Created, Named, TypeOK, StreamObject, Cursors
<1> HIDE DEF p, ch, at
<1>4. CASE UNCHANGED net
  BY <1>1, <1>4, HoldersStay, SilentCleans
<1>5. CASE UNCHANGED req /\ net.phase = "open" /\ net' = Accept(net, f.id, ch, at)
  BY <1>1, <1>3, <1>5, AcceptCleans
<1>6. CASE /\ UNCHANGED req /\ net.phase = "open"
           /\ LET n == Accept(net, f.id, ch, NoCursor)
                  r == CHOOSE x \in n.srv : x.sub = f.id
              IN  net' = Emit(n, r, r, <<"resync">>, NoCursor, "none")
  <2> DEFINE n == Accept(net, f.id, ch, NoCursor)
             r == CHOOSE x \in n.srv : x.sub = f.id
  <2>1. r \in n.srv
    BY <1>1, <1>3, AcceptType
  <2>2. net' = Emit(n, r, r, <<"resync">>, NoCursor, "none")
    BY <1>6
  <2>3. n = Accept(net, f.id, ch, NoCursor)
    OBVIOUS
  <2> HIDE DEF n, r
  <2> QED BY <1>1, <1>3, <1>6, <2>1, <2>2, <2>3, AcceptCleans
<1>7. CASE \E note \in {"cursorInvalid", "forbidden"} : net' = Post(net, Reply("error", f.id, 0, note))
  BY <1>1, <1>7, PostCleans
<1>8. \/ UNCHANGED net
      \/ ServerAnswers(f.id, ch, at) /\ UNCHANGED req
  BY DEF SubscribeToken, ch, at
<1>9. ServerAnswers(f.id, ch, at) =>
        \/ net.phase = "open" /\ net' = Accept(net, f.id, ch, at)
        \/ UNCHANGED net
        \/ /\ net.phase = "open"
           /\ LET n == Accept(net, f.id, ch, NoCursor)
                  r == CHOOSE x \in n.srv : x.sub = f.id
              IN  net' = Emit(n, r, r, <<"resync">>, NoCursor, "none")
        \/ \E note \in {"cursorInvalid", "forbidden"} : net' = Post(net, Reply("error", f.id, 0, note))
  BY DEF ServerAnswers
<1> QED BY <1>4, <1>5, <1>6, <1>7, <1>8, <1>9

LEMMA FetchCleans ==
    ASSUME TypeOK, Created, RequestsInv, InStep, OrphanInv, FetchSettles
    PROVE  Cleans \/ OrphanInv'
<1>1. PICK f \in fetches :
         /\ fetches' = fetches \ {f}
         /\ \/ /\ Wanted(f)
               /\ \/ f.kind = "connect"   /\ ConnectToken(f)
                  \/ f.kind = "reauth"    /\ ReauthToken
                  \/ f.kind = "subscribe" /\ SubscribeToken(f)
                  \/ f.kind = "refresh"   /\ RefreshToken(f)
            \/ ~Wanted(f) /\ UNCHANGED <<core, turn, net, faults>>
  BY DEF FetchSettles
<1>2. net \in Network
  BY DEF TypeOK
<1>3. CASE UNCHANGED <<subs, stream, net>>
  BY <1>3, HoldersStay, SilentCleans
<1>4. CASE ConnectToken(f)
  <2>1. CASE net' = [Offline EXCEPT !.phase = "connecting"]
    BY <2>1, NothingKept DEF Offline
  <2> QED BY <1>3, <1>4, <2>1 DEF ConnectToken
<1>5. CASE f.kind = "refresh" /\ Wanted(f) /\ RefreshToken(f)
  <2>1. f.id \in Nat /\ req.seq + 1 \in Nat /\ UNCHANGED <<subs, stream>> /\ f.s \in Streams
    BY <1>5, FetchFields, FetchNumbers DEF TypeOK, RefreshToken
  <2>2. CASE net' = Renew(net, req.seq + 1, f.id)
    <3>1. Used(f.id)
      <4>1. conn.ws = f.ws /\ stream[f.s].sub = f.id /\ f.id # 0
        BY <1>5 DEF Wanted, RequestsInv, IdsInv
      <4>2. IsCurrent(f.s)
        BY <1>5, <2>1, <4>1 DEF RequestsInv, Settled
      <4> QED BY <2>1, <4>1, <4>2, NameUsed
    <3>2. PICK X : X \subseteq {f.id} /\ Leads(net, Renew(net, req.seq + 1, f.id), X)
      <4>1. \A id, sub \in Nat : \E X \in SUBSET {sub} : Leads(net, Renew(net, id, sub), X)
        BY <1>2, RenewLeads
      <4>2. \E X \in SUBSET {f.id} : Leads(net, Renew(net, req.seq + 1, f.id), X)
        BY <2>1, <4>1, Zenon
      <4> QED BY <4>2
    <3>3. Holding \subseteq Holding'
      BY <2>1, HoldersStay
    <3> QED BY <2>2, <3>1, <3>2, <3>3, LetsGo
  <2>3. CASE net' = Post(net, Reply("error", req.seq + 1, f.id, "forbidden"))
    BY <2>1, <2>3, PostCleans
  <2> QED BY <1>3, <1>5, <2>1, <2>2, <2>3 DEF RefreshToken
<1>6. CASE ReauthToken \/ UNCHANGED <<core, net>>
  BY <1>3, <1>6 DEF ReauthToken, core
<1> QED BY <1>1, <1>4, <1>5, <1>6, SubscribeTokenCleans

LEMMA TimersClean ==
    ASSUME TypeOK, RequestsInv, OrphanInv, ReconnectTimer \/ (\E s \in Streams : RetryTimer(s)) \/ SocketOpens
    PROVE  Cleans
<1>1. CASE ReconnectTimer
  BY <1>1, HoldersStay, SilentCleans DEF ReconnectTimer
<1>2. ASSUME NEW s \in Streams, RetryTimer(s)
      PROVE  Cleans
  <2>1. UNCHANGED <<subs, net>>
    BY <1>2 DEF RetryTimer, env
  <2>2. \A t \in Streams : stream'[t].sub = stream[t].sub
    BY <1>2 DEF RetryTimer, TypeOK, StreamObject
  <2> QED BY <2>1, <2>2, SameCurrent, CurrentStreams, HoldersStay, SilentCleans
<1>3. CASE SocketOpens
  <2>1. net.srv = {} /\ net'.srv = {} /\ net'.wire = net.wire /\ UNCHANGED <<subs, stream>>
    BY <1>3 DEF SocketOpens, TypeOK, Network, OrphanInv, Shut
  <2>2. Leads(net, net', {})
    BY <2>1 DEF Leads, Shut, SrvSubs, GoneSubs, Sent, Confirmed, Confirming
  <2> QED BY <2>1, <2>2, HoldersStay, LetsGo
<1> QED BY <1>1, <1>2, <1>3

LEMMA ReadingCleans ==
    ASSUME TypeOK, RequestsInv, InStep, OrphanInv, net.wire # <<>>, Head(net.wire).kind # "subscribed",
           net' = Read, Holding \subseteq Holding'
    PROVE  Cleans
<1>1. Leads(net, net', {})
  BY ReadLeads DEF InStep, RequestsInv, IdsInv
<1> QED BY <1>1, LetsGo

LEMMA AnsweredCleans ==
    ASSUME TypeOK, RequestsInv, InStep, OrphanInv, net.wire # <<>>, Head(net.wire).kind # "subscribed",
           NEW q, NEW jobs, Answered(q, jobs)
    PROVE  Cleans
BY ReadingCleans, HoldersStay DEF Answered

LEMMA UpdateCleans ==
    ASSUME TypeOK, RequestsInv, InStep, OrphanInv, net.wire # <<>>, Head(net.wire).kind # "subscribed",
           NEW s, NEW r, r.sub = stream[s].sub, NEW jobs, Update(s, r, jobs)
    PROVE  Cleans
BY ReadingCleans, HoldersStay DEF Update

\* A stream that asks anew lets the subscription it had go, unless that is over.
LEMMA ResubscribeCleans ==
    ASSUME TypeOK, RequestsInv, InStep, OrphanInv, net.wire # <<>>, Head(net.wire).kind # "subscribed",
           NEW s \in Streams, IsCurrent(s), stream[s].sub # 0, NEW r,
           r.sub = stream[s].sub \/ (r.sub = 0 /\ stream[s].sub \notin SrvSubs(net)),
           NEW q \in Tables, q.seq = req.seq, Resubscribe(s, r, q, Read)
    PROVE  Cleans
<1> DEFINE x    == stream[s].sub
           drop == r.sub # 0
           q2   == IF drop THEN Unsubscribing(q, r.sub) ELSE q
<1>1. x \in Nat /\ req.seq + 1 \in Nat /\ Used(x) /\ (r.sub = x \/ (r.sub = 0 /\ x \notin SrvSubs(net))) /\ x # 0
  BY FetchNumbers, NameUsed DEF TypeOK, StreamObject
<1>2. drop => q2.seq = req.seq + 1
  BY DEF Unsubscribing, Tables
<1>3. Leads(net, Read, {}) /\ Read \in Network
  BY ReadLeads, ReadType DEF InStep, RequestsInv, IdsInv
<1>4. net' = IF drop THEN Cancel(Read, q2.seq, r.sub) ELSE Read
  BY DEF Resubscribe
<1>5. Holding \subseteq Holding' \cup {x}
  <2>1. UNCHANGED subs /\ \E y : stream' = [stream EXCEPT ![s] = y]
    BY DEF Resubscribe
  <2> QED BY <2>1, HoldersStay
<1> HIDE DEF q2, x
<1>6. Leads(net, net', {x})
  <2>1. CASE drop
    <3>1. Shut(Read)
      BY <1>3 DEF Leads, OrphanInv
    <3>2. Leads(Read, net', {x})
      BY <1>1, <1>2, <1>3, <1>4, <2>1, <3>1, CancelLeads
    <3> QED BY <1>3, <3>2, LeadsOn
  <2>2. CASE ~drop
    BY <1>1, <1>3, <1>4, <2>2 DEF Leads
  <2> QED BY <2>1, <2>2
<1> QED BY <1>1, <1>5, <1>6, LetsGo

LEMMA EndedCleans ==
    ASSUME TypeOK, RequestsInv, InStep, OrphanInv, net.wire # <<>>, NEW f, f = Head(net.wire), Over(f),
           NEW s \in Streams, IsCurrent(s), stream[s].sub # 0, stream[s].sub = f.sub,
           NEW q \in Tables, q.seq = req.seq, Ended(s, q)
    PROVE  Cleans
<1> DEFINE r  == [stream[s] EXCEPT !.sub = 0]
           q1 == Unnamed(q, stream[s].sub)
<1>1. r.sub = 0 /\ stream[s].sub \in Nat
  BY DEF TypeOK, StreamObject
<1>2. q1 \in Tables /\ q1.seq = q.seq
  BY <1>1, TableTypes DEF Unnamed, Tables
<1>3. Resubscribe(s, r, q1, Read)
  BY DEF Ended
<1> HIDE DEF r, q1
<1>4. stream[s].sub \notin SrvSubs(net)
  BY ReadLeads DEF InStep, RequestsInv, IdsInv, OrphanInv
<1>5. f.kind # "subscribed"
  BY DEF Over
<1> QED BY <1>1, <1>2, <1>3, <1>4, <1>5, ResubscribeCleans

\* A confirmation makes the subscription its stream's, or gives it back.
LEMMA OnSubscribedCleans ==
    ASSUME TypeOK, RequestsInv, InStep, OrphanInv, net.wire # <<>>, NEW f, f = Head(net.wire),
           f.kind = "subscribed", OnSubscribed(f)
    PROVE  Cleans
<1>1. /\ f.sub = f.id /\ f.id \in Nat /\ f.sub \in Nat /\ f.id \in Confirmed(net)
      /\ Confirmed(net) \subseteq Confirmed(Read) \cup {f.id} /\ Read.srv = net.srv /\ Read.phase = net.phase
      /\ GoneSubs(Read) \subseteq GoneSubs(net)
  BY ReadLeads, ReadCalm, FrameFields DEF RequestsInv, IdsInv, InStep
<1>2. /\ Shut(Read) /\ SrvSubs(Read) \subseteq SrvSubs(net) /\ Used(f.id)
      /\ SrvSubs(net) \subseteq Holding \cup Confirmed(Read) \cup {f.id}
      /\ \A x \in SrvSubs(net) : x # 0
  <2>1. Used(f.id)
    BY <1>1 DEF RequestsInv, IdsInv, Used
  <2>2. \A x \in SrvSubs(net) : x # 0
    BY DEF RequestsInv, IdsInv, WireShape, SrvSubs
  <2> QED BY <1>1, <2>1, <2>2 DEF OrphanInv, Shut, SrvSubs
<1>3. ASSUME NEW s \in Streams, Request(f.id, "subscribe", s) \in req.pending,
             stream' = [stream EXCEPT ![s].sub = f.sub, ![s].seq = 0, ![s].state = "connected"],
             net' = Read, UNCHANGED subs
      PROVE  Cleans
  <2>1. IsCurrent(s) /\ stream[s].sub = 0
    <3>1. Request(f.id, "subscribe", s) \in Asking(s)
      BY <1>3 DEF Asking, Request
    <3>2. IsCurrent(s)
      BY <3>1, OwnNames DEF Asking
    <3> QED BY <3>1, <3>2 DEF RequestsInv, Settled, Tidy
  <2>2. Current' = Current /\ stream'[s].sub = f.id /\ \A t \in Streams \ {s} : stream'[t] = stream[t]
    BY <1>1, <1>3, SameCurrent DEF TypeOK, StreamObject
  <2>3. f.id \in Holding' /\ Holding \subseteq Holding' \cup {0}
    BY <2>1, <2>2, CurrentStreams DEF Holding, IsCurrent
  <2>4. SrvSubs(net') \subseteq Holding' \cup Confirmed(net')
    BY <1>2, <1>3, <2>3
  <2>5. GoneSubs(net') \cap SrvSubs(net') = {} /\ \A x \in GoneSubs(net') : Used(x)
    BY <1>1, <1>2, <1>3 DEF OrphanInv
  <2> QED BY <1>2, <1>3, <2>4, <2>5 DEF Cleans
<1>4. CASE DropUnwanted(f)
  <2>1. UNCHANGED <<subs, stream>> /\ net' = Cancel(Read, req.seq + 1, f.sub)
    BY <1>4 DEF DropUnwanted
  <2>2. Leads(Read, net', {f.id})
    BY <1>1, <1>2, <2>1, ReadType, CancelLeads, FetchNumbers
  <2>3. Holding \subseteq Holding'
    BY <2>1, HoldersStay
  <2>4. SrvSubs(net') \subseteq Holding' \cup Confirmed(net')
    BY <1>2, <2>2, <2>3 DEF Leads
  <2>5. GoneSubs(net') \cap SrvSubs(net') = {} /\ \A x \in GoneSubs(net') : Used(x)
    BY <1>1, <1>2, <2>2 DEF OrphanInv, Leads
  <2>6. Shut(net')
    BY <1>2, <2>2 DEF Leads
  <2> QED BY <2>4, <2>5, <2>6 DEF Cleans
<1> QED BY <1>3, <1>4 DEF OnSubscribed

LEMMA OnErrorCleans ==
    ASSUME TypeOK, RequestsInv, InStep, OrphanInv, net.wire # <<>>, NEW f, f = Head(net.wire), f.kind = "error",
           OnError(f)
    PROVE  Cleans
<1> DEFINE asked == {p \in req.pending : p.id = f.id}
           Other(s) == IF f.note = "unknown" /\ stream[s].sub = f.sub THEN Ended(s, Forget(f.id))
                       ELSE Answered(Forget(f.id), <<Report(s)>>)
<1>1. IsPlain(f)
  BY ReadCalm DEF RequestsInv, IdsInv
<1>2. ASSUME NEW s \in Streams, IsCurrent(s), Other(s)
      PROVE  Cleans
  <2>1. CASE f.note = "unknown" /\ stream[s].sub = f.sub
    <3>1. stream[s].sub # 0 /\ Ended(s, Forget(f.id)) /\ Over(f)
      BY <1>1, <1>2, <2>1 DEF IsPlain, Names, Over
    <3> QED BY <1>2, <2>1, <3>1, ForgetTables, EndedCleans
  <2>2. CASE ~(f.note = "unknown" /\ stream[s].sub = f.sub)
    BY <1>2, <2>2, AnsweredCleans
  <2> QED BY <2>1, <2>2
<1>3. ASSUME NEW s, SubscribeError(s, f)
      PROVE  Cleans
  <2>1. CASE f.note = "cursorInvalid"
    <3>1. UNCHANGED subs /\ stream' = [stream EXCEPT ![s].cursor = NoCursor] /\ net' = Read
      BY <1>3, <2>1 DEF SubscribeError
    <3>2. \A t \in Streams : stream'[t].sub = stream[t].sub
      BY <3>1 DEF TypeOK, StreamObject
    <3> QED BY <3>1, <3>2, SameCurrent, CurrentStreams, HoldersStay, ReadingCleans
  <2>2. CASE f.note # "cursorInvalid"
    BY <1>3, <2>2, AnsweredCleans DEF SubscribeError
  <2> QED BY <2>1, <2>2
<1>4. CASE \E q, jobs : Answered(q, jobs)
  BY <1>4, AnsweredCleans
<1>5. ASSUME NEW p \in asked, Other(p.s)
      PROVE  Cleans
  <2>1. p.s \in Streams /\ IsCurrent(p.s)
    BY OwnNames DEF TypeOK, Tables, Requests
  <2> QED BY <1>2, <1>5, <2>1
<1>6. ASSUME NEW b \in req.bySub, Other(b.s)
      PROVE  Cleans
  <2>1. b.s \in Streams /\ IsCurrent(b.s)
    BY OwnNames DEF TypeOK, Tables
  <2> QED BY <1>2, <1>6, <2>1
<1>7. \/ Answered([req EXCEPT !.unsubscribing = @ \ {f.id}], <<>>)
      \/ Answered(req, <<>>)
      \/ \E p \in asked : IF p.kind = "subscribe" THEN SubscribeError(p.s, f) ELSE Other(p.s)
      \/ \E b \in req.bySub : Other(b.s)
      \/ Answered(req, <<Every("reportAll")>>)
  BY DEF OnError
<1> HIDE DEF asked, Other
<1> QED BY <1>3, <1>4, <1>5, <1>6, <1>7

LEMMA OnStreamFrameCleans ==
    ASSUME TypeOK, RequestsInv, InStep, OrphanInv, net.wire # <<>>, NEW b \in req.bySub,
           NEW f, f = Head(net.wire), f.sub = b.sub, f.kind \in StreamFrames, OnStreamFrame(b.s, f)
    PROVE  Cleans
<1> DEFINE s == b.s
           x == stream[s]
           r == IF f.seq > 0 THEN [stream[s] EXCEPT !.seq = f.seq] ELSE stream[s]
<1>1. s \in Streams /\ IsCurrent(s) /\ x.sub # 0 /\ x.sub = b.sub /\ x \in StreamObject /\ req \in Tables
  BY OwnNames DEF TypeOK, Tables
<1>2. f.kind # "subscribed"
  BY DEF StreamFrames
<1>3. r.sub = x.sub
  BY <1>1 DEF StreamObject
<1>4. \A y : (y.sub = x.sub /\ \E jobs : Update(s, y, jobs)) => Cleans
  BY <1>2, UpdateCleans
<1>5. \A y : (y.sub = x.sub /\ Resubscribe(s, y, req, Read)) => Cleans
  BY <1>1, <1>2, ResubscribeCleans
<1>6. CASE f.kind = "unsubscribed" /\ Ended(s, req)
  BY <1>1, <1>6, EndedCleans DEF Over
<1>7. CASE net' = Read /\ UNCHANGED core
  BY <1>2, <1>7, HoldersStay, ReadingCleans DEF core
<1>9. /\ [r EXCEPT !.staged = EmptyView].sub = x.sub
      /\ [r EXCEPT !.retries = 0].sub = x.sub /\ [r EXCEPT !.stale = f.note].sub = x.sub
      /\ [r EXCEPT !.cursor = f.pos, !.retries = 0].sub = x.sub
      /\ [r EXCEPT !.staged = IF @ = NoView THEN @ ELSE ViewAt(f.pos)].sub = x.sub
  BY <1>1, <1>3 DEF StreamObject
<1>10. CASE SnapshotEnd(s, f)
  <2> DEFINE y    == [stream[s] EXCEPT !.seq = f.seq, !.staged = NoView]
             view == stream[s].staged
  <2>1. [y EXCEPT !.cursor = NoCursor].sub = x.sub
        /\ [y EXCEPT !.cursor = f.pos, !.retries = 0, !.orders = view].sub = x.sub
    BY <1>1 DEF StreamObject
  <2>2. \/ Resubscribe(s, [y EXCEPT !.cursor = NoCursor], req, Read)
        \/ \E jobs : Update(s, [y EXCEPT !.cursor = f.pos, !.retries = 0, !.orders = view], jobs)
    BY <1>10 DEF SnapshotEnd
  <2> HIDE DEF s, x, y, view
  <2> QED BY <1>4, <1>5, <2>1, <2>2
<1>11. CASE OnUnit(s, f)
  <2> DEFINE y == [stream[s] EXCEPT !.seq = f.seq, !.cursor = f.pos, !.retries = 0,
                                    !.orders = IF @ = NoView THEN @ ELSE Apply(@, f.pos)]
  <2>1. y.sub = x.sub
    BY <1>1 DEF StreamObject
  <2>2. \E jobs : Update(s, y, jobs)
    BY <1>11 DEF OnUnit
  <2> HIDE DEF s, x, y
  <2> QED BY <1>4, <2>1, <2>2
<1>12. \/ Resubscribe(s, x, req, Read)
       \/ \E jobs : Update(s, [r EXCEPT !.staged = EmptyView], jobs)
       \/ \E jobs : Update(s, [r EXCEPT !.staged = IF @ = NoView THEN @ ELSE ViewAt(f.pos)], jobs)
       \/ SnapshotEnd(s, f) \/ OnUnit(s, f)
       \/ \E jobs : Update(s, [r EXCEPT !.cursor = f.pos, !.retries = 0], jobs)
       \/ \E jobs : Update(s, [r EXCEPT !.retries = 0], jobs)
       \/ \E jobs : Update(s, r, jobs)
       \/ \E jobs : Update(s, [r EXCEPT !.stale = f.note], jobs)
       \/ net' = Read /\ UNCHANGED core
       \/ f.kind = "unsubscribed" /\ Ended(s, req)
  BY DEF OnStreamFrame
<1> HIDE DEF s, x, r
<1> QED BY <1>3, <1>4, <1>5, <1>6, <1>7, <1>9, <1>10, <1>11, <1>12

LEMMA OnFrameCleans ==
    ASSUME TypeOK, RequestsInv, InStep, OrphanInv, OnFrame \/ OnGarbledFrame
    PROVE  Cleans
<1> DEFINE f == Head(net.wire)
<1>1. net.wire # <<>> /\ f \in Sent(net)
  BY ReadCarries DEF OnFrame, OnGarbledFrame
<1>2. CASE f.kind # "subscribed" /\ \E q, jobs : Answered(q, jobs)
  BY <1>1, <1>2, AnsweredCleans
<1>3. CASE f.kind # "subscribed" /\ net' = Read /\ UNCHANGED core
  BY <1>1, <1>3, HoldersStay, ReadingCleans DEF core
<1>4. CASE f.kind \in StreamFrames /\ \E b \in req.bySub : b.sub = f.sub /\ OnStreamFrame(b.s, f)
  BY <1>1, <1>4, OnStreamFrameCleans
<1>5. CASE f.kind = "subscribed" /\ OnSubscribed(f)
  BY <1>1, <1>5, OnSubscribedCleans
<1>6. CASE f.kind = "error" /\ OnError(f)
  BY <1>1, <1>6, OnErrorCleans
<1>7. f.seq > 0 => f.kind # "subscribed"
  BY <1>1 DEF InStep, InOrder, Sequenced
<1>8. OnGarbledFrame => f.seq > 0 /\ \E q, jobs : Answered(q, jobs)
  BY DEF OnGarbledFrame
<1>9. OnFrame => \/ f.kind = "subscribed" /\ OnSubscribed(f)
                 \/ f.kind = "error" /\ OnError(f)
                 \/ f.kind \in {"refreshed", "unsubscribed"} \cup StreamFrames /\ \E q, jobs : Answered(q, jobs)
                 \/ f.kind = "tokenExpiring" /\ net' = Read /\ UNCHANGED core
                 \/ f.kind \in StreamFrames /\ \E b \in req.bySub : b.sub = f.sub /\ OnStreamFrame(b.s, f)
  BY DEF OnFrame
<1>10. "subscribed" \notin {"refreshed", "unsubscribed"} \cup StreamFrames
  BY DEF StreamFrames
<1> HIDE DEF f
<1> QED BY <1>2, <1>3, <1>4, <1>5, <1>6, <1>7, <1>8, <1>9, <1>10

LEMMA TurnCleans ==
    ASSUME TypeOK, LinkInv, RequestsInv, OrphanInv, CallConsumer \/ CallsDone \/ NextStream \/ Resume
    PROVE  Cleans
<1>1. ASSUME UNCHANGED <<subs, net>>, \A s \in Streams : stream'[s].sub = stream[s].sub
      PROVE  Cleans
  BY <1>1, SameCurrent, CurrentStreams, HoldersStay, SilentCleans
<1>2. CASE UNCHANGED <<subs, stream, net>>
  BY <1>1, <1>2
<1>3. CASE CallConsumer \/ CallsDone
  BY <1>2, <1>3 DEF CallConsumer, CallsDone, core, env
<1>4. CASE NextStream
  <2>1. UNCHANGED <<subs, net>>
    BY <1>4 DEF NextStream, env
  <2>2. UNCHANGED stream \/ \E s : stream' = [stream EXCEPT ![s].state = "disconnected"]
    BY <1>4 DEF NextStream
  <2>3. \A s \in Streams : stream'[s].sub = stream[s].sub
    <3>1. CASE UNCHANGED stream
      BY <3>1
    <3>2. ASSUME NEW t, stream' = [stream EXCEPT ![t].state = "disconnected"]
          PROVE  \A s \in Streams : stream'[s].sub = stream[s].sub
      BY <3>2 DEF TypeOK, StreamObject
    <3> QED BY <2>2, <3>1, <3>2
  <2> QED BY <1>1, <2>1, <2>3
<1>5. CASE Resume
  <2> DEFINE s == Head(turn).s
  <2>1. CASE Head(turn).do = "finish" /\ FinishTerminate(s)
    <3> DEFINE r == [stream[s] EXCEPT !.state = "disconnected"]
    <3>1. s \in Streams
      BY <1>5, <2>1, TurnType, JobFields DEF Resume
    <3>2. r \in StreamObject /\ r.channel = stream[s].channel /\ r.sub = stream[s].sub
      BY <3>1 DEF TypeOK, StreamObject, LinkStates
    <3>3. \/ IsCurrent(s) /\ Teardown(s, r)
          \/ stream' = [stream EXCEPT ![s] = r] /\ UNCHANGED <<subs, net>>
      BY <2>1 DEF FinishTerminate
    <3> HIDE DEF r, s
    <3>4. CASE stream' = [stream EXCEPT ![s] = r] /\ UNCHANGED <<subs, net>>
      BY <3>2, <3>4, HoldersStay, SilentCleans
    <3> QED BY <3>1, <3>2, <3>3, <3>4, TeardownCleans
  <2>2. CASE stream' = [stream EXCEPT ![s].stale = "no"] /\ UNCHANGED <<subs, net>>
    <3>1. \A t \in Streams : stream'[t].sub = stream[t].sub
      BY <2>2 DEF TypeOK, StreamObject
    <3> QED BY <1>1, <2>2, <3>1
  <2>3. ASSUME NEW sock, stream' = [stream EXCEPT ![s] = Retrying(@, sock)], UNCHANGED <<subs, net>>
        PROVE  Cleans
    <3>1. \A t \in Streams : stream'[t].sub = stream[t].sub
      BY <2>3 DEF Retrying, TypeOK, StreamObject
    <3> QED BY <1>1, <2>3, <3>1
  <2>4. \/ UNCHANGED <<subs, stream, net>>
        \/ Head(turn).do = "finish" /\ FinishTerminate(s)
        \/ stream' = [stream EXCEPT ![s].stale = "no"] /\ UNCHANGED <<subs, net>>
        \/ \E sock : stream' = [stream EXCEPT ![s] = Retrying(@, sock)] /\ UNCHANGED <<subs, net>>
    BY <1>5 DEF Resume, core
  <2> HIDE DEF s
  <2> QED BY <1>2, <2>1, <2>2, <2>3, <2>4
<1> QED BY <1>3, <1>4, <1>5

LEMMA ServerCleans ==
    ASSUME TypeOK, RequestsInv, InStep, OrphanInv, Server
    PROVE  Cleans
<1>1. net \in Network /\ InOrder(net) /\ UNCHANGED <<subs, stream>> /\ Holding \subseteq Holding'
  <2>1. UNCHANGED <<subs, stream>>
    BY DEF Server, AccountMoves, ServerSends, FrameLost, ConnectionEnds, core
  <2> QED BY <2>1, HoldersStay DEF TypeOK, InStep
<1>2. CASE \E ch \in Channels : AccountMoves(ch)
  BY <1>1, <1>2, SilentCleans DEF AccountMoves
<1>3. CASE ServerSends
  <2>1. ASSUME NEW r \in net.srv, \/ net' \in Serving(net, r, log[r.ch])
                                  \/ net' \in Recovering(net, r)
                                  \/ \E kind \in ServerFaults : net' \in Failing(net, r, kind, log[r.ch])
        PROVE  Cleans
    <3>1. log[r.ch] \in Positions
      BY <1>1 DEF TypeOK, Network, ServerSubs
    <3>2. net.phase = "open"
      BY <1>3 DEF ServerSends
    <3>3. PICK X \in SUBSET {r.sub} : Leads(net, net', X)
      BY <1>1, <2>1, <3>1, <3>2, SendLeads
    <3>4. Used(r.sub)
      BY DEF InStep, FreshInv, Subs, Used
    <3> QED BY <1>1, <3>3, <3>4, LetsGo
  <2>2. ASSUME NEW kind \in {"tokenExpiring", "error"}, net' = Post(net, Reply(kind, 0, 0, "other"))
        PROVE  Cleans
    BY <1>1, <2>2, PostCleans
  <2> QED BY <1>3, <2>1, <2>2 DEF ServerSends
<1>4. CASE FrameLost
  <2>1. PICK k \in DOMAIN net.wire :
          /\ net.wire[k].seq > 0
          /\ net' = [net EXCEPT !.wire = SubSeq(@, 1, k - 1) \o SubSeq(@, k + 1, Len(@))]
    BY <1>4 DEF FrameLost
  <2>2. /\ net'.srv = net.srv /\ net'.phase = net.phase
        /\ net'.wire = SubSeq(net.wire, 1, k - 1) \o SubSeq(net.wire, k + 1, Len(net.wire))
    BY <1>1, <2>1 DEF Network
  <2>3. net.wire[k].kind # "subscribed"
    BY <1>1, <2>1 DEF InOrder, Sent, Sequenced
  <2>4. Leads(net, net', {})
    BY <1>1, <2>1, <2>2, <2>3, CutSteps
  <2> QED BY <1>1, <2>4, LetsGo
<1>5. CASE ConnectionEnds
  <2>1. net'.wire = net.wire /\ net'.srv = {}
    BY <1>1, <1>5 DEF ConnectionEnds, Network
  <2>2. Leads(net, net', {})
    BY <2>1 DEF Leads, Shut, SrvSubs, GoneSubs, Sent, Confirmed, Confirming
  <2> QED BY <1>1, <2>2, LetsGo
<1> QED BY <1>2, <1>3, <1>4, <1>5 DEF Server

LEMMA StepKeepsOrphans ==
    ASSUME TypeOK, Created, LinkInv, RequestsInv, InStep, OrphanInv, [Next]_vars
    PROVE  OrphanInv'
<1>1. TypeOK' /\ (Outcome \/ SocketOpens)
  BY StepKeepsTypes, StepDoes
<1>2. CASE UNCHANGED vars
  BY <1>1, <1>2, HoldersStay, SilentCleans, CleansOrphans DEF vars, core, env
<1>3. CASE App \/ Server
  BY <1>1, <1>3, AppCleans, ServerCleans, CleansOrphans
<1>4. CASE Client
  <2>1. SocketCloses \/ HeartbeatTimer => Cleans
    BY OfflineKeepsNothing DEF SocketCloses, HeartbeatTimer, Closed
  <2>2. Cleans \/ OrphanInv'
    BY <1>4, <2>1, RunMicrotaskCleans, FetchCleans, TimersClean, OnFrameCleans, TurnCleans DEF Client
  <2> QED BY <1>1, <2>2, CleansOrphans
<1> QED BY <1>2, <1>3, <1>4 DEF Next

LEMMA InitOrphans == Init => OrphanInv
<1> SUFFICES ASSUME Init PROVE OrphanInv
  OBVIOUS
<1>1. Sent(net) = {} /\ net.srv = {}
  BY DEF Init, Offline, Sent
<1> QED BY <1>1 DEF OrphanInv, Shut, SrvSubs, GoneSubs

LEMMA OrphansHeld ==
    ASSUME TypeOK, OrphanInv
    PROVE  NoOrphanSubscription
<1> SUFFICES ASSUME net.wire = <<>>, NEW r \in net.srv PROVE \E s \in Current : stream[s].sub = r.sub
  BY DEF NoOrphanSubscription
<1>1. Confirmed(net) = {}
  BY DEF Confirmed, Confirming
<1> QED BY <1>1 DEF OrphanInv, SrvSubs, Holding

\* Once the wire is drained the server keeps no subscription nobody holds: one that is
\* confirmed after its consumer left is given back, one that is replaced or torn down
\* is cancelled, and one the client forgets without a word is over on the server too.
THEOREM NoOrphanSubscriptionHolds == Spec => []NoOrphanSubscription
<1> DEFINE Inv == OrdersInv /\ OrphanInv
<1>1. Init => Inv
  BY InitOrders, InitOrphans
<1>2. Inv /\ [Next]_vars => Inv'
  BY StepKeepsOrders, StepKeepsOrphans DEF OrdersInv
<1>3. Inv => NoOrphanSubscription
  BY OrphansHeld DEF OrdersInv
<1> QED BY <1>1, <1>2, <1>3, PTL DEF Spec

=============================================================================
