------------------------------ MODULE OrderBook ------------------------------
(***************************************************************************)
(* OrderbookService.createSubscription (src/services/orderbook/            *)
(* orderbook.ts): a local order book kept by a snapshot and the deltas     *)
(* that follow it.  An action is what one event does before it calls the   *)
(* consumer; `turn` is what the event does after the call returns, and the *)
(* consumer may unsubscribe or change its bucket in between.               *)
(***************************************************************************)
EXTENDS SnapshotThenStream, BookHistory, FiniteSets

CONSTANTS Buckets, NoBucket,     \* price aggregations a consumer may ask for
          FirstPosition,         \* where the book is when the client subscribes
          Faults,                \* what may go wrong outside the client
          MaxFaults,             \* bound: how many of them happen
          MaxStep                \* bound: changes one delta covers

ASSUME BookAssumption == /\ FirstPosition \in Positions
                         /\ MaxFaults \in Nat /\ MaxStep \in Nat
                         /\ NoBucket \notin Buckets

VARIABLES st,                    \* the snapshot-then-stream feed
          book, seq, bucket,     \* bidsMap and asksMap, currentBookSeq, bucketTicks
          fetches,               \* snapshots being fetched: [generation, from]
          turn,                  \* what the running event has yet to do
          shown,                 \* what onEvent was last given
          lagged,                \* the book is of a stale snapshot and no delta since
          link, wire, log,       \* external: the channel, publications under way, the book's position
          faults

local == <<st, book, seq, bucket, lagged>>
env   == <<link, wire, log, faults>>
vars  == <<local, fetches, turn, shown, env>>

Nothing == [seq |-> -1, book |-> EmptyBook, bucket |-> NoBucket]
Event(b, s, k) == [seq |-> s, book |-> b, bucket |-> k]

Idle      == turn.after = "nothing"
Rest      == [after |-> "nothing", generation |-> 0, left |-> <<>>]
Replaying(generation, left) == [after |-> "replay", generation |-> generation, left |-> left]
After(what) == [Rest EXCEPT !.after = what]

Fault(kind) == kind \in Faults /\ faults < MaxFaults /\ faults' = faults + 1

-----------------------------------------------------------------------------
(* The client.                                                             *)

\* Mutant: the gap check is off by one.
IsWideGap(s, d) == s # 0 /\ d.start > s + 2
\* A delta that does not connect to the book; with seq 0 nothing is checked.
IsGap(s, d) == s # 0 /\ d.start > s + 1

\* Mutant: a reset delta is laid over the old levels.
ClearedNever(b, d) == b
Cleared(b, d) == IF d.reset THEN EmptyBook ELSE b

\* applySideDelta, both sides.
Applied(b, d) == [l \in Levels |-> IF l \in Carries(d) THEN QtyAt(l, d.end) ELSE Cleared(b, d)[l]]

\* A snapshot is requested a microtask later, so it is no older than the log.
Refetch(feed, resetRetries) ==
    /\ st' = Refreshed(feed, resetRetries)
    /\ fetches' = fetches \cup {[generation |-> st'.generation, from |-> log]}

Apply(d) ==
    /\ book' = Applied(book, d)
    /\ seq' = d.end /\ lagged' = FALSE
    /\ shown' = Event(book', seq', bucket)

\* handleDelta; `rest` is the turn if the delta was handled.
HandleDelta(d, rest) ==
    \/ /\ d.end <= seq
       /\ turn' = rest
       /\ UNCHANGED <<st, book, seq, lagged, fetches, shown>>
    \/ /\ d.end > seq
       /\ ~d.reset /\ IsGap(seq, d)
       /\ Refetch(st, TRUE)
       /\ turn' = Rest
       /\ UNCHANGED <<book, seq, lagged, shown>>
    \/ /\ d.end > seq
       /\ d.reset \/ ~IsGap(seq, d)
       /\ Apply(d)
       /\ turn' = rest
       /\ UNCHANGED <<st, fetches>>

\* A publication arrives: buffered until the feed is ready.
OnPublication ==
    /\ Idle /\ wire # <<>> /\ ~st.disposed
    /\ wire' = Tail(wire)
    /\ IF st.ready
       THEN HandleDelta(Head(wire), Rest)
       ELSE /\ st' = Buffered(st, Head(wire))
            /\ UNCHANGED <<book, seq, lagged, fetches, turn, shown>>
    /\ UNCHANGED <<bucket, link, log, faults>>

\* A fetch settles that a refresh, a close or unsubscribe has overtaken.
StaleSnapshot ==
    /\ Idle
    /\ \E f \in fetches : /\ ~IsAwaited(st, f.generation)
                          /\ fetches' = fetches \ {f}
    /\ UNCHANGED <<local, turn, shown, env>>

\* applySnapshot up to the replay of what was buffered.
Install(f, n) ==
    /\ fetches' = fetches \ {f}
    /\ st' = [st EXCEPT !.pending = <<>>]
    /\ book' = BookAt(n)
    /\ seq' = n
    /\ shown' = Event(book', seq', bucket)
    /\ turn' = Replaying(f.generation, st.pending)

\* The snapshot answers with the book at some position since it was asked
\* for; a fault makes it older.  A book not found is the empty one at 0.
SnapshotArrives ==
    /\ Idle
    /\ \E f \in fetches :
          /\ IsAwaited(st, f.generation)
          /\ \/ /\ \E n \in f.from .. log : Install(f, n)
                /\ lagged' = FALSE
                /\ UNCHANGED faults
             \/ /\ Fault("stale")
                /\ lagged' = TRUE
                /\ \E n \in FirstPosition .. (f.from - 1) : Install(f, n)
    /\ UNCHANGED <<bucket, link, wire, log>>

\* The fetch fails, or its book is not available: onError, then maybe a retry.
SnapshotFails ==
    /\ Idle
    /\ Fault("unavailable")
    /\ \E f \in fetches : /\ IsAwaited(st, f.generation)
                          /\ fetches' = fetches \ {f}
    /\ turn' = After("retry")
    /\ UNCHANGED <<local, shown, link, wire, log>>

\* Mutant: buffered deltas are replayed to the end whatever happened meanwhile.
MayReplayAlways == TRUE
MayReplay == ~st.disposed

\* The consumer returned from a call the running event makes.
ReplayNext ==
    /\ turn.after = "replay" /\ turn.left # <<>>
    /\ IF MayReplay
       THEN HandleDelta(Head(turn.left), [turn EXCEPT !.left = Tail(@)])
       ELSE turn' = Rest /\ UNCHANGED <<st, book, seq, lagged, fetches, shown>>
    /\ UNCHANGED <<bucket, env>>

ReplayEnds ==
    /\ turn.after = "replay" /\ turn.left = <<>>
    /\ st' = Settled(st, turn.generation)
    /\ turn' = Rest
    /\ UNCHANGED <<book, seq, lagged, bucket, fetches, shown, env>>

RetryAfterError ==
    /\ turn.after = "retry"
    /\ st' = Rescheduled(st)
    /\ turn' = Rest
    /\ UNCHANGED <<book, seq, lagged, bucket, fetches, shown, env>>

RetryTimer ==
    /\ Idle /\ st.timer
    /\ Refetch(st, FALSE)
    /\ UNCHANGED <<book, seq, lagged, bucket, turn, shown, env>>

\* onConnected, on the first subscription and on every later one.
Subscribed ==
    /\ Idle /\ link = "lost" /\ ~st.disposed
    /\ link' = "subscribed"
    /\ Refetch([st EXCEPT !.pending = <<>>], TRUE)
    /\ UNCHANGED <<book, seq, lagged, bucket, turn, shown, wire, log, faults>>

\* The server or the transport ends the channel: onError, then onDisconnected.
Terminated ==
    /\ Idle /\ link = "subscribed" /\ ~st.disposed
    /\ Fault("terminated")
    /\ link' = "ended" /\ wire' = <<>>
    /\ turn' = After("close")
    /\ UNCHANGED <<local, fetches, shown, log>>

CloseAfterError ==
    /\ turn.after = "close"
    /\ st' = Closed(st)
    /\ turn' = Rest
    /\ UNCHANGED <<book, seq, lagged, bucket, fetches, shown, env>>

-----------------------------------------------------------------------------
(* The consumer, between events or inside a call.                          *)

Unsubscribe ==
    /\ ~st.disposed
    /\ st' = Unsubscribed(st)
    /\ wire' = <<>>
    /\ UNCHANGED <<book, seq, lagged, bucket, fetches, turn, shown, link, log, faults>>

SetBucket ==
    /\ \E k \in Buckets \cup {NoBucket} :
          /\ k # bucket
          /\ bucket' = k
          /\ shown' = IF st.ready THEN Event(book, seq, k) ELSE shown
    /\ UNCHANGED <<st, book, seq, lagged, fetches, turn, env>>

\* realtime.disconnect() tells no subscription.
Disconnect ==
    /\ link # "ended"
    /\ link' = "ended" /\ wire' = <<>>
    /\ UNCHANGED <<local, fetches, turn, shown, log, faults>>

-----------------------------------------------------------------------------
(* External: the book's server and the channel.                            *)

\* The book changes and, to a subscribed client, the changes are published.
Publish ==
    /\ \E n \in (log + 1) .. Len(History) :
          /\ n <= log + MaxStep
          /\ log' = n
          /\ \E reset \in BOOLEAN :
                /\ reset => "reset" \in Faults
                /\ wire' = IF link = "subscribed" /\ ~st.disposed
                           THEN Append(wire, [start |-> IF reset THEN 0 ELSE log + 1,
                                              end |-> n, reset |-> reset])
                           ELSE wire
    /\ UNCHANGED <<local, fetches, turn, shown, link, faults>>

\* A publication is lost that a later one shows to be missing.
PublicationLost ==
    /\ Len(wire) > 1
    /\ Fault("lost")
    /\ wire' = Tail(wire)
    /\ UNCHANGED <<local, fetches, turn, shown, link, log>>

\* The connection drops; the transport resubscribes by itself and says so then.
ConnectionLost ==
    /\ link = "subscribed" /\ ~st.disposed
    /\ Fault("connection")
    /\ link' = "lost" /\ wire' = <<>>
    /\ UNCHANGED <<local, fetches, turn, shown, log>>

-----------------------------------------------------------------------------

Init ==
    /\ st = NewFeed
    /\ book = EmptyBook /\ seq = 0 /\ lagged = FALSE
    /\ bucket \in Buckets \cup {NoBucket}
    /\ fetches = {}
    /\ turn = Rest
    /\ shown = Nothing
    /\ link = "lost" /\ wire = <<>>
    /\ log = FirstPosition
    /\ faults = 0

Events == \/ OnPublication \/ StaleSnapshot \/ SnapshotArrives \/ RetryTimer
          \/ Subscribed \/ ReplayNext \/ ReplayEnds \/ RetryAfterError \/ CloseAfterError

Next == \/ Events
        \/ SnapshotFails \/ Terminated
        \/ Unsubscribe \/ SetBucket \/ Disconnect
        \/ Publish \/ PublicationLost \/ ConnectionLost

Spec == Init /\ [][Next]_vars

\* The event loop runs what is due and the server answers.
Fairness == /\ WF_vars(OnPublication)
            /\ WF_vars(SnapshotArrives)
            /\ WF_vars(RetryTimer)
            /\ WF_vars(Subscribed)
            /\ WF_vars(ReplayNext \/ ReplayEnds)
            /\ WF_vars(RetryAfterError \/ CloseAfterError)

FairSpec == Spec /\ Fairness
==============================================================================
