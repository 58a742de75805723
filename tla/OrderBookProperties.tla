------------------------- MODULE OrderBookProperties -------------------------
(* What OrderBook guarantees: types, safety, liveness.                     *)
EXTENDS OrderBook

Feeds == [ready : BOOLEAN, disposed : BOOLEAN, generation : Nat,
          pending : Seq(Deltas), attempts : Nat, timer : BOOLEAN]
Turns == [after : {"nothing", "replay", "retry", "close"}, generation : Nat, left : Seq(Deltas)]
AnyBucket == Buckets \cup {NoBucket}

TypeOK ==
    /\ st \in Feeds
    /\ book \in Books
    /\ seq \in Positions
    /\ bucket \in AnyBucket
    /\ lagged \in BOOLEAN
    /\ fetches \in SUBSET [generation : Nat, from : Positions]
    /\ turn \in Turns
    /\ shown \in [seq : Positions \cup {-1}, book : Books, bucket : AnyBucket]
    /\ link \in {"lost", "subscribed", "ended"}
    /\ wire \in Seq(Deltas)
    /\ log \in Positions
    /\ faults \in Nat

-----------------------------------------------------------------------------

\* The local book is the server's book at the sequence it claims: no delta is
\* skipped, repeated or applied to another book, whatever was lost or dropped.
BookIsTrue == book = BookAt(seq)

\* A feed that is ready waits for nothing, and one that is not waits for one
\* thing: the snapshot of its own generation or the timer of the next attempt.
OneRefresh ==
    LET awaited == {f \in fetches : IsAwaited(st, f.generation)}
    IN  /\ \A f, g \in awaited : f = g
        /\ st.timer => awaited = {}
        /\ st.ready => awaited = {} /\ ~st.timer

\* A subscribed feed that is not ready will be: a snapshot is on its way, or a
\* retry is due, unless all retries of this refresh have failed.
NeverStranded ==
    Idle /\ link = "subscribed" /\ ~st.disposed /\ ~st.ready =>
        \/ \E f \in fetches : IsAwaited(st, f.generation)
        \/ st.timer
        \/ st.attempts = MaxAttempts

\* Unsubscribing inside a callback stops the replay it interrupts: the book is
\* never touched again.
QuietAfterUnsubscribe == [][st.disposed => UNCHANGED <<book, seq>>]_vars

-----------------------------------------------------------------------------

Awaits == \E f \in fetches : IsAwaited(st, f.generation)

\* The snapshot and all its retries have failed; only a new connection asks again.
GaveUp == st.attempts = MaxAttempts /\ ~st.ready /\ ~st.timer /\ ~Awaits

\* Once faults stop, a consumer that stays subscribed holds the current book, or
\* was told by onError that the snapshot and each of its retries failed.  The book
\* of a stale snapshot stays until the next delta shows the gap.
IsCurrent == \/ st.disposed \/ link = "ended"
             \/ st.ready /\ (seq = log \/ lagged)
             \/ link = "subscribed" /\ GaveUp
EventuallyCurrent == <>[]IsCurrent

\* What is shown implements BookFeed: it moves back for a stale snapshot only.
Feed == INSTANCE BookFeed WITH view <- [at |-> shown.seq, book |-> shown.book],
                               MayLag <- "stale" \in Faults
ImplementsBookFeed == Feed!Spec
==============================================================================
