--------------------------- MODULE OrderBookProofs ---------------------------
(* Proofs about OrderBook, for all values of its constants.                *)
EXTENDS OrderBookProperties, SequenceTheorems, TLAPS

-----------------------------------------------------------------------------
(* The book's history.                                                     *)

LEMMA Places == Len(History) \in Nat /\ Positions \subseteq Nat /\ 0 \in Positions
BY HistoryAssumption, LenProperties DEF Positions

LEMMA QtyType == \A l \in Levels, n \in Positions : QtyAt(l, n) \in Nat
<1> SUFFICES ASSUME NEW l \in Levels, NEW n \in Positions PROVE QtyAt(l, n) \in Nat
  OBVIOUS
<1> DEFINE ks == ChangesOf(l, n)
           k  == Latest(ks)
<1>1. k = 0 \/ k \in ks
  BY DEF Latest
<1>2. \A j \in ks : j \in 1 .. Len(History)
  BY Places DEF ChangesOf, Positions
<1>3. ASSUME NEW j \in 1 .. Len(History) PROVE History[j].qty \in Nat
  <2>1. History[j] \in [level : Levels, qty : Nat]
    BY HistoryAssumption, ElementOfSeq
  <2> QED BY <2>1
<1> QED BY <1>1, <1>2, <1>3 DEF QtyAt

LEMMA BookType == /\ \A n \in Positions : BookAt(n) \in Books
                  /\ EmptyBook \in Books
                  /\ EmptyBook = BookAt(0)
<1>1. \A n \in Positions : BookAt(n) \in Books
  BY QtyType DEF BookAt, Books
<1>2. EmptyBook \in Books
  BY DEF EmptyBook, Books
<1>3. ASSUME NEW l \in Levels PROVE QtyAt(l, 0) = 0
  <2>1. ChangesOf(l, 0) = {}
    BY DEF ChangesOf
  <2> QED BY <2>1 DEF QtyAt, Latest
<1> QED BY <1>1, <1>2, <1>3 DEF EmptyBook, BookAt

LEMMA DeltaFields == \A d \in Deltas : /\ d.start \in Positions /\ d.start \in Nat
                                       /\ d.end \in Positions /\ d.end \in Nat /\ d.end > 0
                                       /\ d.reset \in BOOLEAN
                                       /\ d.reset \/ d.start > 0
<1> SUFFICES ASSUME NEW d \in Deltas
             PROVE  /\ d.start \in Positions /\ d.start \in Nat
                    /\ d.end \in Positions /\ d.end \in Nat /\ d.end > 0
                    /\ d.reset \in BOOLEAN
                    /\ d.reset \/ d.start > 0
  OBVIOUS
<1>1. d \in [start : Positions, end : Positions \ {0}, reset : BOOLEAN]
  BY DEF Deltas
<1>2. d.start \in Positions /\ d.end \in Positions /\ d.end # 0 /\ d.reset \in BOOLEAN
  BY <1>1
<1>3. d.reset \/ d.start > 0
  BY DEF Deltas
<1>4. d.start \in Nat /\ d.end \in Nat
  BY <1>2, Places
<1>5. d.end > 0
  BY <1>2, <1>4
<1> QED BY <1>2, <1>3, <1>4, <1>5

LEMMA AppliedType == \A b \in Books, d \in Deltas : Applied(b, d) \in Books
<1> SUFFICES ASSUME NEW b \in Books, NEW d \in Deltas PROVE Applied(b, d) \in Books
  OBVIOUS
<1>1. Cleared(b, d) \in Books
  BY BookType DEF Cleared
<1>2. \A l \in Levels : QtyAt(l, d.end) \in Nat
  BY QtyType, DeltaFields
<1> QED BY <1>1, <1>2 DEF Applied, Books

\* A delta that connects to a true book, or replaces it, leaves a true book.
LEMMA AppliedTrue ==
    ASSUME NEW s \in Positions, NEW d \in Deltas,
           d.end > s, d.reset \/ d.start <= s + 1
    PROVE  Applied(BookAt(s), d) = BookAt(d.end)
<1>1. s \in Nat /\ d.start \in Nat /\ d.end \in Nat
  BY Places, DeltaFields
<1> SUFFICES ASSUME NEW l \in Levels, l \notin Carries(d)
             PROVE  Cleared(BookAt(s), d)[l] = QtyAt(l, d.end)
  BY DEF Applied, BookAt
<1>2. CASE d.reset
  <2>1. QtyAt(l, d.end) \in Nat /\ ~(QtyAt(l, d.end) > 0)
    BY <1>2, QtyType, DeltaFields DEF Carries
  <2> QED BY <1>2, <2>1 DEF Cleared, EmptyBook
<1>3. CASE ~d.reset
  <2>1. \A k \in d.start .. d.end : History[k].level # l
    BY <1>3 DEF Carries
  <2>2. \A k \in (s + 1) .. d.end : History[k].level # l
    BY <2>1, <1>3, <1>1
  <2>3. ChangesOf(l, s) = ChangesOf(l, d.end)
    BY <2>2, <1>1 DEF ChangesOf
  <2>4. QtyAt(l, s) = QtyAt(l, d.end)
    BY <2>3 DEF QtyAt
  <2> QED BY <1>3, <2>4 DEF Cleared, BookAt
<1> QED BY <1>2, <1>3

-----------------------------------------------------------------------------
(* Types.                                                                  *)

LEMMA FeedTypes ==
    ASSUME NEW f \in Feeds
    PROVE  /\ NewFeed \in Feeds
           /\ \A p \in Deltas : Buffered(f, p) \in Feeds
           /\ \A r \in BOOLEAN : Refreshed(f, r) \in Feeds
           /\ Rescheduled(f) \in Feeds
           /\ \A g \in Nat : Settled(f, g) \in Feeds
           /\ Closed(f) \in Feeds
           /\ Unsubscribed(f) \in Feeds
           /\ [f EXCEPT !.pending = <<>>] \in Feeds
<1>0. <<>> \in Seq(Deltas)
  OBVIOUS
<1>1. NewFeed \in Feeds
  BY <1>0 DEF NewFeed, Feeds
<1>2. ASSUME NEW p \in Deltas PROVE Buffered(f, p) \in Feeds
  <2>1. f.pending \in Seq(Deltas) /\ Len(f.pending) \in Nat
    BY LenProperties DEF Feeds
  <2>2. Append(f.pending, p) \in Seq(Deltas)
    BY <2>1
  <2>3. ASSUME ~(Len(f.pending) < MaxBuffered) PROVE Append(Tail(f.pending), p) \in Seq(Deltas)
    <3>1. f.pending # <<>>
      BY <2>1, <2>3, StreamAssumption
    <3>2. Tail(f.pending) \in Seq(Deltas)
      BY <3>1, <2>1
    <3> QED BY <3>2
  <2> QED BY <2>2, <2>3 DEF Buffered, Feeds
<1>7. f.generation + 1 \in Nat /\ f.attempts + 1 \in Nat
  BY DEF Feeds
<1>3. \A r \in BOOLEAN : Refreshed(f, r) \in Feeds
  BY <1>7 DEF Refreshed, Feeds
<1>4. Rescheduled(f) \in Feeds
  BY <1>7 DEF Rescheduled, Feeds
<1>5. \A g \in Nat : Settled(f, g) \in Feeds
  BY DEF Settled, Feeds
<1>6. Closed(f) \in Feeds /\ Unsubscribed(f) \in Feeds /\ [f EXCEPT !.pending = <<>>] \in Feeds
  BY <1>0, <1>7 DEF Closed, Unsubscribed, Feeds
<1> QED BY <1>1, <1>2, <1>3, <1>4, <1>5, <1>6

Fetches == [generation : Nat, from : Positions]
ShownEvents == [seq : Positions \cup {-1}, book : Books, bucket : AnyBucket]

LEMMA TurnTypes ==
    /\ Rest \in Turns
    /\ \A what \in {"retry", "close"} : After(what) \in Turns
    /\ \A g \in Nat, left \in Seq(Deltas) : Replaying(g, left) \in Turns
<1>1. <<>> \in Seq(Deltas)
  OBVIOUS
<1> QED BY <1>1 DEF Rest, After, Replaying, Turns

LEMMA EventType == \A b \in Books, s \in Positions, k \in AnyBucket : Event(b, s, k) \in ShownEvents
BY DEF Event, ShownEvents

LEMMA RefetchType ==
    ASSUME TypeOK, NEW f \in Feeds, NEW r \in BOOLEAN, Refetch(f, r)
    PROVE  st' \in Feeds /\ fetches' \in SUBSET Fetches
<1>1. st' \in Feeds
  BY FeedTypes DEF Refetch
<1>2. st'.generation \in Nat /\ log \in Positions
  BY <1>1 DEF Feeds, TypeOK
<1>3. fetches \in SUBSET Fetches
  BY DEF TypeOK, Fetches
<1> QED BY <1>1, <1>2, <1>3 DEF Refetch, Fetches

LEMMA HandleDeltaType ==
    ASSUME TypeOK, NEW d \in Deltas, NEW rest \in Turns, HandleDelta(d, rest)
    PROVE  /\ st' \in Feeds /\ book' \in Books /\ seq' \in Positions
           /\ fetches' \in SUBSET Fetches /\ turn' \in Turns
           /\ bucket \in AnyBucket => shown' \in ShownEvents
<1> USE DEF TypeOK, Fetches, ShownEvents
<1>1. CASE d.end <= seq /\ turn' = rest /\ UNCHANGED <<st, book, seq, fetches, shown>>
  BY <1>1
<1>2. CASE Refetch(st, TRUE) /\ turn' = Rest /\ UNCHANGED <<book, seq, shown>>
  <2>1. st' \in Feeds /\ fetches' \in SUBSET Fetches
    BY <1>2, RefetchType
  <2> QED BY <1>2, <2>1, TurnTypes
<1>3. CASE Apply(d) /\ turn' = rest /\ UNCHANGED <<st, fetches>>
  <2>1. book' \in Books /\ seq' \in Positions
    BY <1>3, AppliedType, DeltaFields DEF Apply
  <2>2. bucket \in AnyBucket => shown' \in ShownEvents
    BY <1>3, <2>1, EventType DEF Apply
  <2> QED BY <1>3, <2>1, <2>2
<1> QED BY <1>1, <1>2, <1>3 DEF HandleDelta

LEMMA NextType == TypeOK /\ Next => TypeOK'
<1> SUFFICES ASSUME TypeOK, Next PROVE TypeOK'
  OBVIOUS
<1>1. /\ st \in Feeds /\ book \in Books /\ seq \in Positions /\ bucket \in AnyBucket
      /\ fetches \in SUBSET Fetches /\ turn \in Turns /\ shown \in ShownEvents
      /\ link \in {"lost", "subscribed", "ended"} /\ wire \in Seq(Deltas)
      /\ log \in Positions /\ faults \in Nat
  BY DEF TypeOK, Fetches, ShownEvents
<1>0. lagged' \in BOOLEAN
  BY DEF TypeOK, Next, Events, OnPublication, HandleDelta, Apply, StaleSnapshot, SnapshotArrives,
         SnapshotFails, ReplayNext, ReplayEnds, RetryAfterError, RetryTimer, Subscribed, Terminated,
         CloseAfterError, Unsubscribe, SetBucket, Disconnect, Publish, PublicationLost,
         ConnectionLost, local
<1> SUFFICES /\ st' \in Feeds /\ book' \in Books /\ seq' \in Positions /\ bucket' \in AnyBucket
             /\ fetches' \in SUBSET Fetches /\ turn' \in Turns /\ shown' \in ShownEvents
             /\ link' \in {"lost", "subscribed", "ended"} /\ wire' \in Seq(Deltas)
             /\ log' \in Positions /\ faults' \in Nat
  BY <1>0 DEF TypeOK, Fetches, ShownEvents
<1>2. <<>> \in Seq(Deltas) /\ Rest \in Turns
  BY TurnTypes
<1>3. wire # <<>> => Head(wire) \in Deltas /\ Tail(wire) \in Seq(Deltas)
  BY <1>1
<1>4. turn.left # <<>> => /\ Head(turn.left) \in Deltas
                          /\ [turn EXCEPT !.left = Tail(@)] \in Turns
  <2>1. turn.left \in Seq(Deltas)
    BY <1>1 DEF Turns
  <2>2. turn.left # <<>> => Head(turn.left) \in Deltas /\ Tail(turn.left) \in Seq(Deltas)
    BY <2>1
  <2> QED BY <2>2, <1>1 DEF Turns
<1>5. faults + 1 \in Nat
  BY <1>1
<1>6. CASE OnPublication
  <2>1. UNCHANGED <<bucket, link, log, faults>> /\ wire' = Tail(wire) /\ Head(wire) \in Deltas
    BY <1>6, <1>3 DEF OnPublication
  <2>2. CASE HandleDelta(Head(wire), Rest)
    BY <1>1, <1>2, <1>3, <2>1, <2>2, <1>6, HandleDeltaType DEF OnPublication
  <2>3. CASE st' = Buffered(st, Head(wire)) /\ UNCHANGED <<book, seq, fetches, turn, shown>>
    <3>1. st' \in Feeds
      BY <1>1, <2>1, <2>3, FeedTypes
    <3> QED BY <1>1, <1>3, <2>1, <2>3, <3>1, <1>6 DEF OnPublication
  <2> QED BY <1>6, <2>2, <2>3 DEF OnPublication
<1>7. CASE StaleSnapshot
  BY <1>1, <1>7 DEF StaleSnapshot, local, env
<1>8. CASE SnapshotArrives
  <2>1. PICK f \in fetches, n \in Positions : Install(f, n)
    <3>1. \A f \in fetches : f.from \in Nat /\ FirstPosition \in Nat /\ log \in Nat
      BY <1>1, Places, BookAssumption DEF Fetches
    <3>2. \A f \in fetches : \A n \in (f.from .. log) \cup (FirstPosition .. (f.from - 1)) :
             n \in Positions
      BY <1>1, <3>1, Places DEF Fetches, Positions
    <3> QED BY <1>8, <3>2 DEF SnapshotArrives
  <2>2. faults' \in Nat /\ UNCHANGED <<bucket, link, wire, log>>
    BY <1>8, <1>1, <1>5 DEF SnapshotArrives, Fault
  <2>3. f \in Fetches /\ f.generation \in Nat /\ st.pending \in Seq(Deltas)
    BY <1>1 DEF Fetches, Feeds
  <2>4. st' \in Feeds /\ book' \in Books /\ seq' \in Positions /\ fetches' \in SUBSET Fetches
    BY <1>1, <2>1, FeedTypes, BookType DEF Install
  <2>5. turn' \in Turns
    BY <2>1, <2>3, TurnTypes DEF Install
  <2>6. shown' \in ShownEvents
    BY <1>1, <2>1, <2>4, EventType DEF Install
  <2> QED BY <1>1, <2>2, <2>4, <2>5, <2>6
<1>9. CASE SnapshotFails
  <2>1. turn' \in Turns /\ faults' \in Nat
    BY <1>9, TurnTypes, <1>5 DEF SnapshotFails, Fault
  <2> QED BY <1>1, <2>1, <1>9 DEF SnapshotFails, local
<1>10. CASE ReplayNext
  <2>1. UNCHANGED <<bucket, env>> /\ turn.left # <<>>
    BY <1>10 DEF ReplayNext
  <2>2. CASE HandleDelta(Head(turn.left), [turn EXCEPT !.left = Tail(@)])
    BY <1>1, <1>4, <2>1, <2>2, HandleDeltaType DEF env
  <2>3. CASE turn' = Rest /\ UNCHANGED <<st, book, seq, fetches, shown>>
    BY <1>1, <1>2, <2>1, <2>3 DEF env
  <2> QED BY <1>10, <2>2, <2>3 DEF ReplayNext
<1>11. CASE ReplayEnds
  <2>1. turn.generation \in Nat
    BY <1>1 DEF Turns
  <2>2. st' \in Feeds
    BY <2>1, <1>1, <1>11, FeedTypes DEF ReplayEnds
  <2> QED BY <1>1, <1>2, <2>2, <1>11 DEF ReplayEnds, env
<1>12. CASE RetryAfterError
  <2>1. st' \in Feeds
    BY <1>1, <1>12, FeedTypes DEF RetryAfterError
  <2> QED BY <1>1, <1>2, <2>1, <1>12 DEF RetryAfterError, env
<1>13. CASE RetryTimer
  <2>1. st' \in Feeds /\ fetches' \in SUBSET Fetches
    BY <1>1, <1>13, RefetchType DEF RetryTimer
  <2> QED BY <1>1, <2>1, <1>13 DEF RetryTimer, env
<1>14. CASE Subscribed
  <2>1. [st EXCEPT !.pending = <<>>] \in Feeds
    BY <1>1, FeedTypes
  <2>2. st' \in Feeds /\ fetches' \in SUBSET Fetches
    BY <2>1, <1>14, RefetchType DEF Subscribed
  <2> QED BY <1>1, <2>2, <1>14 DEF Subscribed
<1>15. CASE Terminated
  <2>1. turn' \in Turns /\ faults' \in Nat
    BY <1>15, TurnTypes, <1>5 DEF Terminated, Fault
  <2> QED BY <1>1, <1>2, <2>1, <1>15 DEF Terminated, local
<1>16. CASE CloseAfterError
  <2>1. st' \in Feeds
    BY <1>1, <1>16, FeedTypes DEF CloseAfterError
  <2> QED BY <1>1, <1>2, <2>1, <1>16 DEF CloseAfterError, env
<1>17. CASE Unsubscribe
  <2>1. st' \in Feeds
    BY <1>1, <1>17, FeedTypes DEF Unsubscribe
  <2> QED BY <1>1, <1>2, <2>1, <1>17 DEF Unsubscribe
<1>18. CASE SetBucket
  <2>1. bucket' \in AnyBucket
    BY <1>18 DEF SetBucket, AnyBucket
  <2>2. shown' \in ShownEvents
    BY <1>1, <1>18, <2>1, EventType DEF SetBucket, AnyBucket
  <2> QED BY <1>1, <2>1, <2>2, <1>18 DEF SetBucket, env
<1>19. CASE Disconnect
  BY <1>1, <1>2, <1>19 DEF Disconnect, local
<1>20. CASE Publish
  <2>1. PICK n \in (log + 1) .. Len(History), reset \in BOOLEAN :
           /\ log' = n
           /\ wire' = IF link = "subscribed" /\ ~st.disposed
                      THEN Append(wire, [start |-> IF reset THEN 0 ELSE log + 1,
                                         end |-> n, reset |-> reset])
                      ELSE wire
    BY <1>20 DEF Publish
  <2>2. log \in Nat /\ Len(History) \in Nat
    BY <1>1, Places
  <2>3. n \in Positions /\ n # 0 /\ log + 1 \in Positions /\ log + 1 > 0 /\ 0 \in Positions
    BY <2>1, <2>2 DEF Positions
  <2>4. [start |-> IF reset THEN 0 ELSE log + 1, end |-> n, reset |-> reset] \in Deltas
    BY <2>3 DEF Deltas
  <2>5. wire' \in Seq(Deltas)
    BY <1>1, <2>1, <2>4
  <2> QED BY <1>1, <2>1, <2>3, <2>5, <1>20 DEF Publish, local
<1>21. CASE PublicationLost
  <2>1. wire # <<>>
    BY <1>21, <1>1 DEF PublicationLost
  <2>2. wire' \in Seq(Deltas) /\ faults' \in Nat
    BY <2>1, <1>3, <1>5, <1>21 DEF PublicationLost, Fault
  <2> QED BY <1>1, <2>2, <1>21 DEF PublicationLost, local
<1>22. CASE ConnectionLost
  <2>1. faults' \in Nat
    BY <1>22, <1>5 DEF ConnectionLost, Fault
  <2> QED BY <1>1, <1>2, <2>1, <1>22 DEF ConnectionLost, local
<1> QED BY <1>6, <1>7, <1>8, <1>9, <1>10, <1>11, <1>12, <1>13, <1>14, <1>15, <1>16, <1>17,
           <1>18, <1>19, <1>20, <1>21, <1>22 DEF Next, Events

LEMMA InitType == Init => TypeOK
<1> SUFFICES ASSUME Init PROVE TypeOK
  OBVIOUS
<1>1. st \in Feeds /\ turn \in Turns
  BY FeedTypes, TurnTypes DEF Init, NewFeed, Feeds
<1>2. book \in Books /\ seq \in Positions /\ log \in Positions
  BY BookType, Places, BookAssumption DEF Init
<1>3. shown \in [seq : Positions \cup {-1}, book : Books, bucket : AnyBucket]
  BY BookType DEF Init, Nothing, AnyBucket
<1>4. bucket \in AnyBucket /\ wire \in Seq(Deltas)
  BY DEF Init, AnyBucket
<1> QED BY <1>1, <1>2, <1>3, <1>4 DEF Init, TypeOK

\* Every variable of the order book keeps its type.
THEOREM BookTypesHold == Spec => []TypeOK
<1>1. TypeOK /\ UNCHANGED vars => TypeOK'
  BY DEF TypeOK, vars, local, env
<1> QED BY <1>1, InitType, NextType, PTL DEF Spec

-----------------------------------------------------------------------------
(* One refresh at a time.  A generation is fetched for once, so no fetch   *)
(* carries a later one, and nothing is under way while a snapshot is being *)
(* applied or its failure reported.                                        *)

Awaited == {f \in fetches : IsAwaited(st, f.generation)}

RefreshInv ==
    /\ OneRefresh
    /\ \A f \in fetches : f.generation <= st.generation
    /\ turn.after \in {"replay", "retry"} => Awaited = {} /\ ~st.timer
    /\ turn.after = "retry" => ~st.ready \/ st.disposed
    /\ st.disposed => ~st.timer

\* Nothing the invariant speaks of changes, except that fetches may be done.
LEMMA FewerFetches ==
    ASSUME RefreshInv, st' = st, fetches' \in SUBSET fetches,
           turn'.after \in {"replay", "retry"} => turn'.after = turn.after
    PROVE  RefreshInv'
BY DEF RefreshInv, OneRefresh, Awaited, IsAwaited

\* Only the flags of the feed change, in ways the invariant does not mind.
LEMMA NewGeneration ==
    ASSUME TypeOK, RefreshInv, fetches' = fetches,
           st' \in Feeds, st'.generation = st.generation + 1, ~st'.timer,
           ~st'.ready \/ st'.disposed,
           turn'.after \in {"replay", "retry"} => turn'.after = turn.after
    PROVE  RefreshInv'
<1>1. st.generation \in Nat /\ \A f \in fetches : f.generation \in Nat
  BY DEF TypeOK, Feeds
<1>2. \A f \in fetches' : f.generation # st'.generation /\ f.generation <= st'.generation
  BY <1>1 DEF RefreshInv
<1>3. Awaited' = {}
  BY <1>2 DEF Awaited, IsAwaited
<1>4. OneRefresh'
  BY <1>2, <1>3 DEF OneRefresh, IsAwaited
<1> QED BY <1>2, <1>3, <1>4 DEF RefreshInv

LEMMA RefetchKeeps ==
    ASSUME TypeOK, RefreshInv, NEW f \in Feeds, f.generation = st.generation, ~f.disposed,
           NEW r \in BOOLEAN, Refetch(f, r), turn'.after \notin {"replay", "retry"}
    PROVE  RefreshInv'
<1>1. st.generation \in Nat /\ \A g \in fetches : g.generation \in Nat
  BY DEF TypeOK, Feeds
<1>2. /\ st'.generation = st.generation + 1
      /\ ~st'.timer /\ ~st'.ready /\ ~st'.disposed
  BY DEF Refetch, Refreshed, Feeds
<1>3. fetches' = fetches \cup {[generation |-> st'.generation, from |-> log]}
  BY DEF Refetch
<1>4. \A g \in fetches : g.generation < st'.generation
  BY <1>1, <1>2 DEF RefreshInv
<1>5. \A g \in fetches' : /\ g.generation <= st'.generation
                          /\ g.generation = st'.generation =>
                               g = [generation |-> st'.generation, from |-> log]
  BY <1>1, <1>2, <1>3, <1>4
<1>6. OneRefresh'
  BY <1>2, <1>5 DEF OneRefresh, IsAwaited
<1> QED BY <1>2, <1>5, <1>6 DEF RefreshInv

LEMMA HandleDeltaKeeps ==
    ASSUME TypeOK, RefreshInv, NEW d \in Deltas, NEW rest \in Turns,
           rest.after \in {"nothing", turn.after}, ~st.disposed, HandleDelta(d, rest)
    PROVE  RefreshInv'
<1>1. CASE UNCHANGED <<st, fetches>> /\ turn' = rest
  <2>1. turn'.after \in {"replay", "retry"} => turn'.after = turn.after
    BY <1>1
  <2> QED BY <1>1, <2>1, FewerFetches
<1>2. CASE Refetch(st, TRUE) /\ turn' = Rest
  <2>1. turn'.after \notin {"replay", "retry"}
    BY <1>2 DEF Rest
  <2>2. st \in Feeds
    BY DEF TypeOK
  <2> QED BY <1>2, <2>1, <2>2, RefetchKeeps
<1> QED BY <1>1, <1>2 DEF HandleDelta

LEMMA NextRefresh == TypeOK /\ RefreshInv /\ Next => RefreshInv'
<1> SUFFICES ASSUME TypeOK, RefreshInv, Next PROVE RefreshInv'
  OBVIOUS
<1>1. /\ st \in Feeds /\ turn \in Turns /\ wire \in Seq(Deltas) /\ Rest \in Turns
      /\ TypeOK'
  BY TurnTypes, NextType DEF TypeOK
<1>2. st' \in Feeds /\ Rest.after = "nothing"
  BY <1>1 DEF TypeOK, Rest
<1>3. turn.left # <<>> => /\ Head(turn.left) \in Deltas
                          /\ [turn EXCEPT !.left = Tail(@)] \in Turns
                          /\ [turn EXCEPT !.left = Tail(@)].after = turn.after
  <2>1. turn.left \in Seq(Deltas)
    BY <1>1 DEF Turns
  <2>2. turn.left # <<>> => Head(turn.left) \in Deltas /\ Tail(turn.left) \in Seq(Deltas)
    BY <2>1
  <2> QED BY <2>2, <1>1 DEF Turns
<1>4. \A f \in fetches : IsAwaited(st, f.generation) =>
         /\ ~st.disposed /\ ~st.ready /\ ~st.timer
         /\ \A g \in fetches \ {f} : ~IsAwaited(st, g.generation)
  BY DEF RefreshInv, OneRefresh, IsAwaited
<1>5. CASE OnPublication
  <2>1. Head(wire) \in Deltas /\ turn.after = "nothing" /\ ~st.disposed
    BY <1>1, <1>5 DEF OnPublication, Idle
  <2>2. CASE HandleDelta(Head(wire), Rest)
    BY <1>1, <1>2, <2>1, <2>2, HandleDeltaKeeps
  <2>3. CASE st' = Buffered(st, Head(wire)) /\ UNCHANGED <<book, seq, fetches, turn, shown>>
    <3>1. /\ st'.ready = st.ready /\ st'.disposed = st.disposed /\ st'.timer = st.timer
          /\ st'.generation = st.generation
      BY <2>3, <1>1 DEF Buffered, Feeds
    <3> QED BY <2>3, <3>1 DEF RefreshInv, OneRefresh, Awaited, IsAwaited
  <2> QED BY <1>5, <2>2, <2>3 DEF OnPublication
<1>6. CASE StaleSnapshot
  BY <1>6, FewerFetches DEF StaleSnapshot, local, env
<1>7. CASE SnapshotArrives
  <2>1. PICK f \in fetches, n \in Int : IsAwaited(st, f.generation) /\ Install(f, n)
    <3>1. log \in Positions /\ \A f \in fetches : f.from \in Positions
      BY DEF TypeOK
    <3>2. FirstPosition \in Nat /\ log \in Nat /\ \A f \in fetches : f.from \in Nat
      BY <3>1, Places, BookAssumption
    <3> QED BY <1>7, <3>2 DEF SnapshotArrives
  <2>2. /\ ~st'.disposed /\ ~st'.ready /\ ~st'.timer /\ st'.generation = st.generation
        /\ fetches' = fetches \ {f} /\ turn'.after = "replay"
    BY <1>1, <1>4, <2>1 DEF Install, Replaying, Feeds
  <2>3. \A g \in fetches' : ~IsAwaited(st, g.generation)
    BY <1>4, <2>1, <2>2
  <2>4. \A g \in fetches' : g.generation # st'.generation /\ g.generation <= st'.generation
    BY <2>1, <2>2, <2>3 DEF IsAwaited, RefreshInv
  <2> QED BY <2>2, <2>4 DEF RefreshInv, OneRefresh, Awaited, IsAwaited
<1>8. CASE SnapshotFails
  <2>1. PICK f \in fetches : IsAwaited(st, f.generation) /\ fetches' = fetches \ {f}
    BY <1>8 DEF SnapshotFails
  <2>2. st' = st /\ turn'.after = "retry"
    BY <1>8 DEF SnapshotFails, local, After, Rest
  <2>3. \A g \in fetches' : ~IsAwaited(st, g.generation)
    BY <1>4, <2>1
  <2> QED BY <1>4, <2>1, <2>2, <2>3 DEF RefreshInv, OneRefresh, Awaited, IsAwaited
<1>9. CASE ReplayNext
  <2>1. turn.left # <<>>
    BY <1>9 DEF ReplayNext
  <2>2. CASE MayReplay /\ HandleDelta(Head(turn.left), [turn EXCEPT !.left = Tail(@)])
    BY <1>3, <2>1, <2>2, HandleDeltaKeeps DEF MayReplay
  <2>3. CASE turn' = Rest /\ UNCHANGED <<st, book, seq, fetches, shown>>
    BY <1>2, <2>3, FewerFetches
  <2> QED BY <1>9, <2>2, <2>3 DEF ReplayNext
<1>10. CASE ReplayEnds
  <2>1. Awaited = {} /\ ~st.timer /\ fetches' = fetches /\ turn'.after = "nothing"
    BY <1>2, <1>10 DEF ReplayEnds, RefreshInv
  <2>2. st'.generation = st.generation /\ st'.disposed = st.disposed /\ st'.timer = st.timer
    BY <1>1, <1>10 DEF ReplayEnds, Settled, Feeds
  <2>3. Awaited' = {}
    BY <2>1, <2>2 DEF Awaited, IsAwaited
  <2> QED BY <2>1, <2>2, <2>3 DEF RefreshInv, OneRefresh, Awaited, IsAwaited
<1>11. CASE RetryAfterError
  <2>1. /\ Awaited = {} /\ ~st.timer /\ (~st.ready \/ st.disposed)
        /\ fetches' = fetches /\ turn'.after = "nothing"
    BY <1>2, <1>11 DEF RetryAfterError, RefreshInv
  <2>2. /\ st'.generation = st.generation /\ st'.disposed = st.disposed
        /\ st'.ready = st.ready /\ (st'.timer => ~st.disposed)
    BY <2>1, <1>1, <1>11 DEF RetryAfterError, Rescheduled, Feeds
  <2>3. Awaited' = {}
    BY <2>1, <2>2 DEF Awaited, IsAwaited
  <2> QED BY <2>1, <2>2, <2>3 DEF RefreshInv, OneRefresh, Awaited, IsAwaited
<1>12. CASE RetryTimer
  <2>1. ~st.disposed /\ turn' = turn /\ turn.after = "nothing"
    BY <1>12 DEF RetryTimer, RefreshInv, Idle
  <2> QED BY <1>1, <1>12, <2>1, RefetchKeeps DEF RetryTimer
<1>13. CASE Subscribed
  <2>1. ~st.disposed /\ turn' = turn /\ turn.after = "nothing"
    BY <1>13 DEF Subscribed, Idle
  <2>2. /\ [st EXCEPT !.pending = <<>>] \in Feeds
        /\ [st EXCEPT !.pending = <<>>].generation = st.generation
        /\ ~[st EXCEPT !.pending = <<>>].disposed
    BY <1>1, <2>1, FeedTypes DEF Feeds
  <2>3. Refetch([st EXCEPT !.pending = <<>>], TRUE)
    BY <1>13 DEF Subscribed
  <2> QED BY <2>1, <2>2, <2>3, RefetchKeeps
<1>14. CASE Terminated
  <2>1. st' = st /\ fetches' = fetches /\ turn'.after = "close"
    BY <1>14 DEF Terminated, local, After, Rest
  <2> QED BY <2>1, FewerFetches
<1>15. CASE CloseAfterError
  <2>1. fetches' = fetches /\ turn'.after = "nothing"
    BY <1>2, <1>15 DEF CloseAfterError
  <2>2. CASE st.disposed
    <3>1. st' = st
      BY <1>15, <2>2 DEF CloseAfterError, Closed
    <3> QED BY <2>1, <3>1, FewerFetches
  <2>3. CASE ~st.disposed
    <3>1. st'.generation = st.generation + 1 /\ ~st'.timer /\ ~st'.ready
      BY <1>1, <1>15, <2>3 DEF CloseAfterError, Closed, Feeds
    <3> QED BY <1>2, <2>1, <3>1, NewGeneration
  <2> QED BY <2>2, <2>3
<1>16. CASE Unsubscribe
  <2>1. fetches' = fetches /\ turn' = turn
    BY <1>16 DEF Unsubscribe
  <2>2. st'.generation = st.generation + 1 /\ ~st'.timer /\ st'.disposed
    BY <1>1, <1>16 DEF Unsubscribe, Unsubscribed, Feeds
  <2> QED BY <1>2, <2>1, <2>2, NewGeneration
<1>17. CASE UNCHANGED <<st, fetches, turn>>
  BY <1>17, FewerFetches
<1>18. SetBucket \/ Disconnect \/ Publish \/ PublicationLost \/ ConnectionLost
          => UNCHANGED <<st, fetches, turn>>
  BY DEF SetBucket, Disconnect, Publish, PublicationLost, ConnectionLost, local
<1> QED BY <1>5, <1>6, <1>7, <1>8, <1>9, <1>10, <1>11, <1>12, <1>13, <1>14, <1>15, <1>16, <1>17,
           <1>18 DEF Next, Events

LEMMA InitRefresh == Init => RefreshInv
BY DEF Init, NewFeed, Rest, RefreshInv, OneRefresh, Awaited, IsAwaited

\* The feed never waits for two things at once, and for nothing once ready.
THEOREM OneRefreshHolds == Spec => []OneRefresh
<1>1. Init => TypeOK /\ RefreshInv
  BY InitType, InitRefresh
<1>2. TypeOK /\ RefreshInv /\ [Next]_vars => (TypeOK /\ RefreshInv)'
  <2>1. TypeOK /\ RefreshInv /\ UNCHANGED vars => (TypeOK /\ RefreshInv)'
    BY DEF TypeOK, RefreshInv, OneRefresh, Awaited, IsAwaited, vars, local, env
  <2> QED BY <2>1, NextType, NextRefresh
<1>3. RefreshInv => OneRefresh
  BY DEF RefreshInv
<1> QED BY <1>1, <1>2, <1>3, PTL DEF Spec

-----------------------------------------------------------------------------
(* No refresh is forgotten, and none outlives the consumer.  While a       *)
(* subscribed feed is not ready, something is due: the snapshot, the timer,*)
(* or the rest of the event that is applying the one or setting the other. *)

Rescued ==
    \/ Awaited # {}
    \/ st.timer
    \/ st.attempts = MaxAttempts
    \/ turn.after = "retry"
    \/ turn.after = "replay" /\ turn.generation = st.generation

StrandInv ==
    /\ st.attempts <= MaxAttempts
    /\ turn.after = "close" => link = "ended"
    /\ link = "subscribed" /\ ~st.disposed /\ ~st.ready => Rescued

\* What the invariant says of a step that leaves the flags of the feed alone.
LEMMA SameFlags ==
    ASSUME StrandInv, Awaited' = Awaited, turn' = turn,
           st'.attempts = st.attempts, st'.timer = st.timer, st'.ready = st.ready,
           st'.disposed = st.disposed, st'.generation = st.generation,
           link' \in {link, "lost", "ended"},
           link' = "lost" => link = "subscribed" \/ link = "lost"
    PROVE  StrandInv'
BY DEF StrandInv, Rescued

LEMMA RefetchRescues ==
    ASSUME TypeOK, NEW f \in Feeds, NEW r \in BOOLEAN, f.attempts <= MaxAttempts, Refetch(f, r),
           turn'.after = "nothing"
    PROVE  StrandInv'
<1>1. st' = Refreshed(f, r) /\ f.attempts \in Nat /\ f.generation \in Nat
  BY DEF Refetch, Feeds
<1>2. /\ st'.attempts <= MaxAttempts /\ st'.disposed = f.disposed
  BY <1>1, StreamAssumption DEF Refreshed, Feeds
<1>3. ~st'.disposed => Awaited' # {}
  <2>1. [generation |-> st'.generation, from |-> log] \in fetches'
    BY DEF Refetch
  <2> QED BY <2>1 DEF Awaited, IsAwaited
<1> QED BY <1>2, <1>3 DEF StrandInv, Rescued

LEMMA HandleDeltaRescued ==
    ASSUME TypeOK, StrandInv, NEW d \in Deltas, NEW rest, HandleDelta(d, rest), link' = link,
           rest.after = turn.after, rest.generation = turn.generation
    PROVE  StrandInv'
<1>1. CASE UNCHANGED <<st, fetches>> /\ turn' = rest
  <2>1. Awaited' = Awaited
    BY <1>1 DEF Awaited, IsAwaited
  <2> QED BY <1>1, <2>1 DEF StrandInv, Rescued
<1>2. CASE Refetch(st, TRUE) /\ turn' = Rest
  <2>1. st \in Feeds /\ turn'.after = "nothing" /\ st.attempts <= MaxAttempts
    BY <1>2 DEF TypeOK, Rest, StrandInv
  <2> QED BY <1>2, <2>1, RefetchRescues
<1> QED BY <1>1, <1>2 DEF HandleDelta

LEMMA NextStrand == TypeOK /\ RefreshInv /\ StrandInv /\ Next => StrandInv'
<1> SUFFICES ASSUME TypeOK, RefreshInv, StrandInv, Next PROVE StrandInv'
  OBVIOUS
<1>1. /\ st \in Feeds /\ turn \in Turns /\ wire \in Seq(Deltas)
      /\ link \in {"lost", "subscribed", "ended"}
      /\ st.attempts \in Nat /\ MaxAttempts \in Nat
  BY StreamAssumption DEF TypeOK, Feeds
<1>2. Rest.after = "nothing"
  BY DEF Rest
<1>3. CASE OnPublication
  <2>1. /\ Head(wire) \in Deltas /\ turn.after = "nothing" /\ link' = link
    BY <1>1, <1>3 DEF OnPublication, Idle
  <2>2. CASE HandleDelta(Head(wire), Rest)
    <3>1. CASE UNCHANGED <<st, fetches>> /\ turn' = Rest
      <4>1. Awaited' = Awaited
        BY <3>1 DEF Awaited, IsAwaited
      <4> QED BY <1>2, <2>1, <3>1, <4>1 DEF StrandInv, Rescued
    <3>2. CASE Refetch(st, TRUE) /\ turn' = Rest
      <4>1. turn'.after = "nothing" /\ st.attempts <= MaxAttempts
        BY <1>2, <3>2 DEF StrandInv
      <4> QED BY <1>1, <3>2, <4>1, RefetchRescues
    <3> QED BY <2>2, <3>1, <3>2 DEF HandleDelta
  <2>3. CASE st' = Buffered(st, Head(wire)) /\ UNCHANGED <<book, seq, fetches, turn, shown>>
    <3>1. /\ st'.attempts = st.attempts /\ st'.timer = st.timer /\ st'.ready = st.ready
          /\ st'.disposed = st.disposed /\ st'.generation = st.generation
      BY <2>3, <1>1 DEF Buffered, Feeds
    <3>2. Awaited' = Awaited
      BY <2>3, <3>1 DEF Awaited, IsAwaited
    <3> QED BY <2>1, <2>3, <3>1, <3>2, SameFlags
  <2> QED BY <1>3, <2>2, <2>3 DEF OnPublication
<1>4. CASE StaleSnapshot
  <2>1. UNCHANGED <<st, turn, link>>
    BY <1>4 DEF StaleSnapshot, local, env
  <2>2. Awaited' = Awaited
    BY <1>4, <2>1 DEF StaleSnapshot, Awaited, IsAwaited
  <2> QED BY <2>1, <2>2, SameFlags
<1>5. CASE SnapshotArrives
  <2>1. PICK f \in fetches : IsAwaited(st, f.generation) /\ \E n : Install(f, n)
    BY <1>5 DEF SnapshotArrives
  <2>2. turn'.after = "replay" /\ turn'.generation = st.generation
    BY <2>1 DEF Install, Replaying, IsAwaited
  <2>3. st'.attempts = st.attempts /\ st'.generation = st.generation
    BY <1>1, <2>1 DEF Install, Feeds
  <2> QED BY <2>2, <2>3 DEF StrandInv, Rescued
<1>6. CASE SnapshotFails
  <2>1. st' = st /\ turn'.after = "retry"
    BY <1>6 DEF SnapshotFails, local, After
  <2> QED BY <2>1 DEF StrandInv, Rescued
<1>7. CASE ReplayNext
  <2>1. turn.left # <<>> /\ link' = link /\ turn.after = "replay"
    BY <1>7 DEF ReplayNext, env
  <2>2. CASE HandleDelta(Head(turn.left), [turn EXCEPT !.left = Tail(@)])
    <3>1. turn.left \in Seq(Deltas)
      BY <1>1 DEF Turns
    <3>2. Head(turn.left) \in Deltas
      BY <2>1, <3>1
    <3>3. /\ [turn EXCEPT !.left = Tail(@)].after = turn.after
          /\ [turn EXCEPT !.left = Tail(@)].generation = turn.generation
      BY <1>1 DEF Turns
    <3> QED BY <2>1, <2>2, <3>2, <3>3, HandleDeltaRescued
  <2>3. CASE st.disposed /\ st' = st /\ turn' = Rest
    BY <1>2, <2>1, <2>3 DEF StrandInv
  <2> QED BY <1>7, <2>2, <2>3 DEF ReplayNext, MayReplay
<1>8. CASE ReplayEnds
  <2>1. /\ turn' = Rest /\ st' = Settled(st, turn.generation) /\ UNCHANGED <<link, fetches>>
        /\ turn.after = "replay"
    BY <1>8 DEF ReplayEnds, env
  <2>2. CASE IsAwaited(st, turn.generation)
    <3>1. st'.ready /\ st'.attempts = 0
      BY <1>1, <2>1, <2>2 DEF Settled, Feeds
    <3> QED BY <1>1, <1>2, <2>1, <3>1 DEF StrandInv
  <2>3. CASE ~IsAwaited(st, turn.generation)
    <3>1. st' = st
      BY <2>1, <2>3 DEF Settled
    <3>2. Awaited' = Awaited
      BY <2>1, <3>1 DEF Awaited, IsAwaited
    <3> QED BY <1>2, <2>1, <2>3, <3>1, <3>2 DEF StrandInv, Rescued, IsAwaited
  <2> QED BY <2>2, <2>3
<1>9. CASE RetryAfterError
  <2>1. turn' = Rest /\ st' = Rescheduled(st) /\ UNCHANGED link
    BY <1>9 DEF RetryAfterError, env
  <2>2. CASE st.disposed
    <3>1. st' = st
      BY <2>1, <2>2 DEF Rescheduled
    <3> QED BY <1>2, <2>1, <2>2, <3>1 DEF StrandInv
  <2>3. CASE ~st.disposed /\ st.attempts >= MaxAttempts
    <3>1. st' = st /\ st.attempts = MaxAttempts
      BY <1>1, <2>1, <2>3 DEF Rescheduled, StrandInv
    <3> QED BY <1>2, <2>1, <3>1 DEF StrandInv, Rescued
  <2>4. CASE ~st.disposed /\ ~(st.attempts >= MaxAttempts)
    <3>1. st'.timer /\ st'.attempts = st.attempts + 1
      BY <1>1, <2>1, <2>4 DEF Rescheduled, Feeds
    <3> QED BY <1>1, <1>2, <2>1, <2>4, <3>1 DEF StrandInv, Rescued
  <2> QED BY <2>2, <2>3, <2>4
<1>10. CASE RetryTimer
  <2>1. Refetch(st, FALSE) /\ turn'.after = "nothing" /\ st.attempts <= MaxAttempts
    BY <1>10 DEF RetryTimer, Idle, StrandInv
  <2> QED BY <1>1, <2>1, RefetchRescues
<1>11. CASE Subscribed
  <2>1. Refetch([st EXCEPT !.pending = <<>>], TRUE) /\ turn'.after = "nothing"
    BY <1>11 DEF Subscribed, Idle
  <2>2. [st EXCEPT !.pending = <<>>] \in Feeds /\ [st EXCEPT !.pending = <<>>].attempts = st.attempts
    BY <1>1, FeedTypes DEF Feeds
  <2>3. [st EXCEPT !.pending = <<>>].attempts <= MaxAttempts
    BY <2>2 DEF StrandInv
  <2> QED BY <2>1, <2>2, <2>3, RefetchRescues
<1>12. CASE Terminated
  <2>1. link' = "ended" /\ st' = st
    BY <1>12 DEF Terminated, local
  <2> QED BY <2>1 DEF StrandInv
<1>13. CASE CloseAfterError
  <2>1. turn' = Rest /\ st' = Closed(st) /\ link' = "ended"
    BY <1>13 DEF CloseAfterError, env, StrandInv
  <2>2. st'.attempts = st.attempts
    BY <1>1, <2>1 DEF Closed, Feeds
  <2> QED BY <2>1, <2>2 DEF StrandInv
<1>14. CASE Unsubscribe
  <2>1. st'.disposed /\ st'.attempts = st.attempts /\ UNCHANGED <<turn, link>>
    BY <1>1, <1>14 DEF Unsubscribe, Unsubscribed, Feeds
  <2> QED BY <2>1 DEF StrandInv
<1>15. CASE SetBucket \/ Disconnect \/ Publish \/ PublicationLost \/ ConnectionLost
  <2>1. UNCHANGED <<st, fetches, turn>>
    BY <1>15 DEF SetBucket, Disconnect, Publish, PublicationLost, ConnectionLost, local
  <2>2. /\ link' \in {link, "lost", "ended"}
        /\ link' = "lost" => link = "subscribed" \/ link = "lost"
    BY <1>15 DEF SetBucket, Disconnect, Publish, PublicationLost, ConnectionLost, env
  <2>3. Awaited' = Awaited
    BY <2>1 DEF Awaited, IsAwaited
  <2> QED BY <2>1, <2>2, <2>3, SameFlags
<1> QED BY <1>3, <1>4, <1>5, <1>6, <1>7, <1>8, <1>9, <1>10, <1>11, <1>12, <1>13, <1>14, <1>15
        DEF Next, Events

\* No subscribed feed waits for nothing: a snapshot that fails, is overtaken or
\* interrupted leaves another on its way, until the retries are used up.
THEOREM NeverStrandedHolds == Spec => []NeverStranded
<1>1. Init => StrandInv
  BY StreamAssumption DEF Init, NewFeed, Rest, StrandInv
<1>2. TypeOK /\ RefreshInv /\ StrandInv /\ UNCHANGED vars =>
         TypeOK' /\ RefreshInv' /\ StrandInv'
  BY DEF TypeOK, RefreshInv, OneRefresh, StrandInv, Rescued, Awaited, IsAwaited,
         vars, local, env
<1>3. StrandInv => NeverStranded
  BY DEF StrandInv, Rescued, NeverStranded, Awaited, Idle
<1> QED BY <1>1, <1>2, <1>3, InitType, InitRefresh, NextType, NextRefresh, NextStrand, PTL DEF Spec

\* After unsubscribe the book is never touched: no event that was under way, no
\* buffered delta and no late snapshot is applied.
THEOREM QuietAfterUnsubscribeHolds == Spec => QuietAfterUnsubscribe
<1>1. ASSUME [Next]_vars, st.disposed PROVE UNCHANGED <<book, seq>>
  <2>1. CASE UNCHANGED vars
    BY <2>1 DEF vars, local
  <2>2. ~OnPublication /\ ~SnapshotArrives /\ ~Subscribed
    BY <1>1 DEF OnPublication, SnapshotArrives, Subscribed, IsAwaited
  <2>3. CASE ReplayNext
    BY <1>1, <2>3 DEF ReplayNext, MayReplay
  <2>4. CASE StaleSnapshot \/ RetryTimer \/ ReplayEnds \/ RetryAfterError \/ CloseAfterError
    BY <2>4 DEF StaleSnapshot, RetryTimer, ReplayEnds, RetryAfterError, CloseAfterError, local
  <2>5. CASE \/ SnapshotFails \/ Terminated \/ Unsubscribe \/ SetBucket \/ Disconnect
             \/ Publish \/ PublicationLost \/ ConnectionLost
    BY <2>5 DEF SnapshotFails, Terminated, Unsubscribe, SetBucket, Disconnect, Publish,
                PublicationLost, ConnectionLost, local
  <2> QED BY <1>1, <2>1, <2>2, <2>3, <2>4, <2>5 DEF Next, Events
<1> QED BY <1>1, PTL DEF Spec, QuietAfterUnsubscribe

-----------------------------------------------------------------------------
(* The book is true.  With sequence 0 the gap check is off, so this needs  *)
(* a book that has moved before the client reads it.                       *)

TrueInv ==
    /\ BookIsTrue
    /\ st.ready \/ turn.after = "replay" => seq >= FirstPosition
    /\ log >= FirstPosition
    /\ \A f \in fetches : f.from >= FirstPosition

LEMMA RefetchFrom ==
    ASSUME NEW f, NEW r, Refetch(f, r), NEW g \in fetches'
    PROVE  g \in fetches \/ g.from = log
<1>1. g \in fetches \/ g = [generation |-> st'.generation, from |-> log]
  BY DEF Refetch
<1> QED BY <1>1

LEMMA HandleDeltaTrue ==
    ASSUME TypeOK, TrueInv, FirstPosition > 0, seq >= FirstPosition, log' = log,
           NEW d \in Deltas, NEW rest, HandleDelta(d, rest)
    PROVE  TrueInv'
<1>1. /\ seq \in Positions /\ seq \in Nat /\ d.start \in Nat /\ d.end \in Nat
      /\ FirstPosition \in Nat /\ log \in Nat
  BY Places, DeltaFields, BookAssumption DEF TypeOK
<1>2. CASE UNCHANGED <<book, seq, fetches>>
  BY <1>2 DEF TrueInv, BookIsTrue
<1>3. CASE Refetch(st, TRUE) /\ UNCHANGED <<book, seq>>
  <2>1. \A f \in fetches' : f.from >= FirstPosition
    BY <1>3, RefetchFrom DEF TrueInv
  <2> QED BY <1>3, <2>1 DEF TrueInv, BookIsTrue
<1>4. CASE d.end > seq /\ (d.reset \/ ~IsGap(seq, d)) /\ Apply(d) /\ UNCHANGED fetches
  <2>1. d.reset \/ d.start <= seq + 1
    BY <1>1, <1>4 DEF IsGap
  <2>2. Applied(BookAt(seq), d) = BookAt(d.end)
    BY <1>1, <1>4, <2>1, AppliedTrue
  <2>3. book' = BookAt(seq') /\ seq' >= FirstPosition
    BY <1>1, <1>4, <2>2 DEF Apply, TrueInv, BookIsTrue
  <2> QED BY <1>4, <2>3 DEF TrueInv, BookIsTrue
<1> QED BY <1>2, <1>3, <1>4 DEF HandleDelta

LEMMA NextTrue ==
    ASSUME FirstPosition > 0
    PROVE  TypeOK /\ TrueInv /\ Next => TrueInv'
<1> SUFFICES ASSUME TypeOK, TrueInv, Next PROVE TrueInv'
  OBVIOUS
<1>1. /\ st \in Feeds /\ turn \in Turns /\ wire \in Seq(Deltas) /\ seq \in Nat /\ log \in Nat
      /\ FirstPosition \in Nat /\ \A f \in fetches : f.from \in Nat
  BY Places, BookAssumption DEF TypeOK
<1>2. CASE OnPublication
  <2>1. Head(wire) \in Deltas /\ log' = log /\ turn.after = "nothing"
    BY <1>1, <1>2 DEF OnPublication, Idle
  <2>2. CASE st.ready /\ HandleDelta(Head(wire), Rest)
    <3>1. seq >= FirstPosition
      BY <2>2 DEF TrueInv
    <3> QED BY <2>1, <2>2, <3>1, HandleDeltaTrue
  <2>3. CASE st' = Buffered(st, Head(wire)) /\ UNCHANGED <<book, seq, fetches, turn, shown>>
    <3>1. st'.ready = st.ready
      BY <1>1, <2>3 DEF Buffered, Feeds
    <3> QED BY <2>1, <2>3, <3>1 DEF TrueInv, BookIsTrue
  <2> QED BY <1>2, <2>2, <2>3 DEF OnPublication
<1>3. CASE StaleSnapshot
  BY <1>3 DEF StaleSnapshot, local, env, TrueInv, BookIsTrue
<1>4. CASE SnapshotArrives
  <2>1. PICK f \in fetches, n \in Nat : n >= FirstPosition /\ Install(f, n)
    BY <1>1, <1>4 DEF SnapshotArrives, TrueInv
  <2>2. log' = log
    BY <1>4 DEF SnapshotArrives
  <2> QED BY <2>1, <2>2 DEF Install, TrueInv, BookIsTrue
<1>5. CASE SnapshotFails
  BY <1>5 DEF SnapshotFails, After, Rest, local, TrueInv, BookIsTrue
<1>6. CASE ReplayNext
  <2>1. Head(turn.left) \in Deltas /\ log' = log /\ seq >= FirstPosition
    BY <1>1, <1>6 DEF ReplayNext, Turns, env, TrueInv
  <2>2. CASE HandleDelta(Head(turn.left), [turn EXCEPT !.left = Tail(@)])
    BY <2>1, <2>2, HandleDeltaTrue
  <2>3. CASE turn' = Rest /\ UNCHANGED <<st, book, seq, fetches, shown>>
    BY <2>1, <2>3 DEF TrueInv, BookIsTrue
  <2> QED BY <1>6, <2>2, <2>3 DEF ReplayNext
<1>7. CASE ReplayEnds
  BY <1>7 DEF ReplayEnds, env, TrueInv, BookIsTrue
<1>8. CASE RetryTimer \/ Subscribed
  <2>1. UNCHANGED <<book, seq, turn, log>> /\ ~st'.ready
    BY <1>1, <1>8 DEF RetryTimer, Subscribed, Refetch, Refreshed, Feeds, env
  <2>2. \A f \in fetches' : f.from >= FirstPosition
    BY <1>8, RefetchFrom DEF RetryTimer, Subscribed, TrueInv
  <2> QED BY <2>1, <2>2 DEF TrueInv, BookIsTrue
<1>9. CASE RetryAfterError \/ CloseAfterError \/ Unsubscribe
  <2>1. UNCHANGED <<book, seq, fetches, log>>
    BY <1>9 DEF RetryAfterError, CloseAfterError, Unsubscribe, env
  <2>2. turn' \in {turn, Rest}
    BY <1>9 DEF RetryAfterError, CloseAfterError, Unsubscribe
  <2>3. st' \in {Rescheduled(st), Closed(st), Unsubscribed(st)}
    BY <1>9 DEF RetryAfterError, CloseAfterError, Unsubscribe
  <2>4. st'.ready => st.ready
    BY <1>1, <2>3 DEF Rescheduled, Closed, Unsubscribed, Feeds
  <2>5. turn'.after = "replay" => turn.after = "replay"
    BY <2>2 DEF Rest
  <2> QED BY <2>1, <2>4, <2>5 DEF TrueInv, BookIsTrue
<1>10. CASE Terminated \/ SetBucket \/ Disconnect \/ PublicationLost \/ ConnectionLost
  <2>1. /\ UNCHANGED <<book, seq, st, fetches, log>>
        /\ turn'.after = "replay" => turn.after = "replay"
    BY <1>10 DEF Terminated, SetBucket, Disconnect, PublicationLost, ConnectionLost, local,
                 After, Rest, env
  <2> QED BY <2>1 DEF TrueInv, BookIsTrue
<1>11. CASE Publish
  <2>1. log' >= log /\ UNCHANGED <<book, seq, st, fetches, turn>>
    BY <1>1, <1>11 DEF Publish, local
  <2>2. log' \in Nat
    BY <1>11, <1>1, Places DEF Publish
  <2> QED BY <1>1, <2>1, <2>2 DEF TrueInv, BookIsTrue
<1> QED BY <1>2, <1>3, <1>4, <1>5, <1>6, <1>7, <1>8, <1>9, <1>10, <1>11 DEF Next, Events

LEMMA InitTrue == Init => TrueInv
<1>1. Init => book = BookAt(0)
  BY BookType DEF Init
<1>2. FirstPosition \in Nat
  BY BookAssumption, Places
<1> QED BY <1>1, <1>2 DEF Init, NewFeed, Rest, TrueInv, BookIsTrue

\* Whatever is lost, dropped, reset or refetched, the local book is the
\* server's at its sequence, if the book had moved when the client first read it.
THEOREM BookIsTrueHolds ==
    ASSUME FirstPosition > 0
    PROVE  Spec => []BookIsTrue
<1>1. Init => TypeOK /\ TrueInv
  BY InitType, InitTrue
<1>2. TypeOK /\ TrueInv /\ [Next]_vars => (TypeOK /\ TrueInv)'
  <2>1. TypeOK /\ TrueInv /\ UNCHANGED vars => (TypeOK /\ TrueInv)'
    BY DEF TypeOK, TrueInv, BookIsTrue, vars, local, env
  <2> QED BY <2>1, NextType, NextTrue
<1>3. TrueInv => BookIsTrue
  BY DEF TrueInv
<1> QED BY <1>1, <1>2, <1>3, PTL DEF Spec

-----------------------------------------------------------------------------
(* What is shown goes back only when a server answers with a snapshot older *)
(* than the request for it.                                                 *)

Reached == {d \in Deltas : d.end <= log}

OrderedInv ==
    /\ seq <= log
    /\ shown.seq <= seq
    /\ wire \in Seq(Reached) /\ st.pending \in Seq(Reached) /\ turn.left \in Seq(Reached)
    /\ \A f \in Awaited : seq <= f.from /\ f.from <= log

LEMMA SeqOfMore == ASSUME NEW S, NEW T, S \subseteq T, NEW q \in Seq(S) PROVE q \in Seq(T)
<1>1. q \in [1 .. Len(q) -> S] /\ Len(q) \in Nat
  BY LenProperties
<1>2. q \in [1 .. Len(q) -> T]
  BY <1>1
<1> QED BY <1>1, <1>2, SeqDef

\* The delta is not past the log, and no snapshot is awaited while it is applied.
LEMMA HandleDeltaOrdered ==
    ASSUME TypeOK, RefreshInv, OrderedInv, log' = log, ~st.disposed, Awaited = {},
           NEW d \in Reached, NEW rest \in Turns, rest.left \in Seq(Reached),
           HandleDelta(d, rest), wire' \in Seq(Reached)
    PROVE  OrderedInv' /\ seq' >= seq
<1>0. shown.seq \in Positions \cup {-1} /\ seq \in Positions /\ log \in Positions /\ st \in Feeds
  BY DEF TypeOK
<1>7. d \in Deltas /\ d.end <= log
  BY DEF Reached
<1>8. d.end \in Nat
  BY <1>7, DeltaFields
<1>9. seq \in Nat /\ log \in Nat
  BY <1>0, Places
<1>10. shown.seq \in Int
  <2>1. shown.seq \in Nat \cup {-1}
    BY <1>0, Places
  <2> QED BY <2>1
<1>1. /\ seq \in Nat /\ log \in Nat /\ d \in Deltas /\ d.end \in Nat /\ d.end <= log
      /\ shown.seq \in Int /\ st \in Feeds
  BY <1>0, <1>7, <1>8, <1>9, <1>10
<1>2. Reached' = Reached
  BY DEF Reached
<1>3. <<>> \in Seq(Reached) /\ Rest.left = <<>>
  BY DEF Rest
<1>4. CASE turn' = rest /\ UNCHANGED <<st, book, seq, fetches, shown>>
  <2>1. Awaited' = Awaited
    BY <1>4 DEF Awaited, IsAwaited
  <2> QED BY <1>1, <1>2, <1>4, <2>1 DEF OrderedInv
<1>5. CASE Refetch(st, TRUE) /\ turn' = Rest /\ UNCHANGED <<book, seq, shown>>
  <2>1. st'.pending = st.pending /\ st'.generation = st.generation + 1
    BY <1>1, <1>5 DEF Refetch, Refreshed, Feeds
  <2>2. \A f \in fetches : f.generation < st'.generation
    <3>1. \A f \in fetches : f.generation \in Nat /\ f.generation <= st.generation
      BY DEF TypeOK, RefreshInv
    <3>2. st.generation \in Nat
      BY <1>1 DEF Feeds
    <3> QED BY <2>1, <3>1, <3>2
  <2>3. ASSUME NEW f \in Awaited' PROVE f.from = log
    <3>1. f \in fetches' /\ f.generation = st'.generation
      BY DEF Awaited, IsAwaited
    <3>2. f \notin fetches
      <4>1. SUFFICES ASSUME f \in fetches PROVE FALSE
        OBVIOUS
      <4>2. f.generation \in Nat /\ f.generation < st'.generation
        BY <4>1, <2>2 DEF TypeOK
      <4> QED BY <3>1, <4>2
    <3> QED BY <1>5, <3>1, <3>2, RefetchFrom
  <2>4. \A f \in Awaited' : seq' <= f.from /\ f.from <= log'
    BY <1>1, <1>5, <2>3 DEF OrderedInv
  <2>5. wire' \in Seq(Reached)' /\ st'.pending \in Seq(Reached)' /\ turn'.left \in Seq(Reached)'
    BY <1>2, <1>3, <1>5, <2>1 DEF OrderedInv
  <2>6. OrderedInv'
    BY <1>5, <2>4, <2>5 DEF OrderedInv
  <2> QED BY <1>1, <1>5, <2>6
<1>6. CASE d.end > seq /\ Apply(d) /\ turn' = rest /\ UNCHANGED <<st, fetches>>
  <2>1. seq' = d.end /\ shown'.seq = d.end
    BY <1>6 DEF Apply, Event
  <2>2. Awaited' = {}
    BY <1>6 DEF Awaited, IsAwaited
  <2>3. seq' <= log' /\ shown'.seq <= seq' /\ seq' >= seq
    BY <1>1, <1>6, <2>1
  <2>4. st'.pending \in Seq(Reached) /\ turn'.left \in Seq(Reached)
    BY <1>6 DEF OrderedInv
  <2>5. wire' \in Seq(Reached)' /\ st'.pending \in Seq(Reached)' /\ turn'.left \in Seq(Reached)'
    BY <1>2, <2>4
  <2>6. \A f \in Awaited' : seq' <= f.from /\ f.from <= log'
    BY <2>2
  <2>7. OrderedInv'
    BY <2>3, <2>5, <2>6 DEF OrderedInv
  <2> QED BY <2>3, <2>7
<1> QED BY <1>4, <1>5, <1>6 DEF HandleDelta

\* Nothing moves but the feed's flags and the fetches.
LEMMA StillOrdered ==
    ASSUME TypeOK, OrderedInv, UNCHANGED <<seq, log>>, Awaited' \in SUBSET Awaited,
           shown' = shown \/ shown'.seq = seq,
           wire' \in Seq(Reached), st'.pending \in Seq(Reached), turn'.left \in Seq(Reached)
    PROVE  OrderedInv'
<1>1. seq \in Nat /\ log \in Nat
  BY Places DEF TypeOK
<1>2. Reached' = Reached
  BY DEF Reached
<1> QED BY <1>1, <1>2 DEF OrderedInv

\* A stale snapshot is installed.
FallsBack == SnapshotArrives /\ Fault("stale")

LEMMA NextOrdered ==
    TypeOK /\ RefreshInv /\ OrderedInv /\ Next => OrderedInv' /\ (seq' >= seq \/ FallsBack)
<1> SUFFICES ASSUME TypeOK, RefreshInv, OrderedInv, Next
             PROVE  OrderedInv' /\ (seq' >= seq \/ FallsBack)
  OBVIOUS
<1>1. /\ st \in Feeds /\ turn \in Turns /\ seq \in Positions /\ log \in Positions
      /\ \A f \in fetches : f.from \in Positions /\ f.generation \in Nat
  BY DEF TypeOK
<1>2. seq \in Nat /\ log \in Nat /\ \A f \in fetches : f.from \in Nat
  BY <1>1, Places
<1>3. /\ wire \in Seq(Reached) /\ st.pending \in Seq(Reached) /\ turn.left \in Seq(Reached)
      /\ seq <= log /\ shown.seq <= seq
  BY DEF OrderedInv
<1>4. <<>> \in Seq(Reached) /\ Rest.left = <<>> /\ Rest \in Turns
  BY TurnTypes DEF Rest
<1>5. wire # <<>> => Head(wire) \in Reached /\ Tail(wire) \in Seq(Reached)
  BY <1>3
<1>6. turn.left # <<>> => /\ Head(turn.left) \in Reached
                          /\ [turn EXCEPT !.left = Tail(@)].left \in Seq(Reached)
                          /\ [turn EXCEPT !.left = Tail(@)] \in Turns
  <2>1. turn.left # <<>> => Head(turn.left) \in Reached /\ Tail(turn.left) \in Seq(Reached)
    BY <1>3
  <2>2. turn.left # <<>> => Tail(turn.left) \in Seq(Deltas)
    BY <1>1 DEF Turns
  <2>3. turn.left # <<>> => [turn EXCEPT !.left = Tail(@)].left = Tail(turn.left)
    BY <1>1 DEF Turns
  <2> QED BY <2>1, <2>2, <2>3, <1>1 DEF Turns
<1>7. CASE OnPublication
  <2>1. /\ Head(wire) \in Reached /\ wire' \in Seq(Reached) /\ log' = log
        /\ turn.after = "nothing" /\ ~st.disposed
    BY <1>5, <1>7 DEF OnPublication, Idle
  <2>2. CASE st.ready /\ HandleDelta(Head(wire), Rest)
    <3>1. Awaited = {}
      BY <2>2 DEF RefreshInv, OneRefresh, Awaited
    <3> QED BY <1>4, <2>1, <2>2, <3>1, HandleDeltaOrdered
  <2>3. CASE st' = Buffered(st, Head(wire)) /\ UNCHANGED <<book, seq, fetches, turn, shown>>
    <3>1. /\ st'.generation = st.generation /\ st'.disposed = st.disposed
      BY <1>1, <2>3 DEF Buffered, Feeds
    <3>2. Awaited' = Awaited
      BY <2>3, <3>1 DEF Awaited, IsAwaited
    <3>3. Append(st.pending, Head(wire)) \in Seq(Reached)
      BY <1>3, <2>1
    <3>4. ASSUME ~(Len(st.pending) < MaxBuffered)
          PROVE  Append(Tail(st.pending), Head(wire)) \in Seq(Reached)
      <4>1. st.pending # <<>>
        BY <3>4, StreamAssumption
      <4>2. Tail(st.pending) \in Seq(Reached)
        BY <4>1, <1>3
      <4> QED BY <4>2, <2>1
    <3>5. st'.pending \in Seq(Reached)
      BY <1>1, <2>3, <3>3, <3>4 DEF Buffered, Feeds
    <3>6. turn'.left \in Seq(Reached) /\ UNCHANGED <<seq, log, shown>>
      BY <1>3, <2>1, <2>3
    <3> QED BY <1>2, <2>1, <3>2, <3>5, <3>6, StillOrdered
  <2> QED BY <1>7, <2>2, <2>3 DEF OnPublication
<1>8. CASE StaleSnapshot
  <2>1. UNCHANGED <<st, seq, log, shown, wire, turn>> /\ fetches' \in SUBSET fetches
    BY <1>8 DEF StaleSnapshot, local, env
  <2>2. Awaited' \in SUBSET Awaited
    BY <2>1 DEF Awaited, IsAwaited
  <2> QED BY <1>2, <1>3, <2>1, <2>2, StillOrdered
<1>9. CASE SnapshotArrives
  <2>1. PICK f \in fetches, n \in Int :
           /\ IsAwaited(st, f.generation) /\ Install(f, n)
           /\ \/ n \in f.from .. log
              \/ n \in FirstPosition .. (f.from - 1) /\ Fault("stale")
    BY <1>9, <1>2, Places, BookAssumption DEF SnapshotArrives
  <2>2. /\ f \in Awaited /\ f.from \in Nat /\ n \in Nat /\ n <= log
        /\ seq <= n \/ FallsBack
    <3>1. f \in Awaited /\ f.from \in Nat
      BY <1>2, <2>1 DEF Awaited
    <3>2. seq <= f.from /\ f.from <= log
      BY <3>1 DEF OrderedInv
    <3>3. FirstPosition \in Nat
      BY Places, BookAssumption
    <3>4. CASE n \in f.from .. log
      BY <1>2, <3>1, <3>2, <3>4
    <3>5. CASE n \in FirstPosition .. (f.from - 1) /\ Fault("stale")
      BY <1>2, <1>9, <3>1, <3>2, <3>3, <3>5 DEF FallsBack
    <3> QED BY <2>1, <3>1, <3>4, <3>5
  <2>3. /\ seq' = n /\ shown'.seq = n /\ fetches' = fetches \ {f}
        /\ turn'.left = st.pending /\ UNCHANGED <<wire, log>>
    BY <1>9, <2>1 DEF Install, Event, Replaying, SnapshotArrives
  <2>4. st'.pending = <<>> /\ st'.generation = st.generation /\ st'.disposed = st.disposed
    BY <1>1, <2>1 DEF Install, Feeds
  <2>5. \A g \in fetches \ {f} : ~IsAwaited(st, g.generation)
    BY <2>1 DEF RefreshInv, OneRefresh
  <2>6. Awaited' = {}
    BY <2>3, <2>4, <2>5 DEF Awaited, IsAwaited
  <2>7. Reached' = Reached
    BY <2>3 DEF Reached
  <2> QED BY <1>2, <1>3, <1>4, <2>2, <2>3, <2>4, <2>6, <2>7 DEF OrderedInv
<1>10. CASE SnapshotFails
  <2>1. UNCHANGED <<st, seq, log, shown, wire>> /\ turn'.left = <<>> /\ fetches' \in SUBSET fetches
    BY <1>10 DEF SnapshotFails, local, After, Rest
  <2>2. Awaited' \in SUBSET Awaited
    BY <2>1 DEF Awaited, IsAwaited
  <2> QED BY <1>2, <1>3, <1>4, <2>1, <2>2, StillOrdered
<1>11. CASE ReplayNext
  <2>1. UNCHANGED env /\ turn.left # <<>> /\ turn.after = "replay"
    BY <1>11 DEF ReplayNext
  <2>2. CASE ~st.disposed /\ HandleDelta(Head(turn.left), [turn EXCEPT !.left = Tail(@)])
    <3>1. Awaited = {}
      BY <2>1 DEF RefreshInv
    <3>2. log' = log /\ wire' \in Seq(Reached)
      BY <2>1, <1>3 DEF env
    <3> QED BY <1>6, <2>1, <2>2, <3>1, <3>2, HandleDeltaOrdered
  <2>3. CASE turn' = Rest /\ UNCHANGED <<st, book, seq, fetches, shown>>
    <3>1. Awaited' \in SUBSET Awaited
      BY <2>3 DEF Awaited, IsAwaited
    <3>2. wire' \in Seq(Reached) /\ st'.pending \in Seq(Reached) /\ turn'.left \in Seq(Reached)
      BY <1>3, <1>4, <2>1, <2>3 DEF env
    <3>3. UNCHANGED <<seq, log, shown>>
      BY <2>1, <2>3 DEF env
    <3>4. OrderedInv'
      BY <3>1, <3>2, <3>3, StillOrdered
    <3> QED BY <1>2, <3>3, <3>4
  <2> QED BY <1>11, <2>2, <2>3 DEF ReplayNext, MayReplay
<1>12. CASE RetryTimer \/ Subscribed
  <2>1. PICK feed \in {st, [st EXCEPT !.pending = <<>>]}, r \in BOOLEAN :
           Refetch(feed, r) /\ UNCHANGED <<seq, turn, shown, wire, log>>
    BY <1>12 DEF RetryTimer, Subscribed, env
  <2>2. st'.generation = st.generation + 1 /\ st'.pending \in {st.pending, <<>>}
    BY <1>1, <2>1 DEF Refetch, Refreshed, Feeds
  <2>3. \A f \in fetches : f.generation # st'.generation
    BY <1>1, <2>2 DEF RefreshInv, Feeds
  <2>4. \A f \in Awaited' : f.from = log
    BY <2>1, <2>3, RefetchFrom DEF Awaited, IsAwaited
  <2>5. Reached' = Reached
    BY <2>1 DEF Reached
  <2>6. /\ wire' \in Seq(Reached)' /\ st'.pending \in Seq(Reached)' /\ turn'.left \in Seq(Reached)'
        /\ UNCHANGED <<seq, log, shown>>
    BY <1>3, <1>4, <2>1, <2>2, <2>5
  <2>7. \A f \in Awaited' : seq' <= f.from /\ f.from <= log'
    BY <1>2, <1>3, <2>4, <2>6
  <2> QED BY <1>2, <1>3, <2>6, <2>7 DEF OrderedInv
<1>13. CASE ReplayEnds \/ RetryAfterError \/ CloseAfterError \/ Unsubscribe
  <2>1. /\ UNCHANGED <<seq, log, shown, fetches>>
        /\ wire' \in {wire, <<>>} /\ turn' \in {turn, Rest}
    BY <1>13 DEF ReplayEnds, RetryAfterError, CloseAfterError, Unsubscribe, env
  <2>2. \/ st' \in {Settled(st, turn.generation), Rescheduled(st)}
        \/ st' \in {Closed(st), Unsubscribed(st)}
    BY <1>13 DEF ReplayEnds, RetryAfterError, CloseAfterError, Unsubscribe
  <2>3. /\ st'.pending \in {st.pending, <<>>}
        /\ \/ st'.generation = st.generation /\ st'.disposed = st.disposed
           \/ st'.generation = st.generation + 1
    BY <1>1, <2>2 DEF Settled, Rescheduled, Closed, Unsubscribed, Feeds
  <2>4. \A f \in fetches : f.generation # st.generation + 1
    BY <1>1 DEF RefreshInv, Feeds
  <2>5. Awaited' \in SUBSET Awaited
    BY <2>1, <2>3, <2>4 DEF Awaited, IsAwaited
  <2>6. wire' \in Seq(Reached) /\ st'.pending \in Seq(Reached) /\ turn'.left \in Seq(Reached)
    BY <1>3, <1>4, <2>1, <2>3
  <2>7. OrderedInv'
    BY <2>1, <2>5, <2>6, StillOrdered
  <2> QED BY <1>2, <2>1, <2>7
<1>14. CASE Terminated \/ SetBucket \/ Disconnect \/ PublicationLost \/ ConnectionLost
  <2>1. UNCHANGED <<st, seq, log, fetches>>
    BY <1>14 DEF Terminated, SetBucket, Disconnect, PublicationLost, ConnectionLost, local, env
  <2>2. wire' \in {wire, <<>>} \/ (wire # <<>> /\ wire' = Tail(wire))
    BY <1>14, <1>3 DEF Terminated, SetBucket, Disconnect, PublicationLost, ConnectionLost, env
  <2>3. turn' = turn \/ turn'.left = <<>>
    BY <1>14 DEF Terminated, SetBucket, Disconnect, PublicationLost, ConnectionLost, After, Rest
  <2>4. shown' = shown \/ shown'.seq = seq
    BY <1>14 DEF Terminated, SetBucket, Disconnect, PublicationLost, ConnectionLost, Event
  <2>5. Awaited' \in SUBSET Awaited
    BY <2>1 DEF Awaited, IsAwaited
  <2>6. wire' \in Seq(Reached) /\ st'.pending \in Seq(Reached) /\ turn'.left \in Seq(Reached)
    BY <1>3, <1>4, <1>5, <2>1, <2>2, <2>3
  <2> QED BY <1>2, <2>1, <2>4, <2>5, <2>6, StillOrdered
<1>15. CASE Publish
  <2>1. PICK n \in (log + 1) .. Len(History), reset \in BOOLEAN :
           /\ log' = n
           /\ wire' = IF link = "subscribed" /\ ~st.disposed
                      THEN Append(wire, [start |-> IF reset THEN 0 ELSE log + 1,
                                         end |-> n, reset |-> reset])
                      ELSE wire
    BY <1>15 DEF Publish
  <2>2. UNCHANGED <<st, seq, fetches, turn, shown>>
    BY <1>15 DEF Publish, local
  <2>3. log' \in Nat /\ log <= log' /\ n \in Positions /\ n # 0 /\ log + 1 \in Positions
        /\ log + 1 > 0 /\ 0 \in Positions
    BY <1>2, <2>1, Places DEF Positions
  <2>4. [start |-> IF reset THEN 0 ELSE log + 1, end |-> n, reset |-> reset] \in Reached'
    BY <2>1, <2>3 DEF Deltas, Reached
  <2>5. Reached \subseteq Reached'
    BY <1>2, <2>3, DeltaFields DEF Reached
  <2>6. wire \in Seq(Reached)' /\ st.pending \in Seq(Reached)' /\ turn.left \in Seq(Reached)'
    BY <1>3, <2>5, SeqOfMore
  <2>7. wire' \in Seq(Reached)'
    BY <2>1, <2>4, <2>6
  <2>8. Awaited' = Awaited
    BY <2>2 DEF Awaited, IsAwaited
  <2>9. \A f \in Awaited' : seq' <= f.from /\ f.from <= log'
    <3>1. SUFFICES ASSUME NEW f \in Awaited PROVE seq <= f.from /\ f.from <= log'
      BY <2>2, <2>8
    <3>2. f.from \in Nat /\ seq <= f.from /\ f.from <= log
      BY <1>2 DEF Awaited, OrderedInv
    <3> QED BY <1>2, <2>3, <3>2
  <2> QED BY <1>2, <1>3, <2>2, <2>3, <2>6, <2>7, <2>9 DEF OrderedInv
<1> QED BY <1>7, <1>8, <1>9, <1>10, <1>11, <1>12, <1>13, <1>14, <1>15 DEF Next, Events

LEMMA InitOrdered == Init => OrderedInv
<1>1. FirstPosition \in Nat
  BY BookAssumption, Places
<1> QED BY <1>1 DEF Init, NewFeed, Rest, Nothing, OrderedInv, Awaited

FeedInv == TypeOK /\ RefreshInv /\ TrueInv /\ OrderedInv

\* A step is one fault at most.
LEMMA FaultCounts == Next => faults' \in {faults, faults + 1}
BY DEF Next, Events, Fault, OnPublication, StaleSnapshot, SnapshotArrives, SnapshotFails, ReplayNext,
       ReplayEnds, RetryAfterError, RetryTimer, Subscribed, Terminated, CloseAfterError,
       Unsubscribe, SetBucket, Disconnect, Publish, PublicationLost, ConnectionLost, env

\* What a consumer sees is an abstract book feed: whole books, that go back for a
\* lagging snapshot only.
THEOREM OrderBookImplementsBookFeed ==
    ASSUME FirstPosition > 0
    PROVE  Spec => ImplementsBookFeed
<1>1. Init => FeedInv
  BY InitType, InitRefresh, InitTrue, InitOrdered DEF FeedInv
<1>2. FeedInv /\ [Next]_vars => FeedInv'
  <2>1. FeedInv /\ UNCHANGED vars => FeedInv'
    BY DEF FeedInv, TypeOK, RefreshInv, OneRefresh, TrueInv, BookIsTrue, OrderedInv, Reached,
           Awaited, IsAwaited, vars, local, env
  <2> QED BY <2>1, NextType, NextRefresh, NextTrue, NextOrdered DEF FeedInv
<1>3. Init => Feed!Init
  BY DEF Init, Nothing, Feed!Init, Feed!EmptyBook, EmptyBook
<1>4. FeedInv /\ FeedInv' /\ [Next]_vars => [Feed!Next]_Feed!feedVars
  <2> SUFFICES ASSUME FeedInv, FeedInv', Next
               PROVE  Feed!Next \/ UNCHANGED <<log, shown.seq, shown.book, faults>>
    BY DEF vars, local, env, Feed!feedVars
  <2>1. CASE Publish
    BY <2>1 DEF Publish, Feed!Next, Feed!Move
  <2>2. CASE UNCHANGED <<log, shown>> /\ faults' \in {faults, faults + 1}
    BY <2>2 DEF Feed!Next, Feed!Fail
  <2>3. CASE UNCHANGED log /\ \E k \in AnyBucket : shown' = Event(book', seq', k)
    <3>1. shown'.seq = seq' /\ shown'.book = BookAt(seq')
      BY <2>3 DEF Event, FeedInv, TrueInv, BookIsTrue
    <3>2. Feed!BookAt(seq') = BookAt(seq')
      BY DEF Feed!BookAt, Feed!QtyAt, Feed!Latest, Feed!ChangesOf,
             BookAt, QtyAt, Latest, ChangesOf
    <3>3. Feed!Shown(seq')
      BY <3>1, <3>2 DEF Feed!Shown
    <3>4. /\ shown.seq \in Positions \cup {-1} /\ seq \in Positions /\ seq' \in Positions
          /\ log \in Positions
      BY DEF FeedInv, TypeOK
    <3>5. seq \in Nat /\ seq' \in Nat /\ log \in Nat /\ FirstPosition \in Nat
      BY <3>4, Places, BookAssumption
    <3>6. shown.seq \in Int
      <4>1. shown.seq \in Nat \cup {-1}
        BY <3>4, Places
      <4> QED BY <4>1
    <3>7. shown.seq <= seq /\ seq' <= log
      BY <2>3 DEF FeedInv, OrderedInv
    <3>8. CASE seq' >= seq /\ faults' = faults
      <4>1. seq' \in 0 .. log /\ seq' >= shown.seq
        BY <3>5, <3>6, <3>7, <3>8
      <4> QED BY <2>3, <3>3, <3>8, <4>1 DEF Feed!Next, Feed!Show
    <3>9. CASE FallsBack
      <4>1. "stale" \in Faults /\ faults' = faults + 1
        BY <3>9 DEF FallsBack, Fault
      <4>2. seq' >= FirstPosition
        BY <3>9 DEF FallsBack, SnapshotArrives, Install, Replaying, FeedInv, TrueInv
      <4>3. seq' \in FirstPosition .. log
        BY <3>5, <3>7, <4>2
      <4> QED BY <2>3, <3>3, <4>1, <4>3 DEF Feed!Next, Feed!ShowLagging
    <3>10. faults' = faults \/ FallsBack \/ UNCHANGED shown
      BY DEF Next, Events, OnPublication, StaleSnapshot, SnapshotArrives, SnapshotFails, ReplayNext,
             ReplayEnds, RetryAfterError, RetryTimer, Subscribed, Terminated, CloseAfterError,
             Unsubscribe, SetBucket, Disconnect, Publish, PublicationLost, ConnectionLost,
             FallsBack, local, env
    <3>11. CASE UNCHANGED shown
      BY <2>2, <2>3, <3>11, FaultCounts
    <3> QED BY <3>8, <3>9, <3>10, <3>11, NextOrdered DEF FeedInv
  <2>4. ASSUME NEW d, NEW rest, HandleDelta(d, rest)
        PROVE  shown' = shown \/ shown' = Event(book', seq', bucket)
    BY <2>4 DEF HandleDelta, Apply
  <2>5. ASSUME NEW f, NEW n, Install(f, n)
        PROVE  shown' = Event(book', seq', bucket)
    BY <2>5 DEF Install
  <2>6. bucket \in AnyBucket /\ bucket' \in AnyBucket /\ faults' \in {faults, faults + 1}
    BY FaultCounts DEF FeedInv, TypeOK
  <2>7. CASE OnPublication \/ ReplayNext
    <3>1. UNCHANGED log /\ (shown' = shown \/ shown' = Event(book', seq', bucket))
      BY <2>4, <2>7 DEF OnPublication, ReplayNext, env
    <3> QED BY <2>2, <2>3, <2>6, <3>1
  <2>8. CASE SnapshotArrives
    <3>1. UNCHANGED log /\ shown' = Event(book', seq', bucket)
      BY <2>5, <2>8 DEF SnapshotArrives
    <3> QED BY <2>3, <2>6, <3>1
  <2>9. CASE SetBucket
    <3>1. UNCHANGED log /\ (shown' = shown \/ shown' = Event(book', seq', bucket'))
      BY <2>9 DEF SetBucket, env
    <3> QED BY <2>2, <2>3, <2>6, <3>1
  <2>10. CASE \/ StaleSnapshot \/ SnapshotFails \/ RetryTimer \/ Subscribed
              \/ ReplayEnds \/ RetryAfterError \/ CloseAfterError
    BY <2>2, <2>6, <2>10 DEF StaleSnapshot, SnapshotFails, RetryTimer, Subscribed, ReplayEnds,
                       RetryAfterError, CloseAfterError, env
  <2>11. CASE Terminated \/ Unsubscribe \/ Disconnect \/ PublicationLost \/ ConnectionLost
    BY <2>2, <2>6, <2>11 DEF Terminated, Unsubscribe, Disconnect, PublicationLost, ConnectionLost
  <2> QED BY <2>1, <2>7, <2>8, <2>9, <2>10, <2>11 DEF Next, Events
<1> QED BY <1>1, <1>2, <1>3, <1>4, PTL DEF Spec, ImplementsBookFeed, Feed!Spec
==============================================================================
