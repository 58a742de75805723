----------------------------- MODULE BookHistory -----------------------------
(***************************************************************************)
(* External: an order book's history.  Change n sets one price level of    *)
(* one side to a quantity, 0 deleting it; the book is a quantity for every *)
(* level, and a delta carries the last word on each level its range of     *)
(* changes touched (gen/orderbook/v1/orderbook_pb.ts, OrderBookDelta).     *)
(***************************************************************************)
EXTENDS Integers, Sequences

CONSTANTS Levels,                \* price levels, of both sides
          History                \* <<[level, qty], ...>>

ASSUME HistoryAssumption == History \in Seq([level : Levels, qty : Nat])

Positions == 0 .. Len(History)
Books     == [Levels -> Nat]
EmptyBook == [l \in Levels |-> 0]

\* The last of a set of changes, 0 if there is none.
Latest(ks) == IF \E k \in ks : \A j \in ks : j <= k
              THEN CHOOSE k \in ks : \A j \in ks : j <= k
              ELSE 0

ChangesOf(l, n) == {k \in 1 .. n : History[k].level = l}
QtyAt(l, n)     == LET k == Latest(ChangesOf(l, n)) IN IF k = 0 THEN 0 ELSE History[k].qty

\* The book at a position.
BookAt(n) == [l \in Levels |-> QtyAt(l, n)]

\* A delta covers changes start .. end; a reset one carries the whole book, and
\* its start says nothing.
Deltas  == {d \in [start : Positions, end : Positions \ {0}, reset : BOOLEAN] :
              d.reset \/ d.start > 0}
Carries(d) == IF d.reset THEN {l \in Levels : QtyAt(l, d.end) > 0}
              ELSE {History[k].level : k \in d.start .. d.end}

==============================================================================
