---------------------------- MODULE OrderHistory ----------------------------
(***************************************************************************)
(* External: an account's order history.  Unit n puts some orders and      *)
(* removes others (gen/privatews/v1/private_ws_pb.ts); the account's live  *)
(* view at a position is every order put and not removed by then.          *)
(***************************************************************************)
EXTENDS Integers, Sequences, FiniteSets

CONSTANTS OrderIds, NoView,
          Units                  \* the account's history: <<[put, removed], ...>>

ASSUME OrdersAssumption == IsFiniteSet(OrderIds)
ASSUME UnitsAssumption  == Units \in Seq([put : SUBSET OrderIds, removed : SUBSET OrderIds])
ASSUME ViewAssumption   == NoView \notin [OrderIds -> SUBSET Nat]

Views     == [OrderIds -> SUBSET Nat]  \* an order's version: {the position that put it}
EmptyView == [o \in OrderIds |-> {}]
NoCursor  == -1
Positions == 0 .. Len(Units)
Cursors   == {NoCursor} \cup Positions
Scopes    == {"no", "some", "all"}     \* what Unavailable names as stale

Touched(o, m) == o \in Units[m].put \cup Units[m].removed

\* The account's live view at a position: what was put, not removed, and not
\* touched since.
ViewAt(n) == [o \in OrderIds |->
                {m \in 1 .. n : /\ o \in Units[m].put \ Units[m].removed
                                /\ \A k \in (m + 1) .. n : ~Touched(o, k)}]

Count(view) == Cardinality({o \in OrderIds : view[o] # {}})
==============================================================================
