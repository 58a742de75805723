------------------------------- MODULE BookFeed -------------------------------
(***************************************************************************)
(* What an order book subscription promises, whatever snapshots, gaps and  *)
(* reconnects are behind it: each event is the whole book at a position    *)
(* the book has reached, and that position never moves back, except by a   *)
(* snapshot that lags behind what was published.                           *)
(***************************************************************************)
EXTENDS BookHistory

CONSTANTS FirstPosition,
          MayLag            \* whether the server's snapshots may lag

VARIABLES log,      \* position the book has reached
          view,     \* what the consumer was last shown: [at, book]
          faults    \* what has gone wrong so far, lagging snapshots among it

feedVars == <<log, view, faults>>

Init == /\ log = FirstPosition
        /\ view = [at |-> -1, book |-> EmptyBook]
        /\ faults = 0

Shown(n) == view' = [at |-> n, book |-> BookAt(n)]

Move == /\ \E n \in (log + 1) .. Len(History) : log' = n
        /\ UNCHANGED <<view, faults>>

Show == /\ \E n \in 0 .. log : n >= view.at /\ Shown(n)
        /\ UNCHANGED <<log, faults>>

\* A fault by itself shows nothing.
Fail == faults' = faults + 1 /\ UNCHANGED <<log, view>>

ShowLagging ==
    /\ MayLag
    /\ \E n \in FirstPosition .. log : Shown(n)
    /\ faults' = faults + 1
    /\ UNCHANGED log

Next == Move \/ Show \/ Fail \/ ShowLagging

Spec == Init /\ [][Next]_feedVars
==============================================================================
