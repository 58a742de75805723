------------------------------ MODULE ReadyGate ------------------------------
(***************************************************************************)
(* createReadyGate (src/shared/decimal-surface.ts): deliveries are queued  *)
(* until the catalog is ready, then flushed in the order they came.        *)
(***************************************************************************)
EXTENDS Integers, Sequences

CONSTANT MaxPending          \* READY_GATE_MAX_PENDING_DELIVERIES

ASSUME GateAssumption == MaxPending \in Nat \ {0}

NewGate == [state |-> "pending", queue |-> <<>>]

\* Mutant: one more than the bound is queued.
OverFull(gate) == Len(gate.queue) > MaxPending
\* queue.length === READY_GATE_MAX_PENDING_DELIVERIES
IsFull(gate) == Len(gate.queue) = MaxPending

\* Mutant: the newest goes first.
QueuedFirst(gate, p) == [gate EXCEPT !.queue = <<p>> \o @]
\* run, while pending.
Queued(gate, p) == [gate EXCEPT !.queue = Append(@, p)]

\* Ready: what was queued is spliced out and flushed.
Opened(gate) == [state |-> "open", queue |-> <<>>]

\* Mutant: the gate only forgets its queue, and the next delivery is queued.
Emptied(gate) == [gate EXCEPT !.queue = <<>>]
\* close and closeWithError
Shut(gate) == [state |-> "closed", queue |-> <<>>]
==============================================================================
