-------------------------- MODULE SnapshotThenStream --------------------------
(***************************************************************************)
(* snapshotThenStream (src/realtime/snapshot-then-stream.ts): a feed that  *)
(* fetches a snapshot whenever its channel is subscribed and buffers what  *)
(* is published meanwhile.  Its local variables are a record `st`, each of *)
(* its functions an operator on it; the services that use it fetch, apply  *)
(* and call their consumer.                                                *)
(***************************************************************************)
EXTENDS Integers, Sequences

CONSTANTS MaxAttempts,     \* snapshotRetry.maxAttempts; 0 where retries are not configured
          MaxBuffered      \* maxBufferedPublications

ASSUME StreamAssumption == MaxAttempts \in Nat /\ MaxBuffered \in Nat \ {0}

NewFeed == [ready |-> FALSE, disposed |-> FALSE, generation |-> 0,
            pending |-> <<>>, attempts |-> 0, timer |-> FALSE]

\* A snapshot fetched for this generation may still be applied.
IsAwaited(st, generation) == ~st.disposed /\ st.generation = generation

\* Mutant: the buffer drops its newest publication.
BufferedOldest(st, p) ==
    [st EXCEPT !.pending = IF Len(@) < MaxBuffered THEN Append(@, p) ELSE @]
\* bufferPublications without keys: past the cap the oldest publication goes.
Buffered(st, p) ==
    [st EXCEPT !.pending = IF Len(@) < MaxBuffered THEN Append(@, p) ELSE Append(Tail(@), p)]

\* Mutant: what is buffered first under a key stays.
BufferedFirst(st, batch) ==
    [st EXCEPT !.pending = [k \in DOMAIN batch \cup DOMAIN @ |->
                              IF k \in DOMAIN @ THEN @[k] ELSE batch[k]]]
\* bufferPublications with keys: the latest of each, without a cap.
BufferedByKey(st, batch) ==
    [st EXCEPT !.pending = [k \in DOMAIN batch \cup DOMAIN @ |->
                              IF k \in DOMAIN batch THEN batch[k] ELSE @[k]]]

\* Mutant: a refresh does not start a generation of its own.
RefreshedInPlace(st, resetRetries) ==
    [st EXCEPT !.timer = FALSE, !.attempts = IF resetRetries THEN 0 ELSE @, !.ready = FALSE]
\* refreshSnapshot of a feed that is not disposed; its caller starts the fetch.
Refreshed(st, resetRetries) ==
    [st EXCEPT !.timer = FALSE, !.attempts = IF resetRetries THEN 0 ELSE @,
               !.generation = @ + 1, !.ready = FALSE]

\* Mutant: attempts are counted down.
RescheduledDown(st) ==
    IF st.disposed THEN st ELSE [st EXCEPT !.attempts = @ - 1, !.timer = TRUE]
\* Mutant: the retry is counted and never set.
RescheduledNever(st) ==
    IF st.disposed \/ st.attempts >= MaxAttempts THEN st ELSE [st EXCEPT !.attempts = @ + 1]
\* scheduleSnapshotRetry
Rescheduled(st) ==
    IF st.disposed \/ st.attempts >= MaxAttempts THEN st
    ELSE [st EXCEPT !.attempts = @ + 1, !.timer = TRUE]

\* A snapshot and what was buffered behind it are applied.
Settled(st, generation) ==
    IF IsAwaited(st, generation) THEN [st EXCEPT !.ready = TRUE, !.attempts = 0] ELSE st

\* onDisconnected
Closed(st) ==
    IF st.disposed THEN st
    ELSE [st EXCEPT !.timer = FALSE, !.generation = @ + 1, !.ready = FALSE, !.pending = <<>>]

\* unsubscribe: `ready` is left as it was.
Unsubscribed(st) ==
    [st EXCEPT !.disposed = TRUE, !.timer = FALSE, !.generation = @ + 1, !.pending = <<>>]
==============================================================================
