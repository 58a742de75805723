------------------------------- MODULE KeyedFeed -------------------------------
(***************************************************************************)
(* The two feeds of rows by key over snapshotThenStream (src/realtime/     *)
(* snapshot-then-stream.ts): subscribe of the market overview              *)
(* (src/services/market-overview/market-overview.ts), which waits for its  *)
(* snapshot and never retries it, and subscribeZippedAssetSupply           *)
(* (src/services/zipper/zipper.ts), which retries and goes live without it *)
(* once the catalog is ready.  A row is the number of times it changed.    *)
(***************************************************************************)
EXTENDS SnapshotThenStream, FiniteSets

CONSTANTS Keys,                  \* symbols, assets
          Listed,                \* those the catalog can resolve
          PageLimit,             \* how many markets a page of the overview holds
          MaxRow,                \* bound: how often a row changes
          FeedFaults,            \* what may go wrong
          MaxFeedFaults          \* bound: how often

ASSUME KeyedFeedAssumption == /\ Listed \subseteq Keys /\ PageLimit \in Nat \ {0}
                              /\ MaxRow \in Nat /\ MaxFeedFaults \in Nat

VARIABLES kind,                  \* "overview" or "supply"
          st,                    \* the variables of snapshotThenStream
          catalogReady,          \* supply only
          fetches,               \* snapshots asked for: [generation, rows, lags], rows and
                                 \* whether they lag behind the channel once answered
          shown,                 \* bySymbolId; for the supply what the consumer has merged
          told,                  \* errors since onOpen
          covered, lagged,       \* of the snapshot applied since onOpen: its keys, if it lagged
          renewed,               \* keys published since onOpen, or since that snapshot if it lagged
          link, wire,            \* the channel and the batches under way on it
          server,                \* external: the rows
          feedFaults

feedVars == <<kind, st, catalogReady, fetches, shown, told, covered, lagged, renewed, link, wire, server, feedFaults>>

NoRow  == -1
NoRows == [k \in Keys |-> NoRow]

\* Rows laid over others; `batch` is a function of some keys.
Over(batch, rows) == [k \in Keys |-> IF k \in DOMAIN batch THEN batch[k] ELSE rows[k]]
OnlyListed(batch) == [k \in DOMAIN batch \cap Listed |-> batch[k]]

FeedFault(what) == what \in FeedFaults /\ feedFaults < MaxFeedFaults /\ feedFaults' = feedFaults + 1

-----------------------------------------------------------------------------
(* The consumer.                                                           *)

\* parseMarkets skips the rows the catalog cannot resolve; parseUpdates throws
\* for the whole batch.
Unparsable(batch) == kind = "supply" /\ ~(DOMAIN batch \subseteq Listed)

\* applyLivePublications, after the errors of `before`.
ApplyLive(batch, before) ==
    IF Unparsable(batch)
    THEN told' = before \cup {"handler"} /\ UNCHANGED shown
    ELSE shown' = Over(OnlyListed(batch), shown) /\ told' = before

\* applySnapshot, with what was buffered behind it.  The configuration names its
\* own assets, so that a snapshot of the supply is never unparsable itself.
ApplySnapshot(rows, buffered) ==
    IF Unparsable(buffered)
    THEN told' = told \cup {"handler"} /\ UNCHANGED shown
    ELSE /\ shown' = IF kind = "overview"
                     THEN Over(OnlyListed(buffered), Over(OnlyListed(rows), NoRows))
                     ELSE Over(buffered, Over(rows, shown))
         /\ UNCHANGED told

-----------------------------------------------------------------------------
(* snapshotThenStream.                                                     *)

\* refreshSnapshot
RefreshSnapshot(before, resetRetries) ==
    LET next == Refreshed(before, resetRetries)
    IN  /\ st' = next
        /\ fetches' = fetches \cup {[generation |-> next.generation, rows |-> <<>>, lags |-> FALSE]}

\* onConnected, then onOpen
FeedConnected ==
    /\ ~st.disposed /\ link = "connecting"
    /\ link' = "connected"
    /\ RefreshSnapshot([st EXCEPT !.pending = <<>>], TRUE)
    /\ told' = {} /\ covered' = {} /\ lagged' = FALSE /\ renewed' = {}
    /\ UNCHANGED <<kind, catalogReady, shown, wire, server, feedFaults>>

\* onPublication; the rows of other symbols are not asked about.
FeedPublication ==
    /\ wire # <<>>
    /\ wire' = Tail(wire)
    /\ renewed' = renewed \cup DOMAIN Head(wire)
    /\ IF st.ready THEN ApplyLive(Head(wire), told) /\ UNCHANGED st
       ELSE st' = BufferedByKey(st, Head(wire)) /\ UNCHANGED <<shown, told>>
    /\ UNCHANGED <<kind, catalogReady, fetches, covered, lagged, link, server, feedFaults>>

\* The keys a fetch is answered for.  The overview asks for one page and drops
\* nextPageToken: of more markets than it holds, any PageLimit may be first.
Pages == IF kind = "supply" \/ Cardinality(Keys) <= PageLimit THEN {Keys}
         ELSE {page \in SUBSET Keys : Cardinality(page) = PageLimit}

Answered(f, rows, lags) ==
    fetches' = (fetches \ {f}) \cup {[f EXCEPT !.rows = rows, !.lags = lags]}

\* The server answers a fetch; whoever asked it had a catalog.  What answers may
\* lag behind what publishes: the rows are then as they once were.
SnapshotTaken ==
    /\ \E f \in fetches, page \in Pages :
          /\ f.rows = <<>>
          /\ \/ Answered(f, [k \in page |-> server[k]], FALSE) /\ UNCHANGED feedFaults
             \/ /\ FeedFault("stale")
                /\ \E past \in [page -> 0 .. MaxRow] :
                      /\ \A k \in page : past[k] <= server[k]
                      /\ Answered(f, past, TRUE)
    /\ catalogReady' = TRUE
    /\ UNCHANGED <<kind, st, shown, told, covered, lagged, renewed, link, wire, server>>

\* The answer is there.
FeedSnapshot ==
    \E f \in fetches :
        /\ f.rows # <<>>
        /\ fetches' = fetches \ {f}
        /\ IF IsAwaited(st, f.generation)
           THEN /\ ApplySnapshot(f.rows, st.pending)
                /\ st' = Settled([st EXCEPT !.pending = <<>>], f.generation)
                /\ covered' = IF Unparsable(st.pending) THEN {} ELSE DOMAIN f.rows
                /\ lagged' = f.lags
                /\ renewed' = IF f.lags THEN DOMAIN st.pending ELSE renewed
           ELSE UNCHANGED <<st, shown, told, covered, lagged, renewed>>
        /\ UNCHANGED <<kind, catalogReady, link, wire, server, feedFaults>>

\* The fetch fails; the catalog may have been ready.
FeedSnapshotFails ==
    \E f \in fetches :
        /\ FeedFault("snapshot")
        /\ fetches' = fetches \ {f}
        /\ catalogReady' \in {catalogReady, TRUE}
        /\ LET live == kind = "supply" /\ catalogReady'
               next == IF live THEN [st EXCEPT !.ready = TRUE, !.pending = <<>>] ELSE st
           IN  IF ~IsAwaited(st, f.generation)
               THEN UNCHANGED <<st, shown, told>>
               ELSE /\ IF live THEN ApplyLive(st.pending, told \cup {"snapshot"})
                       ELSE told' = told \cup {"snapshot"} /\ UNCHANGED shown
                    /\ st' = IF kind = "supply" THEN Rescheduled(next) ELSE next
        /\ UNCHANGED <<kind, covered, lagged, renewed, link, wire, server>>

FeedRetries ==
    /\ st.timer
    /\ RefreshSnapshot(st, FALSE)
    /\ UNCHANGED <<kind, catalogReady, shown, told, covered, lagged, renewed, link, wire, server, feedFaults>>

FeedUnsubscribe ==
    /\ ~st.disposed
    /\ st' = Unsubscribed(st)
    /\ link' = "none" /\ wire' = <<>>
    /\ UNCHANGED <<kind, catalogReady, fetches, shown, told, covered, lagged, renewed, server, feedFaults>>

-----------------------------------------------------------------------------
(* External: the channel and the server.                                   *)

\* onDisconnected; what is on the way is lost, and the transport reconnects.
FeedDropped ==
    /\ link = "connected" /\ FeedFault("drop")
    /\ link' = "connecting" /\ wire' = <<>>
    /\ st' = Closed(st)
    /\ UNCHANGED <<kind, catalogReady, fetches, shown, told, covered, lagged, renewed, server>>

RowsChange ==
    \E changed \in SUBSET Keys \ {{}} :
        /\ \A k \in changed : server[k] < MaxRow
        /\ server' = [k \in Keys |-> IF k \in changed THEN server[k] + 1 ELSE server[k]]
        /\ wire' = IF link = "connected"
                   THEN Append(wire, [k \in changed |-> server'[k]]) ELSE wire
        /\ UNCHANGED <<kind, st, catalogReady, fetches, shown, told, covered, lagged, renewed, link, feedFaults>>

-----------------------------------------------------------------------------

FeedInit ==
    /\ kind \in {"overview", "supply"}
    /\ st = NewFeed /\ catalogReady = FALSE
    /\ fetches = {}
    /\ shown = NoRows /\ told = {}
    /\ covered = {} /\ lagged = FALSE /\ renewed = {}
    /\ link = "connecting" /\ wire = <<>>
    /\ server = [k \in Keys |-> 0]
    /\ feedFaults = 0

FeedNext == \/ FeedConnected \/ FeedPublication \/ SnapshotTaken \/ FeedSnapshot
            \/ FeedSnapshotFails \/ FeedRetries \/ FeedUnsubscribe
            \/ FeedDropped \/ RowsChange

FeedSpec == FeedInit /\ [][FeedNext]_feedVars
================================================================================
