-------------------------- MODULE KeyedFeedProperties --------------------------
(* What KeyedFeed guarantees.                                              *)
EXTENDS KeyedFeed

Rows == [Keys -> {NoRow} \cup 0 .. MaxRow]
Pieces == UNION {[page -> 0 .. MaxRow] : page \in SUBSET Keys}
Batches == UNION {[changed -> 1 .. MaxRow] : changed \in SUBSET Keys}

FeedTypeOK ==
    /\ kind \in {"overview", "supply"}
    /\ st \in [ready : BOOLEAN, disposed : BOOLEAN, generation : Nat, pending : Batches,
               attempts : 0 .. MaxAttempts, timer : BOOLEAN]
    /\ catalogReady \in BOOLEAN
    /\ fetches \subseteq [generation : Nat, rows : Pieces \cup {<<>>}, lags : BOOLEAN]
    /\ shown \in Rows
    /\ told \subseteq {"handler", "snapshot"}
    /\ covered \subseteq Keys /\ lagged \in BOOLEAN /\ renewed \subseteq Keys
    /\ link \in {"none", "connecting", "connected"}
    /\ wire \in Seq(Batches)
    /\ server \in [Keys -> 0 .. MaxRow]
    /\ feedFaults \in Nat

\* Nothing is under way.
Settles == \/ wire # <<>> \/ st.timer
           \/ \E f \in fetches : IsAwaited(st, f.generation)

\* Whatever overtook what, and whatever failed, once nothing is under way the
\* consumer was told of a snapshot that failed or of a batch that could not be
\* parsed, or shows a whole snapshot of the supply, a whole page of the overview.
\* Of the keys the catalog can resolve it then shows the server's row, if the
\* snapshot covered them and did not lag, and of those published since in any
\* case; the overview shows no row of a market that is beyond its page and was
\* not published, instead of one left from an earlier connection.
CurrentOrTold ==
    link = "connected" /\ ~Settles =>
        /\ ~st.ready => "snapshot" \in told
        /\ "handler" \notin told =>
              /\ told = {} => covered \in Pages
              /\ \A k \in Listed :
                    (k \in covered /\ ~lagged) \/ (st.ready /\ k \in renewed) => shown[k] = server[k]
              /\ kind = "overview" /\ st.ready =>
                    \A k \in Keys \ (covered \cup renewed) : shown[k] = NoRow
================================================================================
