----------------------------- MODULE MCOrderBook -----------------------------
(* Small instances of OrderBook.                                           *)
EXTENDS OrderBookProperties

CONSTANTS l1, l2

\* A level appears, another, the first goes, the second changes and the
\* first comes back.
MCHistory == <<[level |-> l1, qty |-> 1], [level |-> l2, qty |-> 1],
               [level |-> l1, qty |-> 0], [level |-> l2, qty |-> 2],
               [level |-> l1, qty |-> 1]>>
==============================================================================
