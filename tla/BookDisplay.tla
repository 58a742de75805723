------------------------------ MODULE BookDisplay ------------------------------
(***************************************************************************)
(* What emit of createSubscription (src/services/orderbook/orderbook.ts)   *)
(* shows of the two sides of a book: levels gathered into buckets of a     *)
(* width the consumer chose, the best ones first, no more than it asked    *)
(* for.  A side is a function from prices, in ticks, to quantities.        *)
(***************************************************************************)
EXTENDS Integers, FiniteSets
LOCAL INSTANCE Functions

\* Mutant: asks are rounded down too.
RoundedDown(price, side, bucket) == (price \div bucket) * bucket
\* The bucket of a price: bids are rounded down, asks up.
BucketPrice(price, side, bucket) ==
    LET floor == (price \div bucket) * bucket
    IN  IF side = "asks" /\ floor # price THEN floor + bucket ELSE floor

\* The prices of a side that fall into a bucket.
Gathered(map, side, bucket, at) == {p \in DOMAIN map : BucketPrice(p, side, bucket) = at}

Total(map, prices) == FoldFunctionOnSet(+, 0, map, prices)

\* sideToUIBucketed without its slice; a bucket of 0 is none.
Aggregated(map, side, bucket) ==
    IF bucket = 0 THEN map
    ELSE [at \in {BucketPrice(p, side, bucket) : p \in DOMAIN map} |->
            Total(map, Gathered(map, side, bucket, at))]

Better(side, p, q) == IF side = "bids" THEN p > q ELSE p < q

\* sideToUI: the best `limit` levels.
Best(map, side, limit) ==
    [p \in {p \in DOMAIN map : Cardinality({q \in DOMAIN map : Better(side, q, p)}) < limit} |-> map[p]]

SideToUI(map, side, limit, bucket) == Best(Aggregated(map, side, bucket), side, limit)
================================================================================
